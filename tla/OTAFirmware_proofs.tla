------------------------- MODULE OTAFirmware_proofs -------------------------
(***************************************************************************)
(* Proofs about OTAFirmware, for every set of firmwares, every number of   *)
(* blocks and retries and every number of resets.                          *)
(***************************************************************************)
EXTENDS OTAFirmware, TLAPS

\* What a download that is going on, and each step of the handler of the last
\* block, may rely on.
DownloadInv ==
  ongoing => /\ phase = "idle"
             /\ config \in Firmwares
             /\ block \in 1 .. Blocks[config]

PhaseInv ==
  /\ phase # "idle" => config \in Firmwares /\ IsValid(flash)
  /\ phase \in {"stored", "signed"} => eepromConfig = config
  /\ signature = IF phase = "signed" THEN Blocks[config] ELSE 0

\* CurrentUntilReset, until the record is written.
RecordInv ==
  resets = 0 /\ phase \in {"idle", "verified"} => eepromConfig = program

IInv == TypeOK /\ DownloadInv /\ PhaseInv /\ RecordInv /\ DownloadInOrder

-----------------------------------------------------------------------------
(* Lemmas *)

\* Block numbers are positive, and every block of a firmware has one.
LEMMA BlockNumbers ==
  /\ Numbers \subseteq Nat \ {0}
  /\ \A f \in Firmwares : 1 .. Blocks[f] \subseteq Numbers /\ Blocks[f] \in Numbers
<1>1. \A f \in Firmwares : Blocks[f] \in Nat \ {0}
  BY FirmwareAssumption
<1>2. \A f \in Firmwares : 1 .. Blocks[f] \subseteq Numbers
  BY DEF Numbers
<1>3. ASSUME NEW f \in Firmwares PROVE Blocks[f] \in 1 .. Blocks[f]
  <2>1. Blocks[f] \in Nat \ {0}
    BY <1>1
  <2> QED
    BY <2>1
<1>4. Numbers \subseteq Nat \ {0}
  BY <1>1 DEF Numbers
<1> QED
  BY <1>2, <1>3, <1>4

\* A valid image boots as the firmware it belongs to, and as no other.
LEMMA ValidImageBoots ==
  ASSUME TypeOK, PhaseInv, phase = "signed", NEW p, Booted(p)
  PROVE  p = config /\ config \in Firmwares /\ eepromConfig = config
<1>1. config \in Firmwares /\ IsValid(flash) /\ eepromConfig = config
      /\ signature = Blocks[config]
  BY DEF PhaseInv
<1>2. Blocks[config] \in Nat \ {0}
  BY <1>1, FirmwareAssumption
<1>3. Holds(config, signature)
  BY <1>1 DEF Holds, IsValid
<1>4. p \in Firmwares /\ Holds(p, signature)
  BY <1>1, <1>2, <1>3 DEF Booted
<1>5. 1 \in 1 .. signature
  BY <1>1, <1>2
<1>6. flash[1] = p /\ flash[1] = config
  BY <1>3, <1>4, <1>5 DEF Holds
<1> QED
  BY <1>1, <1>6

\* Without a signature the boot loader changes nothing.
LEMMA UnsignedBoots ==
  ASSUME PhaseInv, phase # "signed", NEW p, Booted(p)
  PROVE  p = program
BY DEF PhaseInv, Booted

-----------------------------------------------------------------------------
(* The invariant *)

\* A node as delivered satisfies the invariant.
LEMMA InitInv == Init => IInv
<1> SUFFICES ASSUME Init PROVE IInv
  OBVIOUS
<1>1. TypeOK
  <2>1. /\ 0 \in 0 .. MaxOffers /\ 0 \in 0 .. MaxResets
        /\ 0 \in 0 .. MY_OTA_RETRY + 1
    BY OTALimitAssumption
  <2>2. flash \in [Numbers -> Firmwares \cup {Erased, Garbage}]
    BY DEF Init, Blank
  <2>3. Factory \in Firmwares /\ Factory \in Configs
    BY FirmwareAssumption DEF Configs
  <2> QED
    BY <2>1, <2>2, <2>3 DEF Init, TypeOK
<1>2. DownloadInv /\ PhaseInv /\ RecordInv /\ DownloadInOrder
  BY DEF Init, DownloadInv, PhaseInv, RecordInv, DownloadInOrder
<1> QED
  BY <1>1, <1>2 DEF IInv

\* A new offer starts a download with an empty flash.
LEMMA RecvConfigInv ==
  ASSUME IInv, NEW f \in Firmwares, RecvConfig(f)
  PROVE  IInv'
<1> USE DEF RecvConfig, stored, image, limits
<1>1. Blocks[f] \in Nat \ {0} /\ Blocks[f] \in Numbers
  BY BlockNumbers, FirmwareAssumption
<1>2. TypeOK'
  BY <1>1, OTALimitAssumption DEF IInv, TypeOK, Configs, Blank
<1>3. RecordInv'
  BY DEF IInv, RecordInv
<1>4. DownloadInv'
  BY <1>1 DEF DownloadInv
<1>5. PhaseInv'
  BY DEF IInv, PhaseInv
<1>6. DownloadInOrder'
  <2> SUFFICES ASSUME NEW b \in 1 .. Blocks[f]
               PROVE  flash'[b] = Erased /\ b <= block'
    BY DEF DownloadInOrder
  <2>1. b \in Numbers
    BY BlockNumbers
  <2> QED
    BY <1>1, <2>1 DEF Blank
<1> QED
  BY <1>2, <1>3, <1>4, <1>5, <1>6 DEF IInv

\* A flash that does not answer ends the download that was going on.
LEMMA RecvConfigNoFlashInv ==
  ASSUME IInv, NEW f \in Firmwares, RecvConfigNoFlash(f)
  PROVE  IInv'
<1> USE DEF RecvConfigNoFlash, stored, image, limits
<1>1. TypeOK'
  <2>1. offers' \in 0 .. MaxOffers
    BY OTALimitAssumption DEF IInv, TypeOK
  <2>2. config' \in Configs
    BY DEF Configs
  <2> QED
    BY <2>1, <2>2 DEF IInv, TypeOK
<1>2. RecordInv' /\ DownloadInv' /\ DownloadInOrder'
  BY DEF IInv, RecordInv, DownloadInv, DownloadInOrder
<1>3. PhaseInv'
  BY DEF IInv, PhaseInv
<1> QED
  BY <1>1, <1>2, <1>3 DEF IInv

\* A request costs one retry and asks for the block that is missing.
LEMMA RequestKeepsInv ==
  ASSUME IInv, Request
  PROVE  IInv'
<1> USE DEF Request, stored, image, limits
<1>1. config \in Firmwares /\ block \in Numbers
  BY BlockNumbers DEF IInv, DownloadInv
<1>2. retry' \in 0 .. MY_OTA_RETRY + 1 /\ RecordInv'
  BY OTALimitAssumption DEF IInv, TypeOK, RecordInv
<1>5. asked' \subseteq Firmwares \X Numbers
  BY <1>1 DEF IInv, TypeOK
<1>6. TypeOK'
  BY <1>2, <1>5 DEF IInv, TypeOK
<1>3. DownloadInv' /\ DownloadInOrder'
  BY DEF IInv, DownloadInv, DownloadInOrder
<1>4. PhaseInv'
  BY DEF IInv, PhaseInv, IsValid
<1> QED
  BY <1>2, <1>3, <1>4, <1>6 DEF IInv

\* The end of a download by retries or by a presentation, and the passage of
\* time, touch neither the flash nor EEPROM.
LEMMA IdleInv ==
  ASSUME IInv, GiveUp \/ Tick \/ Present
  PROVE  IInv'
<1> USE DEF GiveUp, Tick, Present, stored, image, limits
<1>1. TypeOK' /\ RecordInv'
  BY DEF IInv, TypeOK, RecordInv
<1>2. DownloadInv' /\ DownloadInOrder'
  BY DEF IInv, DownloadInv, DownloadInOrder
<1>3. PhaseInv'
  BY DEF IInv, PhaseInv, IsValid
<1> QED
  BY <1>1, <1>2, <1>3 DEF IInv

\* A block fills the next gap; the last one is followed by the CRC.
LEMMA RecvBlockInv ==
  ASSUME IInv, NEW f \in Firmwares, NEW b \in Numbers, RecvBlock(f, b)
  PROVE  IInv'
<1> USE DEF RecvBlock, stored, limits
<1>1. /\ config \in Firmwares /\ block \in 1 .. Blocks[config]
      /\ b = block /\ b \in Numbers
  BY DEF IInv, DownloadInv
<1>2. Blocks[config] \in Nat \ {0} /\ 1 .. Blocks[config] \subseteq Numbers
  BY <1>1, BlockNumbers, FirmwareAssumption
<1>3. block' \in {0} \cup Numbers /\ (ongoing' => block' \in 1 .. Blocks[config])
  <2>1. CASE block = 1
    <3>1. block' = 0
      BY <2>1
    <3>2. ~ (block > 1)
      BY <2>1
    <3>3. ongoing' = (block > 1)
      OBVIOUS
    <3> QED
      BY <3>1, <3>2, <3>3
  <2>2. CASE block # 1
    <3>1. block - 1 \in 1 .. Blocks[config]
      BY <1>1, <1>2, <2>2
    <3> QED
      BY <1>2, <3>1
  <2> QED
    BY <2>1, <2>2
<1>4. flash' \in [Numbers -> Firmwares \cup {Erased, Garbage}]
  BY DEF IInv, TypeOK, Written
<1>5. TypeOK'
  BY <1>3, <1>4, OTALimitAssumption DEF IInv, TypeOK
<1>6. RecordInv'
  BY DEF IInv, RecordInv
<1>7. DownloadInv'
  BY <1>1, <1>3 DEF DownloadInv
<1>8. PhaseInv'
  BY <1>1 DEF IInv, PhaseInv, IsValid
<1>9. DownloadInOrder'
  <2> SUFFICES ASSUME ongoing', NEW c \in 1 .. Blocks[config]
               PROVE  flash'[c] = Erased <=> c <= block - 1
    BY DEF DownloadInOrder
  <2>1. flash[c] = Erased <=> c <= block
    BY DEF IInv, DownloadInOrder
  <2>2. c \in Numbers /\ flash \in [Numbers -> Firmwares \cup {Erased, Garbage}]
    BY <1>2 DEF IInv, TypeOK
  <2>3. CASE c # b
    <3>1. flash'[c] = flash[c]
      BY <2>2, <2>3 DEF Written
    <3> QED
      BY <1>1, <1>2, <2>1, <2>3, <3>1
  <2>4. CASE c = b
    <3>1. flash'[c] \in {f, Garbage}
      BY <2>2, <2>4 DEF Written
    <3>2. flash'[c] # Erased
      BY <3>1, FirmwareAssumption
    <3> QED
      BY <1>1, <1>2, <2>4, <3>2
  <2> QED
    BY <2>3, <2>4
<1> QED
  BY <1>5, <1>6, <1>7, <1>8, <1>9 DEF IInv

\* The configuration goes to EEPROM before the image is signed.
LEMMA RecordKeepsInv ==
  ASSUME IInv, StoreConfig \/ WriteSignature
  PROVE  IInv'
<1> USE DEF StoreConfig, WriteSignature, stored, image, limits
<1>1. config \in Firmwares /\ Blocks[config] \in Numbers
  BY BlockNumbers DEF IInv, PhaseInv
<1>2. TypeOK' /\ RecordInv'
  BY <1>1 DEF IInv, TypeOK, RecordInv
<1>3. DownloadInv' /\ DownloadInOrder'
  BY DEF IInv, DownloadInv, DownloadInOrder
<1>4. PhaseInv'
  BY DEF IInv, PhaseInv, IsValid
<1> QED
  BY <1>2, <1>3, <1>4 DEF IInv

\* A start leaves a complete program, an unsigned flash and no download.
LEMMA BootInv ==
  ASSUME IInv, Boot, eepromConfig' \in Configs, resets' \in 0 .. MaxResets,
         resets' = 0 => phase = "signed" /\ UNCHANGED eepromConfig
  PROVE  IInv'
<1> USE DEF Boot
<1>1. program' \in Firmwares
  <2>1. CASE phase = "signed"
    BY <2>1, ValidImageBoots DEF IInv
  <2>2. CASE phase # "signed"
    BY <2>2, UnsignedBoots DEF IInv, TypeOK
  <2> QED
    BY <2>1, <2>2
<1>2. TypeOK'
  <2>1. flash' \in [Numbers -> Firmwares \cup {Erased, Garbage}]
    BY DEF IInv, TypeOK, Blank
  <2>2. 0 \in 0 .. MY_OTA_RETRY + 1
    BY OTALimitAssumption
  <2> QED
    BY <1>1, <2>1, <2>2 DEF IInv, TypeOK
<1>3. DownloadInv' /\ PhaseInv' /\ DownloadInOrder'
  BY DEF DownloadInv, PhaseInv, DownloadInOrder
<1>4. RecordInv'
  <2>1. ASSUME resets' = 0 PROVE program' = eepromConfig'
    BY <2>1, ValidImageBoots DEF IInv
  <2> QED
    BY <2>1 DEF RecordInv
<1> QED
  BY <1>2, <1>3, <1>4 DEF IInv

\* The invariant is inductive: one case per action.
LEMMA NextInv == IInv /\ [Next]_vars => IInv'
<1> SUFFICES ASSUME IInv, [Next]_vars PROVE IInv'
  OBVIOUS
<1>1. ASSUME NEW f \in Firmwares, RecvConfig(f) PROVE IInv'
  BY <1>1, RecvConfigInv
<1>2. ASSUME NEW f \in Firmwares, RecvConfigNoFlash(f) PROVE IInv'
  BY <1>2, RecvConfigNoFlashInv
<1>3. CASE Request
  BY <1>3, RequestKeepsInv
<1>4. CASE GiveUp \/ Tick \/ Present
  BY <1>4, IdleInv
<1>5. ASSUME NEW f \in Firmwares, NEW b \in Numbers, RecvBlock(f, b) PROVE IInv'
  BY <1>5, RecvBlockInv
<1>6. CASE StoreConfig \/ WriteSignature
  BY <1>6, RecordKeepsInv
<1>7. CASE Reboot
  BY <1>7, BootInv DEF Reboot, IInv, TypeOK
<1>8. CASE Reset
  <2>1. eepromConfig' \in Configs /\ Boot
    BY <1>8 DEF Reset, IInv, TypeOK, Configs
  <2>2. resets' \in 0 .. MaxResets /\ resets' # 0
    BY <1>8, OTALimitAssumption DEF Reset, IInv, TypeOK
  <2> QED
    BY <2>1, <2>2, BootInv
<1>9. CASE UNCHANGED vars
  BY <1>9 DEF vars, IInv, TypeOK, DownloadInv, PhaseInv, RecordInv,
              IsValid, DownloadInOrder
<1> QED
  BY <1>1, <1>2, <1>3, <1>4, <1>5, <1>6, <1>7, <1>8, <1>9 DEF Next

\* The invariant holds in every reachable state.
LEMMA Invariance == Spec => []IInv
<1>1. Init => IInv
  BY InitInv
<1>2. IInv /\ [Next]_vars => IInv'
  BY NextInv
<1> QED
  BY <1>1, <1>2, PTL DEF Spec

-----------------------------------------------------------------------------
(* Theorems *)

\* Type correctness; in particular the node always runs one of the firmwares,
\* whole, and no counter leaves its range (MyOTAFirmwareUpdate.cpp:27-32).
THEOREM TypeCorrect == Spec => []TypeOK
<1>1. IInv => TypeOK
  BY DEF IInv
<1> QED
  BY <1>1, Invariance, PTL

\* Whatever answers are lost, late or repeated and wherever the power fails,
\* a signed image is complete and the one EEPROM names (lines 115-128).
THEOREM SignedImageIsComplete == Spec => []SignedImageComplete
<1>1. IInv => SignedImageComplete
  <2> SUFFICES ASSUME IInv, signature # 0
               PROVE  /\ config \in Firmwares /\ eepromConfig = config
                      /\ Holds(config, signature)
    BY DEF SignedImageComplete
  <2>1. phase = "signed" /\ signature = Blocks[config]
    BY DEF IInv, PhaseInv
  <2> QED
    BY <2>1 DEF IInv, PhaseInv, Holds, IsValid
<1> QED
  BY <1>1, Invariance, PTL

\* A download of any length writes every block once and skips none (lines
\* 95-136).
THEOREM DownloadIsInOrder == Spec => []DownloadInOrder
<1>1. IInv => DownloadInOrder
  BY DEF IInv
<1> QED
  BY <1>1, Invariance, PTL

\* Until the first reset, EEPROM names the program whenever a handler is not
\* about to replace it, however many downloads fail (lines 114-129).
THEOREM ConfigIsCurrentUntilReset == Spec => []CurrentUntilReset
<1>1. IInv => CurrentUntilReset
  BY DEF IInv, RecordInv, CurrentUntilReset, ConfigIsCurrent
<1> QED
  BY <1>1, Invariance, PTL

\* Initial states map to initial states.
LEMMA InitInstalls == Init => Inst!Init
BY DEF Init, Inst!Init

\* Only a start changes the program, and only to what EEPROM records.
LEMMA BootInstalls ==
  ASSUME IInv, Reboot \/ Reset
  PROVE  Inst!Next \/ UNCHANGED <<program, eepromConfig>>
<1> USE DEF Inst!Next, Inst!Install, Inst!Tear
<1>1. CASE phase = "signed" /\ UNCHANGED eepromConfig
  <2>1. Booted(program')
    BY DEF Reboot, Reset, Boot
  <2>2. program' = config /\ config \in Firmwares /\ eepromConfig = config
    BY <1>1, <2>1, ValidImageBoots DEF IInv
  <2> QED
    BY <1>1, <2>2
<1>2. CASE phase # "signed"
  <2>1. Booted(program')
    BY DEF Reboot, Reset, Boot
  <2>2. program' = program
    BY <1>2, <2>1, UnsignedBoots DEF IInv
  <2> QED
    BY <1>2, <2>2 DEF Reboot, Reset
<1> QED
  BY <1>1, <1>2 DEF Reboot, Reset

\* Every step maps to a step of Installation or to a stutter.
LEMMA StepInstalls ==
  IInv /\ [Next]_vars => [Inst!Next]_<<program, eepromConfig>>
<1> SUFFICES ASSUME IInv, [Next]_vars
             PROVE  Inst!Next \/ UNCHANGED <<program, eepromConfig>>
  OBVIOUS
<1>1. CASE StoreConfig
  <2>1. config \in Firmwares
    BY <1>1 DEF StoreConfig, IInv, PhaseInv
  <2> QED
    BY <1>1, <2>1 DEF StoreConfig, Inst!Next, Inst!Record
<1>2. CASE Reboot \/ Reset
  BY <1>2, BootInstalls
<1>3. ASSUME NEW f \in Firmwares, RecvConfig(f) \/ RecvConfigNoFlash(f)
      PROVE  UNCHANGED <<program, eepromConfig>>
  BY <1>3 DEF RecvConfig, RecvConfigNoFlash, stored
<1>4. ASSUME NEW f \in Firmwares, NEW b \in Numbers, RecvBlock(f, b)
      PROVE  UNCHANGED <<program, eepromConfig>>
  BY <1>4 DEF RecvBlock, stored
<1>5. CASE Request \/ GiveUp \/ Tick \/ WriteSignature \/ Present
  BY <1>5 DEF Request, GiveUp, Tick, WriteSignature, Present, stored
<1>6. CASE UNCHANGED vars
  BY <1>6 DEF vars
<1> QED
  BY <1>1, <1>2, <1>3, <1>4, <1>5, <1>6 DEF Next

\* An update installs one firmware as a whole, after it was recorded.
THEOREM Implementation == Spec => ImplementsInstallation
<1>1. Init => Inst!Init
  BY InitInstalls
<1>2. IInv /\ [Next]_vars => [Inst!Next]_<<program, eepromConfig>>
  BY StepInstalls
<1> QED
  BY <1>1, <1>2, Invariance, PTL DEF Spec, ImplementsInstallation, Inst!Spec

-----------------------------------------------------------------------------
(* A download runs down *)

\* What a download still costs: for each missing block MY_OTA_RETRY + 1
\* requests, each with its delay, and for this one those that are left.
CostOfBlock == 2 * (MY_OTA_RETRY + 1) + 1
Left == CostOfBlock * block + 2 * retry + (IF due THEN 0 ELSE 1)

LEMMA CostIsNatural ==
  ASSUME TypeOK
  PROVE  Left \in Nat
<1>1. block \in Nat /\ retry \in Nat /\ CostOfBlock \in Nat
  BY BlockNumbers, OTALimitAssumption DEF TypeOK, CostOfBlock
<1>2. CostOfBlock * block \in Nat
  BY <1>1
<1> QED
  BY <1>1, <1>2 DEF Left

\* Every step of a download that goes on, without a new offer, brings it nearer
\* to its end: a node that waits for answers asks MY_OTA_RETRY + 1 times for
\* each block (lines 43-52), whatever comes late, twice or never - the part of
\* DownloadEnds that does not need fairness.
DownloadRunsDown ==
  [][ongoing /\ ongoing' /\ offers' = offers => Left' < Left]_vars

THEOREM DownloadCannotGoOnForEver == Spec => DownloadRunsDown /\ [](Left \in Nat)
<1> DEFINE Step == ongoing /\ ongoing' /\ offers' = offers => Left' < Left
<1>1. ASSUME IInv, Next, ongoing, ongoing', offers' = offers
      PROVE  Left' < Left
  <2> USE DEF stored, image, limits
  <2>1. /\ block \in Nat /\ retry \in 0 .. MY_OTA_RETRY + 1 /\ due \in BOOLEAN
        /\ MY_OTA_RETRY \in Nat /\ CostOfBlock \in Nat
        /\ CostOfBlock = 2 * (MY_OTA_RETRY + 1) + 1 /\ phase = "idle"
        /\ offers \in Nat
    BY <1>1, BlockNumbers, OTALimitAssumption
    DEF IInv, TypeOK, DownloadInv, CostOfBlock
  <2>2. PICK cost \in Nat : cost = CostOfBlock * block
    BY <2>1
  <2>3. Left = cost + 2 * retry + (IF due THEN 0 ELSE 1)
    BY <2>2 DEF Left
  <2>4. CASE Request
    <3>1. block' = block /\ retry' = retry - 1 /\ due /\ due' = FALSE /\ retry > 0
      BY <2>4 DEF Request
    <3>2. Left' = cost + 2 * (retry - 1) + 1
      BY <2>2, <3>1 DEF Left, CostOfBlock
    <3> QED
      BY <2>1, <2>3, <3>1, <3>2
  <2>5. CASE Tick
    <3>1. block' = block /\ retry' = retry /\ ~ due /\ due' = TRUE
      BY <2>5 DEF Tick
    <3>2. Left' = cost + 2 * retry
      BY <2>1, <2>2, <3>1 DEF Left, CostOfBlock
    <3> QED
      BY <2>1, <2>3, <3>1, <3>2
  <2>6. CASE \E f \in Firmwares, b \in Numbers : RecvBlock(f, b)
    <3>1. block' = block - 1 /\ retry' = MY_OTA_RETRY + 1 /\ due' = TRUE
      BY <2>6 DEF RecvBlock
    <3>2. CostOfBlock * (block - 1) = cost - CostOfBlock
      BY <2>1, <2>2
    <3>3. Left' = cost - CostOfBlock + 2 * (MY_OTA_RETRY + 1)
      BY <2>1, <3>1, <3>2 DEF Left, CostOfBlock
    <3>4. Left' = cost - 1
      BY <2>1, <3>3
    <3> QED
      BY <2>1, <2>3, <3>4
  <2>7. CASE \E f \in Firmwares : RecvConfig(f) \/ RecvConfigNoFlash(f)
    BY <1>1, <2>1, <2>7 DEF RecvConfig, RecvConfigNoFlash
  <2>8. CASE GiveUp \/ Reset \/ Present
    BY <1>1, <2>8 DEF GiveUp, Reset, Present, Boot
  <2>9. CASE StoreConfig \/ WriteSignature \/ Reboot
    BY <2>1, <2>9 DEF StoreConfig, WriteSignature, Reboot
  <2> QED
    BY <1>1, <2>4, <2>5, <2>6, <2>7, <2>8, <2>9 DEF Next
<1>2. IInv /\ [Next]_vars => [Step]_vars
  BY <1>1
<1>3. TypeOK => Left \in Nat
  BY CostIsNatural
<1> QED
  BY <1>2, <1>3, Invariance, TypeCorrect, PTL DEF Spec, DownloadRunsDown

=============================================================================
