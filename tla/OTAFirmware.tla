---------------------------- MODULE OTAFirmware ----------------------------
(***************************************************************************)
(* Firmware update over the air (MyOTAFirmwareUpdate.cpp): the controller  *)
(* offers a firmware, the node asks for its blocks from the last to the    *)
(* first, writes them to an external flash, checks their CRC, records the  *)
(* configuration in EEPROM, signs the image and reboots into the boot      *)
(* loader, which copies a signed image over the program.                   *)
(*                                                                         *)
(* The controller and the boot loader are not part of the repository.  The *)
(* controller may offer any firmware at any time; it answers a request     *)
(* with the block asked for, and the answer is lost, late or repeated: any *)
(* block asked for so far may arrive.  The CRC is taken to tell every      *)
(* wrong image from the right one.                                         *)
(***************************************************************************)
EXTENDS Integers

CONSTANTS
  Firmwares,          \* the firmwares of the controller
  Factory,            \* the one the node was delivered with
  Blocks,             \* Blocks[f]: nodeFirmwareConfig_t.blocks of firmware f
  MY_OTA_RETRY,
  Erased, Garbage,    \* contents of a flash block that are no firmware
  Torn,               \* an EEPROM record that is half old and half new
  MaxOffers,          \* bound: offers of the controller
  MaxResets           \* bound: power losses and remote reboots

ASSUME FirmwareAssumption ==
  /\ Factory \in Firmwares
  /\ Blocks \in [Firmwares -> Nat \ {0}]
  /\ {Erased, Garbage, Torn} \cap Firmwares = {}
  /\ Erased # Garbage

ASSUME OTALimitAssumption ==
  /\ MY_OTA_RETRY \in Nat
  /\ MaxOffers \in Nat
  /\ MaxResets \in Nat

Configs == Firmwares \cup {Torn}

VARIABLES
  program,            \* what the microcontroller runs
  eepromConfig,       \* the configuration at EEPROM_FIRMWARE_TYPE_ADDRESS
  config,             \* _nodeFirmwareConfig
  ongoing,            \* _firmwareUpdateOngoing
  block,              \* _firmwareBlock: blocks that are still missing
  retry,              \* _firmwareRetry
  due,                \* now - _firmwareLastRequest > MY_OTA_RETRY_DELAY
  flash,              \* flash[b]: whose block b it holds
  signature,          \* blocks of the image under the signature, 0: not signed
  phase,              \* how far the handler of the last block has come
  asked,              \* the blocks the controller was asked for
  offers, resets

image == <<flash, signature>>
stored == <<program, eepromConfig>>
limits == <<offers, resets>>
vars == <<program, eepromConfig, config, ongoing, block, retry, due, flash,
           signature, phase, asked, offers, resets>>

Numbers == UNION {1 .. Blocks[f] : f \in Firmwares}

TypeOK ==
  /\ program \in Firmwares
  /\ eepromConfig \in Configs
  /\ config \in Configs
  /\ ongoing \in BOOLEAN
  /\ block \in {0} \cup Numbers
  /\ retry \in 0 .. MY_OTA_RETRY + 1
  /\ due \in BOOLEAN
  /\ flash \in [Numbers -> Firmwares \cup {Erased, Garbage}]
  /\ signature \in {0} \cup Numbers
  /\ phase \in {"idle", "verified", "stored", "signed"}
  /\ asked \subseteq Firmwares \X Numbers
  /\ offers \in 0 .. MaxOffers
  /\ resets \in 0 .. MaxResets

-----------------------------------------------------------------------------
(* The image in flash *)

Blank == [b \in Numbers |-> Erased]

\* The flash holds the n blocks of firmware f.
Holds(f, n) == Blocks[f] = n /\ \A b \in 1 .. n : flash[b] = f

\* Mutation: no check of the CRC.
IsValidUnchecked(q) == TRUE

\* transportIsValidFirmware
IsValid(q) == \A b \in 1 .. Blocks[config] : q[b] = config

\* The flash after firmware f's block b was programmed.
Written(f, b) == [flash EXCEPT ![b] = IF @ = Erased THEN f ELSE Garbage]

\* What the node runs after the boot loader: a signed image if there is one.
Booted(installed) ==
  IF signature = 0 THEN installed = program
  ELSE IF \E f \in Firmwares : Holds(f, signature)
       THEN installed \in Firmwares /\ Holds(installed, signature)
       ELSE installed = Garbage

-----------------------------------------------------------------------------
Init ==
  /\ program = Factory /\ eepromConfig = Factory /\ config = Factory
  /\ ongoing = FALSE /\ block = 0 /\ retry = 0 /\ due = TRUE
  /\ flash = Blank /\ signature = 0 /\ phase = "idle"
  /\ asked = {}
  /\ offers = 0 /\ resets = 0

\* ST_FIRMWARE_CONFIG_RESPONSE, the flash does not answer: the configuration
\* is replaced nevertheless.
RecvConfigNoFlash(f) ==
  /\ phase = "idle" /\ offers < MaxOffers
  /\ config # f
  /\ config' = f
  /\ ongoing' = FALSE
  /\ offers' = offers + 1
  /\ UNCHANGED <<stored, block, retry, due, image, phase, asked,
                 resets>>

\* ST_FIRMWARE_CONFIG_RESPONSE with another configuration than the one in RAM:
\* erase the flash and start to download, whatever was going on before.  The
\* same configuration again is skipped.
RecvConfig(f) ==
  /\ phase = "idle" /\ offers < MaxOffers
  /\ config # f
  /\ config' = f
  /\ flash' = Blank /\ signature' = 0
  /\ block' = Blocks[f]
  /\ ongoing' = TRUE
  /\ retry' = MY_OTA_RETRY + 1 /\ due' = TRUE
  /\ offers' = offers + 1
  /\ UNCHANGED <<stored, phase, asked, resets>>

-----------------------------------------------------------------------------
(* Requests: firmwareOTAUpdateRequest, called by the transport when it is   *)
(* ready.                                                                   *)

\* Mutation: the retries are not counted.
RequestUncounted ==
  /\ phase = "idle" /\ ongoing /\ due
  /\ retry > 0
  /\ due' = FALSE
  /\ asked' = asked \cup {<<config, block>>}
  /\ UNCHANGED <<stored, config, ongoing, block, retry, image, phase, limits>>

Request ==
  /\ phase = "idle" /\ ongoing /\ due
  /\ retry > 0
  /\ retry' = retry - 1
  /\ due' = FALSE
  /\ asked' = asked \cup {<<config, block>>}
  /\ UNCHANGED <<stored, config, ongoing, block, image, phase, limits>>

GiveUp ==
  /\ phase = "idle" /\ ongoing /\ due
  /\ retry = 0
  /\ ongoing' = FALSE
  /\ UNCHANGED <<stored, config, block, retry, due, image, phase, asked, limits>>

\* MY_OTA_RETRY_DELAY has passed.
Tick ==
  /\ phase = "idle" /\ ongoing /\ ~ due
  /\ due' = TRUE
  /\ UNCHANGED <<stored, config, ongoing, block, retry, image, phase, asked, limits>>

-----------------------------------------------------------------------------
(* Blocks *)

\* Mutation: a block is taken whatever its number is.
RecvBlockAnyNumber(f, b) ==
  /\ phase = "idle" /\ ongoing
  /\ <<f, b>> \in asked
  /\ flash' = Written(f, b)
  /\ block' = block - 1
  /\ ongoing' = (block > 1)
  /\ phase' = IF block = 1 /\ IsValid(flash') THEN "verified" ELSE "idle"
  /\ retry' = MY_OTA_RETRY + 1 /\ due' = TRUE
  /\ UNCHANGED <<stored, config, signature, asked, limits>>

\* ST_FIRMWARE_RESPONSE with block b of firmware f.  Only the number of the
\* block is looked at; a wrong number changes nothing.  After the last block
\* the handler goes on with the three steps below if the CRC is right.
RecvBlock(f, b) ==
  /\ phase = "idle" /\ ongoing
  /\ <<f, b>> \in asked
  /\ b = block
  /\ flash' = Written(f, b)
  /\ block' = block - 1
  /\ ongoing' = (block > 1)
  /\ phase' = IF block = 1 /\ IsValid(flash') THEN "verified" ELSE "idle"
  /\ retry' = MY_OTA_RETRY + 1 /\ due' = TRUE
  /\ UNCHANGED <<stored, config, signature, asked, limits>>

\* Mutation: the configuration is not recorded.
StoreConfigForgotten ==
  /\ phase = "verified"
  /\ phase' = "stored"
  /\ UNCHANGED <<stored, config, ongoing, block, retry, due, image, asked, limits>>

StoreConfig ==
  /\ phase = "verified"
  /\ eepromConfig' = config
  /\ phase' = "stored"
  /\ UNCHANGED <<program, config, ongoing, block, retry, due, image, asked, limits>>

WriteSignature ==
  /\ phase = "stored"
  /\ signature' = Blocks[config]
  /\ phase' = "signed"
  /\ UNCHANGED <<stored, config, ongoing, block, retry, due, flash, asked, limits>>

-----------------------------------------------------------------------------
(* Boot loader and start of the node *)

\* The boot loader installs and clears a signed image; _begin then reads the
\* configuration from EEPROM, and the rest of RAM is zero.
Boot ==
  /\ Booted(program')
  /\ signature' = 0
  /\ flash' = IF signature = 0 THEN flash ELSE Blank
  /\ config' = eepromConfig'
  /\ ongoing' = FALSE /\ block' = 0 /\ retry' = 0 /\ due' = TRUE
  /\ phase' = "idle"
  /\ UNCHANGED <<asked, offers>>

\* hwReboot after a complete update.
Reboot ==
  /\ phase = "signed"
  /\ UNCHANGED <<eepromConfig, resets>>
  /\ Boot

\* A power loss at any point, also while the configuration is being written to
\* EEPROM; between two messages, a remote reboot (I_REBOOT).
Reset ==
  /\ resets < MaxResets
  /\ resets' = resets + 1
  /\ \/ UNCHANGED eepromConfig
     \/ phase = "verified" /\ eepromConfig' = Torn
  /\ Boot

\* presentBootloaderInformation, at the start and for every I_PRESENTATION: an
\* update under way is abandoned.
Present ==
  /\ phase = "idle"
  /\ ongoing' = FALSE
  /\ UNCHANGED <<stored, config, block, retry, due, image, phase, asked, limits>>

Next ==
  \/ \E f \in Firmwares : RecvConfig(f) \/ RecvConfigNoFlash(f)
  \/ Request \/ GiveUp \/ Tick
  \/ \E f \in Firmwares, b \in Numbers : RecvBlock(f, b)
  \/ StoreConfig \/ WriteSignature \/ Reboot
  \/ Reset
  \/ Present

\* loop() goes on and the transport is ready again and again (AlwaysReconnects
\* of TransportSM); nothing is assumed about answers.
Fairness ==
  /\ WF_vars(Request) /\ WF_vars(GiveUp) /\ WF_vars(Tick)
  /\ WF_vars(StoreConfig) /\ WF_vars(WriteSignature) /\ WF_vars(Reboot)

Spec == Init /\ [][Next]_vars

FairSpec == Spec /\ Fairness
-----------------------------------------------------------------------------
(* Properties *)

\* The boot loader never finds a signed image that is incomplete, mixes two
\* firmwares or is another one than EEPROM says (lines 115-128), although
\* answers of an earlier download are accepted without looking at their type
\* and version (line 100).
SignedImageComplete ==
  signature # 0 =>
    /\ config \in Firmwares /\ eepromConfig = config
    /\ Holds(config, signature)

\* While a download is going on, exactly the blocks above the current one have
\* been written: repeated, late and wrong answers neither skip a block nor
\* write one twice, which a flash cannot do without erasing it (lines 81-113).
DownloadInOrder ==
  ongoing => \A b \in 1 .. Blocks[config] : flash[b] = Erased <=> b <= block

\* "Current firmware settings (type, version, crc, blocks) are read"
\* (readFirmwareSettings, MyOTAFirmwareUpdate.h:120): between two messages the
\* EEPROM record belongs to the program that runs.
ConfigIsCurrent == phase = "idle" => eepromConfig = program

\* Without a reset in between, the EEPROM record and the program change
\* together, however downloads fail (lines 114-129).
CurrentUntilReset == resets = 0 => ConfigIsCurrent

\* Every download comes to an end, whatever happens to the answers (lines
\* 43-52 and 114-136): each block costs at most MY_OTA_RETRY + 1 requests.
DownloadEnds == ongoing ~> ~ ongoing

\* The program is only replaced as a whole, and by what EEPROM records
\* (lines 121-129 with the boot loader), at whatever point the power fails.
Inst == INSTANCE Installation WITH record <- eepromConfig
ImplementsInstallation == Inst!Spec
=============================================================================
