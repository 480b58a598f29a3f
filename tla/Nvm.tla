--------------------------------- MODULE Nvm ----------------------------------
(***************************************************************************)
(* The NVM of the NIC at driver start: intelStart() validates its checksum  *)
(* up to three times, and when the vendor's image was delivered without a  *)
(* checksum the hardware layer repairs it (ich8lan.c).  The flash has two   *)
(* banks; the valid one carries 10b in the signature bits of word 0x13.  An *)
(* update is collected in shadow_ram and committed by erasing the other    *)
(* bank, copying every word with the signature left at 11b, validating the *)
(* copy and only then invalidating the original, so that a loss of power    *)
(* between any two flash cycles leaves a valid image.                       *)
(*                                                                         *)
(* A word is the set of its bits that are 1: an erased word has all bits,  *)
(* and programming can only take bits away.  Of the 64 words the checksum   *)
(* covers four are kept: one of the MAC address, the word with the bit      *)
(* "checksum is valid", the signature word and the checksum itself.        *)
(* Chips before pch_spt have their flash write-protected by intelStart().   *)
(***************************************************************************)
EXTENDS Integers, Sequences

CONSTANTS
  Layout,       \* the words in the order of their addresses
  FlashFaults,  \* what may go wrong silently: "detect", "erase"
  MaxFaults,    \* bound: failing flash cycles and losses of power
  Retries,      \* bound: how often a cycle is tried again (in the code 10, and
                \* 100 times that for a write)
  None          \* shadow_ram: the word is not modified

Word == {"mac", "compat", "sig", "sum"}
Bank == {0, 1}

ASSUME LayoutAssumption ==
  /\ Len(Layout) = 4 /\ Layout \in [1 .. 4 -> Word]
  /\ \A w \in Word : \E k \in 1 .. 4 : Layout[k] = w
  /\ FlashFaults \subseteq {"detect", "erase"} /\ MaxFaults \in Nat /\ Retries \in Nat

(* The checksum makes the sum of all words NVM_SUM; it tells any two        *)
(* contents of the other words apart.                                       *)
SumBits == {<<"mac", "old">>, <<"mac", "new">>, <<"compat", "csum">>,
            <<"sig", 15>>, <<"sig", 14>>}
SumOf(img) == {x \in SumBits : x[2] \notin img[x[1]]}

Blank == [mac |-> {"old", "new"}, compat |-> {"csum"}, sig |-> {15, 14},
          sum |-> SumBits]

Image == [mac : SUBSET {"old", "new"}, compat : SUBSET {"csum"},
          sig : SUBSET {15, 14}, sum : SUBSET SumBits]

WithSum(img) == [img EXCEPT !.sum = SumOf(img)]

(* shadow_ram tells a value from "not modified".                            *)
ASSUME NoneAssumption == \A v \in (SUBSET {"csum"}) \cup (SUBSET SumBits) : v # None

(* What the vendor may have put into the valid bank: an image with its      *)
(* checksum, or one for which no checksum was calculated.                   *)
Delivered ==
  LET plain == [Blank EXCEPT !.mac = {"new"}, !.compat = {}, !.sig = {15}]
  IN {[plain EXCEPT !.sum = {}], WithSum([plain EXCEPT !.compat = {"csum"}])}

(* And into the other one: nothing, or an invalidated older image.          *)
Spare == {Blank, [Blank EXCEPT !.mac = {"old"}, !.sig = {}, !.sum = {}]}

VARIABLES
  flash,        \* the two banks
  spt,          \* mac.type >= e1000_pch_spt
  oem,          \* the image that was delivered
  shadow,       \* shadow_ram: modified words
  pc,           \* where intelStart() is
  attempt,      \* i of its loop
  old,          \* the bank the update copies from
  at,           \* index of the loop over the words
  tries,        \* how often the flash cycle at hand has failed
  faults        \* bound

vars == <<flash, spt, oem, shadow, pc, attempt, old, at, tries, faults>>
chipVars == <<spt, oem>>

NoShadow == [w \in Word |-> None]

Init ==
  \E b \in Bank : \E img \in Delivered, other \in Spare :
    /\ flash = [x \in Bank |-> IF x = b THEN img ELSE other]
    /\ oem = img
    /\ spt \in BOOLEAN
    /\ shadow = NoShadow /\ pc = "off" /\ attempt = 0
    /\ old = 0 /\ at = 0 /\ tries = 0 /\ faults = 0

(* e1000_valid_nvm_bank_detect_ich8lan: bank 0 is looked at first, and is   *)
(* assumed by the callers when neither bank is valid or a read failed.      *)
Valid(b) == flash[b].sig = {15}

Active == IF Valid(0) THEN 0 ELSE IF Valid(1) THEN 1 ELSE 0

Detected == {Active} \cup (IF "detect" \in FlashFaults THEN {0} ELSE {})

(* e1000_read_nvm_spt: shadow_ram comes first.                                *)
Read(w, b) == IF shadow[w] # None THEN shadow[w] ELSE flash[b][w]

View(b) == [w \in Word |-> Read(w, b)]

Protected == ~spt

(***************************************************************************)
(* Starting, and failing to.                                               *)
(***************************************************************************)

(* init_nvm_params clears shadow_ram; write_protect_nvm.                    *)
Start ==
  /\ pc = "off"
  /\ shadow' = NoShadow /\ attempt' = 0 /\ pc' = "validate"
  /\ UNCHANGED <<chipVars, flash, old, at, tries, faults>>

(* The loop in intelStart(): three attempts.                                *)
NextAttempt ==
  IF attempt = 2
    THEN pc' = "failed" /\ UNCHANGED attempt
    ELSE pc' = "validate" /\ attempt' = attempt + 1

(***************************************************************************)
(* e1000_validate_nvm_checksum_ich8lan and the update.                     *)
(***************************************************************************)

(* e1000_write_nvm_ich8lan.                                                 *)
WriteNvm(w, value) == shadow' = [shadow EXCEPT ![w] = value]

(* Mutant of Validate: a checksum said to be valid is not computed again.   *)
ValidateTrusting ==
  /\ pc = "validate" /\ tries' = 0
  /\ \E b \in Detected :
       LET data == Read("compat", b) IN
       IF "csum" \in data
         THEN pc' = "running" /\ UNCHANGED shadow
         ELSE /\ pc' = "sum"
              /\ WriteNvm("compat", data \cup {"csum"})
  /\ UNCHANGED <<chipVars, flash, attempt, old, at, faults>>

(* The word that says whether a checksum was calculated.                    *)
Validate ==
  /\ pc = "validate" /\ tries' = 0
  /\ \E b \in Detected :
       LET data == Read("compat", b) IN
       IF "csum" \in data
         THEN pc' = "check" /\ UNCHANGED shadow
         ELSE /\ pc' = "sum"
              /\ WriteNvm("compat", data \cup {"csum"})
  /\ UNCHANGED <<chipVars, flash, attempt, old, at, faults>>

(* e1000e_update_nvm_checksum_generic, and which bank the update copies.    *)
Sum ==
  /\ pc = "sum" /\ tries' = 0
  /\ \E b \in Detected : WriteNvm("sum", SumOf(View(b)))
  /\ old' \in Detected
  /\ pc' = "erase"
  /\ UNCHANGED <<chipVars, flash, attempt, at, faults>>

New == 1 - old

(* Programming takes bits away.                                             *)
Program(b, w, value) == [flash EXCEPT ![b][w] = @ \cap value]

(* Mutant of CopiedWord: the signature is copied like any other word.       *)
CopiedWordSigned == Read(Layout[at], old)

(* The signature stays 11b in the copy until all of it is written.          *)
CopiedWord ==
  LET w == Layout[at] IN
  IF w = "sig" THEN Read(w, old) \cup {15, 14} ELSE Read(w, old)

(* The flash when the cycle the driver is about to start has been done.     *)
CycleDone ==
  CASE pc = "erase" -> [flash EXCEPT ![New] = Blank]
    [] pc = "copy"  -> Program(New, Layout[at], CopiedWord)
    [] pc = "mark"  -> Program(New, "sig", flash[New].sig \ {14})
    [] pc = "kill"  -> Program(old, "sig", {})
    [] OTHER        -> flash

(* The flash after a cycle that did not report success, or in which the      *)
(* power was lost: programming may have taken away some of the bits.        *)
Target ==
  IF pc = "copy" THEN <<New, Layout[at]>> ELSE IF pc = "mark" THEN <<New, "sig">> ELSE <<old, "sig">>
Torn(b, w) ==
  {[flash EXCEPT ![b][w] = v] : v \in {x \in SUBSET flash[b][w] : CycleDone[b][w] \subseteq x}}
Unreported ==
  IF Protected THEN {flash}
  ELSE IF pc \in {"copy", "mark", "kill"} THEN Torn(Target[1], Target[2])
  ELSE {flash, CycleDone}

PowerLoss ==
  /\ pc # "off" /\ faults < MaxFaults
  /\ faults' = faults + 1
  /\ flash' \in Unreported
  /\ pc' = "off" /\ shadow' = NoShadow /\ tries' = 0
  /\ UNCHANGED <<chipVars, attempt, old, at>>

(* e1000_erase_flash_bank_ich8lan on a flash with sectors of 4 KB or more:  *)
(* one cycle.  A cycle the flash refuses is repeated and then taken for     *)
(* done.                                                                     *)
Erase ==
  /\ pc = "erase" /\ tries' = 0
  /\ \/ ~Protected /\ flash' = CycleDone
     \/ Protected /\ UNCHANGED flash
     \/ "erase" \in FlashFaults /\ UNCHANGED flash
  /\ pc' = "copy" /\ at' = 1
  /\ UNCHANGED <<chipVars, shadow, attempt, old, faults>>

Copy ==
  /\ pc = "copy" /\ ~Protected /\ tries' = 0
  /\ flash' = CycleDone
  /\ IF at = Len(Layout) THEN pc' = "mark" /\ UNCHANGED at
                         ELSE at' = at + 1 /\ UNCHANGED pc
  /\ UNCHANGED <<chipVars, shadow, attempt, old, faults>>

MarkValid ==
  /\ pc = "mark" /\ ~Protected /\ tries' = 0
  /\ flash' = CycleDone
  /\ pc' = "kill"
  /\ UNCHANGED <<chipVars, shadow, attempt, old, at, faults>>

(* Mutant of KillOld: the old bank is left valid.                           *)
KillOldSpared ==
  /\ pc = "kill" /\ ~Protected /\ tries' = 0
  /\ shadow' = NoShadow
  /\ pc' = "check"
  /\ UNCHANGED <<chipVars, flash, attempt, old, at, faults>>

(* The old bank is invalidated, shadow_ram cleared, the NVM reloaded.       *)
KillOld ==
  /\ pc = "kill" /\ ~Protected /\ tries' = 0
  /\ flash' = CycleDone
  /\ shadow' = NoShadow
  /\ pc' = "check"
  /\ UNCHANGED <<chipVars, attempt, old, at, faults>>

(* A write-protected flash answers a write with an error.                   *)
WriteRefused ==
  /\ pc \in {"copy", "mark", "kill"} /\ Protected
  /\ NextAttempt
  /\ UNCHANGED <<chipVars, flash, shadow, old, at, tries, faults>>

(* A cycle that reports an error is tried again, wherever it had got to.    *)
Repeat ==
  /\ pc \in {"validate", "sum", "erase", "copy", "mark", "kill", "check"}
  /\ faults < MaxFaults /\ tries < Retries
  /\ faults' = faults + 1 /\ tries' = tries + 1
  /\ flash' \in Unreported
  /\ UNCHANGED <<chipVars, shadow, pc, attempt, old, at>>

(* An access fails for good and the function returns the error; what         *)
(* shadow_ram holds stays.  A read or an erase that times out fails at once. *)
ReadFails ==
  /\ pc \in {"validate", "sum", "erase", "check"}
  /\ faults < MaxFaults
  /\ faults' = faults + 1 /\ tries' = 0
  /\ flash' \in Unreported
  /\ NextAttempt
  /\ UNCHANGED <<chipVars, shadow, old, at>>

(* A write is tried again after any error.                                  *)
WriteFails ==
  /\ pc \in {"copy", "mark", "kill"} /\ tries = Retries
  /\ faults < MaxFaults
  /\ faults' = faults + 1 /\ tries' = 0
  /\ flash' \in Unreported
  /\ NextAttempt
  /\ UNCHANGED <<chipVars, shadow, old, at>>

(* e1000e_validate_nvm_checksum_generic.                                    *)
Check ==
  /\ pc = "check" /\ tries' = 0
  /\ \E b \in Detected :
       IF View(b).sum = SumOf(View(b))
         THEN pc' = "running" /\ UNCHANGED attempt
         ELSE NextAttempt
  /\ UNCHANGED <<chipVars, flash, shadow, old, at, faults>>

(* The computer is restarted, with the driver or after it gave up.          *)
Restart ==
  /\ pc \in {"running", "failed"}
  /\ pc' = "off" /\ shadow' = NoShadow
  /\ UNCHANGED <<chipVars, flash, attempt, old, at, tries, faults>>

Next ==
  \/ Start \/ PowerLoss \/ Repeat \/ ReadFails \/ WriteFails \/ Validate \/ Sum \/ Erase
  \/ WriteRefused \/ Copy \/ MarkValid \/ KillOld \/ Check \/ Restart

Spec == Init /\ [][Next]_vars

(* intelStart() runs to its end; computers are switched on again.           *)
FairSpec ==
  Spec /\ WF_vars(Start \/ Validate \/ Sum \/ Erase
                  \/ WriteRefused \/ Copy \/ MarkValid \/ KillOld \/ Check
                  \/ Restart)

(***************************************************************************)
(* Properties.                                                             *)
(***************************************************************************)

TypeOK ==
  /\ flash \in [Bank -> Image] /\ oem \in Delivered /\ spt \in BOOLEAN
  /\ \A w \in Word : shadow[w] # None => shadow[w] \in {img[w] : img \in Image}
  /\ pc \in {"off", "validate", "sum", "erase", "copy", "mark", "kill",
             "check", "running", "failed"}
  /\ attempt \in 0 .. 2 /\ old \in Bank
  /\ at \in 0 .. Len(Layout) /\ (pc = "copy" => at # 0)
  /\ tries \in 0 .. Retries /\ faults \in 0 .. MaxFaults

Repaired ==
  IF "csum" \in oem.compat THEN oem
  ELSE WithSum([oem EXCEPT !.compat = {"csum"}])

(* Whenever the power is lost, the bank the next start takes for the valid  *)
(* one holds the delivered image or the repaired one as a whole: no mix of  *)
(* the two, no half-written copy, no older image (the update of             *)
(* e1000_update_nvm_checksum_spt).            *)
BootsOldOrNew == flash[Active] \in {oem, Repaired}

(* A driver that runs has read the repaired image, out of the flash or out  *)
(* of shadow_ram; a checksum that adds up was not computed over anything    *)
(* else (e1000_validate_nvm_checksum_ich8lan).                              *)
RunsRepaired == pc = "running" => View(Active) = Repaired

(* On a flash that takes writes the repair is made in the end, in spite of  *)
(* the losses of power and failures before.                                 *)
RepairMade == spt ~> (flash[Active] = Repaired)
=============================================================================
