------------------------------- MODULE NvmProofs -------------------------------
(***************************************************************************)
(* Proofs about Nvm, for every order of the words, every number of faults   *)
(* and of retries, on a flash whose faults are reported (FlashFaults = {}). *)
(*                                                                         *)
(* That a whole image is valid is not inductive: it depends on what the     *)
(* other bank will hold when it is marked valid, and that on shadow_ram,     *)
(* which outlives a failed attempt.  The invariant says of each what it may  *)
(* be while the commit goes on.                                             *)
(***************************************************************************)
EXTENDS Nvm, TLAPS

(* The delivered image with the bit "checksum is valid".                    *)
Marked == [oem EXCEPT !.compat = {"csum"}]

Values == (SUBSET {"csum"}) \cup (SUBSET SumBits)

ITypes ==
  /\ flash \in [Bank -> Image] /\ oem \in Delivered /\ spt \in BOOLEAN
  /\ shadow \in [Word -> Values \cup {None}]
  /\ old \in Bank /\ at \in Nat
  /\ pc \in {"off", "validate", "sum", "erase", "copy", "mark", "kill",
             "check", "running", "failed"}
  /\ pc = "copy" => at \in 1 .. 4

(* A bank is valid, and whatever bank is holds a whole image.               *)
IFlash ==
  /\ \E b \in Bank : Valid(b)
  /\ \A b \in Bank : Valid(b) => flash[b] \in {oem, Repaired}

(* shadow_ram holds nothing, or all or the first half of the repair.        *)
IShadow ==
  /\ shadow["mac"] = None /\ shadow["sig"] = None
  /\ \/ /\ shadow["compat"] = None /\ shadow["sum"] = None
     \/ /\ shadow["compat"] = {"csum"} /\ "csum" \notin oem.compat
        /\ shadow["sum"] \in {None, SumOf(Marked)}

(* The commit starts from the delivered image, which stays until the        *)
(* repaired one is whole.                                                   *)
ICommit ==
  /\ pc \in {"sum", "erase", "copy", "mark", "kill"} => shadow["compat"] = {"csum"}
  /\ pc = "sum" => flash[Active] = oem
  /\ pc \in {"erase", "copy", "mark", "kill"} => shadow["sum"] = SumOf(Marked)
  /\ pc \in {"erase", "copy", "mark"} => flash[old] = oem
  /\ pc = "kill" /\ spt => flash[New] = Repaired /\ (flash[old] = oem \/ flash[old]["sig"] = {})

(* Words that are not copied yet can still take the bits of the repaired     *)
(* image; the signature is the last one.                                    *)
ICopy ==
  pc \in {"copy", "mark"} /\ spt =>
    /\ flash[New]["sig"] \in IF pc = "copy" THEN {{15, 14}} ELSE {{15, 14}, {15}}
    /\ \A w \in Word \ {"sig"} : Repaired[w] \subseteq flash[New][w]
    /\ \A k \in 1 .. 4 :
         (pc = "copy" => k < at) /\ Layout[k] # "sig" => flash[New][Layout[k]] = Repaired[Layout[k]]

ICheck ==
  /\ pc \in {"check", "running"} => "csum" \in Read("compat", Active)
  /\ pc = "running" => \A w \in Word : Read(w, Active) = Repaired[w]

IInv == ITypes /\ IFlash /\ IShadow /\ ICommit /\ ICopy /\ ICheck

-------------------------------------------------------------------------------
(* The words of an image, which is known by them.                           *)
LEMMA ImageFacts ==
  ASSUME NEW x \in Image, NEW y \in Image
  PROVE  /\ x["mac"] \in SUBSET {"old", "new"} /\ x["compat"] \in SUBSET {"csum"}
         /\ x["sig"] \in SUBSET {15, 14} /\ x["sum"] \in SUBSET SumBits
         /\ (\A w \in Word : x[w] = y[w]) => x = y
  BY DEF Image, Word

(* An erased bank.                                                          *)
LEMMA BlankFacts ==
  /\ Blank \in Image
  /\ Blank["mac"] = {"old", "new"} /\ Blank["compat"] = {"csum"}
  /\ Blank["sig"] = {15, 14} /\ Blank["sum"] = SumBits
  BY DEF Blank, Image

(* What the vendor delivers is valid, with a checksum or with none.         *)
LEMMA OemFacts ==
  ASSUME oem \in Delivered
  PROVE  /\ oem \in Image
         /\ oem["mac"] = {"new"} /\ oem["sig"] = {15}
         /\ oem["compat"] \in {{}, {"csum"}}
         /\ oem["compat"] = {} => oem["sum"] = {}
  <1> DEFINE plain == [Blank EXCEPT !.mac = {"new"}, !.compat = {}, !.sig = {15}]
             filled == [plain EXCEPT !.compat = {"csum"}]
  <1>1. oem = [plain EXCEPT !.sum = {}] \/ oem = [filled EXCEPT !.sum = SumOf(filled)]
    BY DEF Delivered, WithSum
  <1>2. /\ plain \in Image
        /\ plain["mac"] = {"new"} /\ plain["compat"] = {} /\ plain["sig"] = {15}
    BY BlankFacts DEF Image
  <1> HIDE DEF plain
  <1>3. /\ filled \in Image
        /\ filled["mac"] = {"new"} /\ filled["compat"] = {"csum"} /\ filled["sig"] = {15}
    BY <1>2 DEF Image
  <1>4. SumOf(filled) \in SUBSET SumBits
    BY DEF SumOf
  <1> HIDE DEF filled
  <1>5. QED
    BY <1>1, <1>2, <1>3, <1>4 DEF Image

(* The checksum does not depend on itself.                                  *)
LEMMA SumOfEqual ==
  ASSUME NEW x, NEW y, x["mac"] = y["mac"], x["compat"] = y["compat"], x["sig"] = y["sig"]
  PROVE  SumOf(x) = SumOf(y)
  <1>1. \A z \in SumBits : z[1] \in {"mac", "compat", "sig"}
    BY DEF SumBits
  <1>2. QED
    BY <1>1 DEF SumOf

(* The repaired image is valid, with a checksum.                            *)
LEMMA RepairedFacts ==
  ASSUME oem \in Delivered
  PROVE  /\ Repaired \in Image
         /\ Repaired["mac"] = {"new"} /\ Repaired["sig"] = {15}
         /\ Repaired["compat"] = {"csum"}
         /\ "csum" \in oem["compat"] => Repaired = oem
         /\ "csum" \notin oem["compat"] => Repaired["sum"] = SumOf(Marked) /\ Repaired["sum"] # {}
  <1>1. CASE "csum" \in oem.compat
    BY <1>1, OemFacts DEF Repaired
  <1>2. CASE "csum" \notin oem.compat
    <2>1. Marked \in Image /\ Marked["mac"] = {"new"} /\ Marked["sig"] = {15} /\ Marked["compat"] = {"csum"}
      BY OemFacts DEF Marked, Image
    <2>2. SumOf(Marked) \in SUBSET SumBits
      BY DEF SumOf
    <2>3. <<"mac", "old">> \in SumOf(Marked)
      BY <2>1 DEF SumOf, SumBits
    <2>4. Repaired = [Marked EXCEPT !.sum = SumOf(Marked)]
      BY <1>2 DEF Repaired, WithSum, Marked
    <2>5. QED
      BY <1>2, <2>1, <2>2, <2>3, <2>4 DEF Image
  <1>3. QED
    BY <1>1, <1>2

-------------------------------------------------------------------------------
(* The bank that is taken for the valid one is valid.                       *)
LEMMA ActiveFacts ==
  ASSUME IFlash
  PROVE  Active \in Bank /\ Valid(Active) /\ flash[Active] \in {oem, Repaired}
  BY DEF IFlash, Active, Bank

(* There are two banks.                                                     *)
LEMMA OtherBank ==
  ASSUME ITypes
  PROVE  old \in Bank /\ New \in Bank /\ New # old /\ Bank = {old, New}
  BY DEF ITypes, New, Bank

(* A bank that keeps the delivered image is enough, if the other one is not *)
(* taken for valid before it is whole.                                      *)
LEMMA BankKept ==
  ASSUME ITypes, IFlash, oem' = oem, NEW b \in Bank, NEW c \in Bank, Bank = {b, c},
         flash'[b]["sig"] = {15}, flash'[b] \in {oem, Repaired},
         flash'[c]["sig"] = {15} => flash'[c] \in {oem, Repaired}
  PROVE  IFlash'
  <1>1. Repaired' = Repaired
    BY DEF Repaired
  <1>2. QED
    BY <1>1 DEF IFlash, Valid

(* The commit reads the repaired image, but for the signature.              *)
LEMMA NextWord ==
  ASSUME ITypes, IShadow, ICommit, pc = "copy", NEW w \in Word \ {"sig"}
  PROVE  Read(w, old) = Repaired[w]
  <1>1. flash[old] = oem /\ shadow["compat"] = {"csum"} /\ shadow["sum"] = SumOf(Marked)
    BY DEF ICommit
  <1>2. SumOf(Marked) \in SUBSET SumBits
    BY DEF SumOf
  <1>3. "csum" \notin oem["compat"]
    BY <1>1, NoneAssumption DEF IShadow
  <1>4. shadow["compat"] # None /\ shadow["sum"] # None /\ shadow["mac"] = None
    BY <1>1, <1>2, NoneAssumption DEF IShadow
  <1>5. CASE w = "mac"
    BY <1>1, <1>4, <1>5, OemFacts, RepairedFacts DEF Read, ITypes
  <1>6. CASE w = "compat"
    BY <1>1, <1>4, <1>6, RepairedFacts DEF Read, ITypes
  <1>7. CASE w = "sum"
    BY <1>1, <1>3, <1>4, <1>7, RepairedFacts DEF Read, ITypes
  <1>8. QED
    BY <1>5, <1>6, <1>7 DEF Word

(* One word of a bank is programmed.                                        *)
Written(b, w, v) == [flash EXCEPT ![b][w] = v]

LEMMA WordWritten ==
  ASSUME ITypes, NEW b \in Bank, NEW w \in Word, NEW v, v \subseteq flash[b][w]
  PROVE  /\ Written(b, w, v) \in [Bank -> Image]
         /\ \A c \in Bank \ {b} : Written(b, w, v)[c] = flash[c]
         /\ Written(b, w, v)[b][w] = v
         /\ \A u \in Word \ {w} : Written(b, w, v)[b][u] = flash[b][u]
  <1>1. flash[b] \in Image
    BY DEF ITypes
  <1>2. [flash[b] EXCEPT ![w] = v] \in Image
    BY <1>1 DEF Image, Word
  <1>3. Written(b, w, v) = [flash EXCEPT ![b] = [flash[b] EXCEPT ![w] = v]]
    BY DEF ITypes, Written
  <1>4. QED
    BY <1>1, <1>2, <1>3 DEF ITypes, Image, Word

(* What a cycle that programs a word may come to.                           *)
Outcomes(b, w) == Torn(b, w) \cup {CycleDone}
Leaves(b, w, x, f, v) ==
  /\ f = Written(b, w, v) /\ v \subseteq flash[b][w] /\ flash[b][w] \cap x \subseteq v
  /\ f = CycleDone => v = flash[b][w] \cap x

LEMMA TornWord ==
  ASSUME ITypes, NEW b \in Bank, NEW w \in Word, NEW x, NEW f,
         CycleDone = Written(b, w, flash[b][w] \cap x),
         f \in Outcomes(b, w)
  PROVE  \E v : Leaves(b, w, x, f, v)
  <1>1. CycleDone[b][w] = flash[b][w] \cap x
    <2>1. flash[b][w] \cap x \subseteq flash[b][w]
      OBVIOUS
    <2>2. QED
      BY <2>1, WordWritten
  <1>2. CASE f = CycleDone
    BY <1>2 DEF Leaves
  <1>3. CASE f \in Torn(b, w) /\ f # CycleDone
    <2>1. PICK v \in SUBSET flash[b][w] : CycleDone[b][w] \subseteq v /\ f = Written(b, w, v)
      BY <1>3 DEF Torn, Written
    <2>2. QED
      BY <1>1, <1>3, <2>1 DEF Leaves
  <1>4. QED
    BY <1>2, <1>3 DEF Outcomes

(***************************************************************************)
(* The three writes of the commit.                                         *)
(***************************************************************************)
(* A word is copied, wherever the cycle got to.                             *)
LEMMA CopyCycle ==
  ASSUME IInv, pc = "copy", spt, oem' = oem, flash' \in Unreported \cup {CycleDone}
  PROVE  /\ flash' \in [Bank -> Image] /\ IFlash' /\ flash'[old] = oem
         /\ flash'[New]["sig"] = {15, 14}
         /\ \A w \in Word \ {"sig"} : Repaired[w] \subseteq flash'[New][w]
         /\ \A k \in 1 .. 4 : 
              Layout[k] # "sig" /\ (k < at \/ (k = at /\ flash' = CycleDone))
              => flash'[New][Layout[k]] = Repaired[Layout[k]]
  <1> DEFINE w == Layout[at]
  <1> USE DEF IInv
  <1>1. w \in Word /\ at \in 1 .. 4 /\ New \in Bank
    BY OtherBank, LayoutAssumption DEF ITypes
  <1>2. CycleDone = Written(New, w, flash[New][w] \cap CopiedWord)
    BY DEF CycleDone, Program, Written
  <1>3. flash' \in Outcomes(New, w)
    BY DEF Outcomes, Unreported, Protected, Target
  <1> HIDE DEF w
  <1>4. PICK v :
           /\ flash' = Written(New, w, v)
           /\ v \subseteq flash[New][w] /\ flash[New][w] \cap CopiedWord \subseteq v
           /\ flash' = CycleDone => v = flash[New][w] \cap CopiedWord
    <2>1. ITypes
      OBVIOUS
    <2> HIDE DEF IInv
    <2>2. \E v : Leaves(New, w, CopiedWord, flash', v)
      BY <1>1, <1>2, <1>3, <2>1, TornWord
    <2>3. QED
      BY <2>2 DEF Leaves
  <1>5. /\ flash' \in [Bank -> Image]
        /\ \A c \in Bank \ {New} : flash'[c] = flash[c]
        /\ flash'[New][w] = v
        /\ \A u \in Word \ {w} : flash'[New][u] = flash[New][u]
    BY <1>1, <1>4, WordWritten DEF IInv
  <1>6. flash'[old] = oem
    BY <1>5, OtherBank DEF IInv, ICommit
  <1>7. /\ flash[New]["sig"] = {15, 14}
        /\ \A u \in Word \ {"sig"} : Repaired[u] \subseteq flash[New][u]
        /\ \A k \in 1 .. 4 : 
             k < at /\ Layout[k] # "sig" => flash[New][Layout[k]] = Repaired[Layout[k]]
    BY DEF IInv, ICopy
  <1>8. w = "sig" => {15, 14} \subseteq CopiedWord
    BY DEF CopiedWord, w
  <1>9. w # "sig" => CopiedWord = Repaired[w]
    BY <1>1, NextWord DEF CopiedWord, w
  <1>10. flash'[New]["sig"] = {15, 14}
    BY <1>4, <1>5, <1>7, <1>8 DEF Word
  <1>11. \A u \in Word \ {"sig"} : Repaired[u] \subseteq flash'[New][u]
    BY <1>1, <1>4, <1>5, <1>7, <1>9
  <1>12. ASSUME NEW k \in 1 .. 4, Layout[k] # "sig", k < at \/ (k = at /\ flash' = CycleDone)
         PROVE  flash'[New][Layout[k]] = Repaired[Layout[k]]
    <2>1. Layout[k] \in Word
      BY LayoutAssumption
    <2>2. CASE Layout[k] = w
      <3>1. flash'[New][Layout[k]] = v /\ CopiedWord = Repaired[w] /\ Repaired[w] \subseteq flash[New][w]
        BY <1>1, <1>5, <1>7, <1>9, <1>12, <2>2
      <3>2. CASE k < at
        <4>1. flash[New][w] = Repaired[w]
          BY <1>7, <1>12, <2>2, <3>2
        <4>2. QED
          BY <1>4, <2>2, <3>1, <4>1
      <3>3. CASE k = at /\ flash' = CycleDone
        BY <1>4, <2>2, <3>1, <3>3
      <3>4. QED
        BY <1>12, <3>2, <3>3
    <2>3. CASE Layout[k] # w
      BY <1>5, <1>7, <1>12, <2>1, <2>3 DEF w
    <2>4. QED
      BY <2>2, <2>3
  <1>13. IFlash'
    BY <1>1, <1>6, <1>10, OtherBank, BankKept, OemFacts DEF IInv, ITypes
  <1>14. QED
    BY <1>5, <1>6, <1>10, <1>11, <1>12, <1>13

(* The copy is marked valid, or not yet.                                    *)
LEMMA MarkCycle ==
  ASSUME IInv, pc = "mark", spt, oem' = oem, flash' \in Unreported \cup {CycleDone}
  PROVE  /\ flash' \in [Bank -> Image] /\ IFlash' /\ flash'[old] = oem
         /\ flash'[New]["sig"] \in {{15, 14}, {15}}
         /\ \A w \in Word \ {"sig"} : flash'[New][w] = Repaired[w]
         /\ flash' = CycleDone => flash'[New] = Repaired
  <1> USE DEF IInv
  <1> DEFINE x == flash[New].sig \ {14}
  <1>1. New \in Bank /\ "sig" \in Word
    BY OtherBank DEF Word
  <1>2. CycleDone = Written(New, "sig", flash[New]["sig"] \cap x)
    BY DEF CycleDone, Program, Written
  <1>3. flash' \in Outcomes(New, "sig")
    BY DEF Outcomes, Unreported, Protected, Target
  <1>4. flash[New]["sig"] \in {{15, 14}, {15}} /\ x = {15}
    BY DEF ICopy
  <1> HIDE DEF x
  <1>5. PICK v :
           /\ flash' = Written(New, "sig", v)
           /\ v \subseteq flash[New]["sig"] /\ flash[New]["sig"] \cap x \subseteq v
           /\ flash' = CycleDone => v = flash[New]["sig"] \cap x
    <2>1. ITypes
      OBVIOUS
    <2> HIDE DEF IInv
    <2>2. \E v : Leaves(New, "sig", x, flash', v)
      BY <1>1, <1>2, <1>3, <2>1, TornWord
    <2>3. QED
      BY <2>2 DEF Leaves
  <1>6. /\ flash' \in [Bank -> Image]
        /\ \A c \in Bank \ {New} : flash'[c] = flash[c]
        /\ flash'[New]["sig"] = v
        /\ \A u \in Word \ {"sig"} : flash'[New][u] = flash[New][u]
    BY <1>1, <1>5, WordWritten
  <1>7. v \in {{15, 14}, {15}} /\ (flash' = CycleDone => v = {15})
    BY <1>4, <1>5
  <1>8. flash'[old] = oem
    BY <1>6, OtherBank DEF ICommit
  <1>9. \A w \in Word \ {"sig"} : flash'[New][w] = Repaired[w]
    BY <1>6, LayoutAssumption DEF ICopy
  <1>10. v = {15} => flash'[New] = Repaired
    <2>1. flash'[New] \in Image /\ Repaired \in Image
      BY <1>1, <1>6, RepairedFacts DEF ITypes
    <2>2. v = {15} => \A w \in Word : flash'[New][w] = Repaired[w]
      BY <1>6, <1>9, RepairedFacts DEF ITypes
    <2>3. QED
      BY <2>1, <2>2, ImageFacts
  <1>11. IFlash'
    BY <1>1, <1>6, <1>8, <1>10, OtherBank, BankKept, OemFacts DEF ITypes
  <1>12. QED
    BY <1>6, <1>7, <1>8, <1>9, <1>10, <1>11

(* The original is invalidated, or not yet.                                 *)
LEMMA KillCycle ==
  ASSUME IInv, pc = "kill", spt, oem' = oem, flash' \in Unreported \cup {CycleDone}
  PROVE  /\ flash' \in [Bank -> Image] /\ IFlash' /\ flash'[New] = Repaired
         /\ flash'[old] = oem \/ flash'[old]["sig"] = {}
         /\ flash' = CycleDone => flash'[old]["sig"] = {}
  <1> USE DEF IInv
  <1>1. old \in Bank /\ New \in Bank /\ New # old /\ "sig" \in Word
    BY OtherBank DEF Word
  <1> DEFINE none == {}
  <1>2. CycleDone = Written(old, "sig", flash[old]["sig"] \cap none)
    BY DEF CycleDone, Program, Written
  <1>3. flash' \in Outcomes(old, "sig")
    BY DEF Outcomes, Unreported, Protected, Target
  <1> HIDE DEF none
  <1>4. PICK v :
           /\ flash' = Written(old, "sig", v)
           /\ v \subseteq flash[old]["sig"] /\ flash[old]["sig"] \cap none \subseteq v
           /\ flash' = CycleDone => v = flash[old]["sig"] \cap none
    <2>1. ITypes
      OBVIOUS
    <2> HIDE DEF IInv
    <2>2. \E v : Leaves(old, "sig", none, flash', v)
      BY <1>1, <1>2, <1>3, <2>1, TornWord
    <2>3. QED
      BY <2>2 DEF Leaves
  <1>5. /\ flash' \in [Bank -> Image]
        /\ \A c \in Bank \ {old} : flash'[c] = flash[c]
        /\ flash'[old]["sig"] = v
        /\ \A u \in Word \ {"sig"} : flash'[old][u] = flash[old][u]
    BY <1>1, <1>4, WordWritten
  <1>6. flash'[New] = Repaired
    BY <1>1, <1>5 DEF ICommit
  <1>7. v = {} \/ (v = {15} /\ flash'[old] = oem)
    <2>1. CASE flash[old]["sig"] = {}
      <3>1. v = {}
        BY <1>4, <2>1
      <3>2. QED
        BY <3>1
    <2>2. CASE flash[old] = oem
      <3>1. v \in {{}, {15}}
        BY <1>4, <2>2, OemFacts DEF ITypes
      <3>2. v = {15} => \A w \in Word : flash'[old][w] = oem[w]
        <4>1. oem["sig"] = {15} /\ \A w \in Word \ {"sig"} : flash'[old][w] = oem[w]
          BY <1>5, <2>2, OemFacts DEF ITypes
        <4>2. QED
          BY <1>5, <4>1
      <3>3. flash'[old] \in Image /\ oem \in Image
        BY <1>1, <1>5, OemFacts DEF ITypes
      <3>4. QED
        BY <3>1, <3>2, <3>3, ImageFacts
    <2>3. QED
      BY <2>1, <2>2 DEF ICommit
  <1>8. IFlash'
    BY <1>1, <1>5, <1>6, <1>7, OtherBank, BankKept, RepairedFacts DEF ITypes
  <1>9. QED
    BY <1>4, <1>5, <1>6, <1>7, <1>8 DEF none

-------------------------------------------------------------------------------
(* A cycle that reported an error, or none, leaves a whole image.           *)
LEMMA Survives ==
  ASSUME IInv, oem' = oem, flash' \in Unreported \cup {flash}
  PROVE  flash' \in [Bank -> Image] /\ IFlash'
  <1> USE DEF IInv
  <1>1. CASE flash' = flash
    <2>1. Repaired' = Repaired
      BY DEF Repaired
    <2>2. QED
      BY <1>1, <2>1 DEF ITypes, IFlash, Valid
  <1>2. CASE pc = "erase" /\ flash' = [flash EXCEPT ![New] = Blank]
    <2>1. old \in Bank /\ New \in Bank /\ New # old /\ Bank = {old, New}
      BY OtherBank
    <2>2. flash' \in [Bank -> Image] /\ flash'[New] = Blank /\ flash'[old] = oem
      BY <1>2, <2>1, BlankFacts DEF ITypes, ICommit
    <2>3. IFlash'
      BY <2>1, <2>2, BankKept, BlankFacts, OemFacts DEF ITypes
    <2>4. QED
      BY <2>2, <2>3
  <1>3. CASE flash' # flash /\ pc \in {"copy", "mark", "kill"} /\ spt
    BY <1>3, CopyCycle, MarkCycle, KillCycle
  <1>4. ASSUME flash' # flash, pc # "erase" PROVE pc \in {"copy", "mark", "kill"} /\ spt
    <2>1. spt
      BY <1>4 DEF Unreported, Protected
    <2>2. ASSUME pc \notin {"copy", "mark", "kill"} PROVE FALSE
      <3>1. CycleDone = flash
        BY <1>4, <2>2 DEF CycleDone
      <3>2. QED
        BY <1>4, <2>2, <3>1 DEF Unreported
    <2>3. QED
      BY <2>1, <2>2
  <1>5. ASSUME flash' # flash, pc = "erase" PROVE flash' = [flash EXCEPT ![New] = Blank]
    BY <1>5 DEF Unreported, CycleDone
  <1>6. QED
    BY <1>1, <1>2, <1>3, <1>4, <1>5

(* A cycle that reported an error is tried again.                           *)
LEMMA RepeatKeeps == ASSUME IInv, Repeat PROVE IInv'
  <1> USE DEF IInv, chipVars
  <1>0. /\ oem' = oem /\ spt' = spt /\ shadow' = shadow /\ pc' = pc /\ old' = old /\ at' = at
        /\ flash' \in Unreported /\ pc # "running"
    BY DEF Repeat
  <1>1. Repaired' = Repaired /\ Marked' = Marked /\ New' = New
    BY <1>0 DEF Repaired, Marked, New
  <1>2. flash' \in [Bank -> Image] /\ IFlash'
    BY <1>0, Survives
  <1>3. ITypes' /\ IShadow'
    BY <1>0, <1>1, <1>2 DEF ITypes, IShadow
  <1>4. CASE flash' = flash
    BY <1>0, <1>1, <1>2, <1>3, <1>4 DEF ICommit, ICopy, ICheck, Active, Valid, Read
  <1>5. CASE pc = "erase"
    <2>1. flash'[old] = oem
      <3>1. flash' = flash \/ flash' = [flash EXCEPT ![New] = Blank]
        BY <1>0, <1>5 DEF Unreported, CycleDone
      <3>2. QED
        BY <1>5, <3>1, OtherBank DEF ICommit, ITypes
    <2>2. QED
      BY <1>0, <1>1, <1>2, <1>3, <1>5, <2>1 DEF ICommit, ICopy, ICheck
  <1>6. CASE pc = "copy" /\ spt
    <2>1. ICopy'
      BY <1>0, <1>1, <1>6, CopyCycle DEF ICopy
    <2>2. ICommit'
      BY <1>0, <1>1, <1>6, CopyCycle DEF ICommit
    <2>3. QED
      BY <1>0, <1>2, <1>3, <1>6, <2>1, <2>2 DEF ICheck
  <1>7. CASE pc = "mark" /\ spt
    <2>1. ICopy'
      BY <1>0, <1>1, <1>7, MarkCycle, LayoutAssumption DEF ICopy
    <2>2. ICommit'
      BY <1>0, <1>1, <1>7, MarkCycle DEF ICommit
    <2>3. QED
      BY <1>0, <1>2, <1>3, <1>7, <2>1, <2>2 DEF ICheck
  <1>8. CASE pc = "kill" /\ spt
    <2>1. ICommit'
      BY <1>0, <1>1, <1>8, KillCycle DEF ICommit
    <2>2. QED
      BY <1>0, <1>2, <1>3, <1>8, <2>1 DEF ICopy, ICheck
  <1>9. QED
    BY <1>0, <1>4, <1>5, <1>6, <1>7, <1>8 DEF Unreported, CycleDone, Protected, ITypes

(* Nothing of an attempt but shadow_ram matters to the next one.            *)
LEMMA AttemptEnds ==
  ASSUME IInv, oem' = oem, spt' = spt, flash' \in Unreported \cup {flash}, UNCHANGED <<shadow, old, at>>, NextAttempt
  PROVE  IInv'
  <1> USE DEF IInv
  <1>1. flash' \in [Bank -> Image] /\ IFlash'
    BY Survives
  <1>2. Marked' = Marked
    BY DEF Marked
  <1>3. pc' \in {"failed", "validate"}
    BY DEF NextAttempt
  <1>4. QED
    BY <1>1, <1>2, <1>3 DEF ITypes, IShadow, ICommit, ICopy, ICheck

(* An attempt fails for good.                                               *)
LEMMA FailuresKeep == ASSUME IInv, ReadFails \/ WriteFails \/ WriteRefused PROVE IInv'
  BY AttemptEnds DEF ReadFails, WriteFails, WriteRefused, chipVars

(* An empty shadow_ram.                                                     *)
LEMMA NoShadowFacts ==
  /\ NoShadow \in [Word -> Values \cup {None}]
  /\ \A w \in Word : NoShadow[w] = None
  BY DEF NoShadow

(* The driver starts over with an empty shadow_ram.                         *)
LEMMA StartsOver ==
  ASSUME IInv, oem' = oem, spt' = spt, flash' \in Unreported \cup {flash}, UNCHANGED <<old, at>>,
         shadow' = NoShadow, pc' \in {"off", "validate"}
  PROVE  IInv'
  <1> USE DEF IInv
  <1>1. flash' \in [Bank -> Image] /\ IFlash'
    BY Survives
  <1>2. QED
    BY <1>1, NoShadowFacts DEF ITypes, IShadow, ICommit, ICopy, ICheck, Word

(* Start, restart and loss of power.                                        *)
LEMMA StartsKeep == ASSUME IInv, Start \/ PowerLoss \/ Restart PROVE IInv'
  BY StartsOver DEF Start, PowerLoss, Restart, chipVars

-------------------------------------------------------------------------------
(* The bit that says whether a checksum was computed.                       *)
LEMMA ValidateKeeps == ASSUME IInv, FlashFaults = {}, Validate PROVE IInv'
  <1> USE DEF IInv, chipVars
  <1>1. /\ UNCHANGED <<flash, oem, spt, old, at>> /\ pc = "validate"
        /\ Active \in Bank /\ flash[Active] \in {oem, Repaired}
    BY ActiveFacts DEF Validate
  <1>2. Active' = Active /\ Marked' = Marked /\ Repaired' = Repaired /\ IFlash'
    BY <1>1 DEF Active, Valid, Marked, Repaired, IFlash
  <1> DEFINE data == Read("compat", Active)
  <1>3. \/ "csum" \in data /\ pc' = "check" /\ shadow' = shadow
        \/ "csum" \notin data /\ pc' = "sum" /\ shadow' = [shadow EXCEPT !["compat"] = data \cup {"csum"}]
    BY DEF Validate, Detected, WriteNvm
  <1>4. CASE "csum" \in data /\ pc' = "check" /\ shadow' = shadow
    BY <1>1, <1>2, <1>4 DEF ITypes, IShadow, ICommit, ICopy, ICheck, Read
  <1>5. CASE "csum" \notin data /\ pc' = "sum" /\ shadow' = [shadow EXCEPT !["compat"] = data \cup {"csum"}]
    <2>1. shadow["compat"] = None /\ shadow["sum"] = None
      BY <1>5, NoneAssumption DEF IShadow, Read
    <2>2. data = flash[Active]["compat"]
      BY <2>1 DEF Read
    <2>3. flash[Active] = oem /\ data = {}
      BY <1>1, <1>5, <2>2, RepairedFacts, OemFacts DEF ITypes
    <2>4. "csum" \notin oem.compat
      BY <1>5, <2>2, <2>3
    <2>5. shadow' \in [Word -> Values \cup {None}]
      BY <1>5, <2>3 DEF ITypes, Values, Word
    <2>6. /\ shadow'["compat"] = {"csum"}
          /\ shadow'["mac"] = None /\ shadow'["sig"] = None /\ shadow'["sum"] = None
      BY <1>5, <2>1, <2>3 DEF ITypes, IShadow, Word
    <2>7. ITypes' /\ IShadow'
      BY <1>1, <1>2, <1>5, <2>4, <2>5, <2>6 DEF ITypes, IShadow
    <2>8. ICommit'
      BY <1>1, <1>2, <1>5, <2>3, <2>6 DEF ICommit
    <2>9. QED
      BY <1>2, <1>5, <2>7, <2>8 DEF ICopy, ICheck
  <1>6. QED
    BY <1>3, <1>4, <1>5

(* The checksum is computed over the marked image.                          *)
LEMMA SumKeeps == ASSUME IInv, FlashFaults = {}, Sum PROVE IInv'
  <1> USE DEF IInv, chipVars
  <1>1. /\ UNCHANGED <<flash, oem, spt, at>> /\ pc = "sum" /\ pc' = "erase" /\ old' = Active
        /\ shadow' = [shadow EXCEPT !["sum"] = SumOf(View(Active))]
        /\ Active \in Bank
    BY ActiveFacts DEF Sum, Detected, WriteNvm
  <1>2. Active' = Active /\ Marked' = Marked /\ Repaired' = Repaired /\ IFlash'
    BY <1>1 DEF Active, Valid, Marked, Repaired, IFlash
  <1>3. shadow["compat"] = {"csum"} /\ flash[Active] = oem /\ "csum" \notin oem.compat
    BY <1>1, NoneAssumption DEF ICommit, IShadow
  <1>4. SumOf(View(Active)) = SumOf(Marked)
    <2>1. /\ View(Active)["mac"] = oem["mac"] /\ View(Active)["sig"] = oem["sig"]
          /\ View(Active)["compat"] = {"csum"}
      BY <1>3, NoneAssumption DEF View, Read, IShadow, Word
    <2>2. Marked["mac"] = oem["mac"] /\ Marked["sig"] = oem["sig"] /\ Marked["compat"] = {"csum"}
      BY OemFacts DEF Marked, ITypes, Image
    <2>3. QED
      BY <2>1, <2>2, SumOfEqual
  <1>5. SumOf(Marked) \in SUBSET SumBits
    BY DEF SumOf
  <1>6. /\ shadow' \in [Word -> Values \cup {None}] /\ shadow'["sum"] = SumOf(Marked)
        /\ shadow'["compat"] = {"csum"} /\ shadow'["mac"] = None /\ shadow'["sig"] = None
    BY <1>1, <1>3, <1>4, <1>5 DEF ITypes, IShadow, Values, Word
  <1>7. ITypes' /\ IShadow'
    BY <1>1, <1>2, <1>3, <1>6 DEF ITypes, IShadow
  <1>8. ICommit'
    BY <1>1, <1>2, <1>3, <1>6 DEF ICommit
  <1>9. QED
    BY <1>1, <1>2, <1>7, <1>8 DEF ICopy, ICheck

-------------------------------------------------------------------------------
(* The bank that is erased is not the one that is copied.                   *)
LEMMA EraseKeeps == ASSUME IInv, FlashFaults = {}, Erase PROVE IInv'
  <1> USE DEF IInv, chipVars
  <1>1. /\ UNCHANGED <<oem, spt, shadow, old>> /\ pc = "erase" /\ pc' = "copy" /\ at' = 1
        /\ flash' = IF spt THEN [flash EXCEPT ![New] = Blank] ELSE flash
    BY DEF Erase, Protected, CycleDone
  <1>2. Marked' = Marked /\ Repaired' = Repaired /\ New' = New
    BY <1>1 DEF Marked, Repaired, New
  <1>3. old \in Bank /\ New \in Bank /\ New # old /\ Bank = {old, New}
    BY OtherBank
  <1>4. /\ flash' \in [Bank -> Image] /\ flash'[old] = oem
        /\ spt => flash'[New] = Blank
    BY <1>1, <1>3, BlankFacts DEF ITypes, ICommit
  <1>5. IFlash'
    <2>1. CASE spt
      BY <1>1, <1>3, <1>4, <2>1, BankKept, BlankFacts, OemFacts DEF ITypes
    <2>2. CASE ~spt
      BY <1>1, <1>2, <2>2 DEF IFlash, Valid
    <2>3. QED
      BY <2>1, <2>2
  <1>6. ITypes' /\ IShadow'
    BY <1>1, <1>2, <1>4 DEF ITypes, IShadow
  <1>7. ICommit'
    BY <1>1, <1>2, <1>4 DEF ICommit
  <1>8. ICopy'
    <2>1. \A w \in Word \ {"sig"} : Repaired[w] \subseteq Blank[w]
      BY BlankFacts, RepairedFacts, ImageFacts DEF ITypes, Word
    <2>2. QED
      BY <1>1, <1>2, <1>4, <2>1, BlankFacts DEF ICopy
  <1>9. QED
    BY <1>1, <1>5, <1>6, <1>7, <1>8 DEF ICheck

(* After the last word the copy is complete but for its signature.          *)
LEMMA CopyKeeps == ASSUME IInv, Copy PROVE IInv'
  <1> USE DEF IInv, chipVars
  <1>1. /\ UNCHANGED <<oem, spt, shadow, old>> /\ pc = "copy" /\ spt /\ flash' = CycleDone
        /\ at \in 1 .. 4
        /\ \/ at = 4 /\ pc' = "mark" /\ at' = at
           \/ at # 4 /\ pc' = "copy" /\ at' = at + 1
    BY LayoutAssumption DEF Copy, Protected, ITypes
  <1>2. Marked' = Marked /\ Repaired' = Repaired /\ New' = New
    BY <1>1 DEF Marked, Repaired, New
  <1>3. /\ flash' \in [Bank -> Image] /\ IFlash' /\ flash'[old] = oem
        /\ flash'[New]["sig"] = {15, 14}
        /\ \A w \in Word \ {"sig"} : Repaired[w] \subseteq flash'[New][w]
        /\ \A k \in 1 .. 4 :
             Layout[k] # "sig" /\ (k < at \/ k = at) => flash'[New][Layout[k]] = Repaired[Layout[k]]
    BY <1>1, CopyCycle
  <1>4. ITypes' /\ IShadow'
    BY <1>1, <1>2, <1>3 DEF ITypes, IShadow
  <1>5. ICommit'
    BY <1>1, <1>2, <1>3 DEF ICommit
  <1>6. ICopy'
    BY <1>1, <1>2, <1>3 DEF ICopy
  <1>7. QED
    BY <1>1, <1>3, <1>4, <1>5, <1>6 DEF ICheck

(* Two valid banks, of which either may be taken.                           *)
LEMMA MarkKeeps == ASSUME IInv, MarkValid PROVE IInv'
  <1> USE DEF IInv, chipVars
  <1>1. /\ UNCHANGED <<oem, spt, shadow, old, at>> /\ pc = "mark" /\ pc' = "kill" /\ spt
        /\ flash' = CycleDone
    BY DEF MarkValid, Protected
  <1>2. Marked' = Marked /\ Repaired' = Repaired /\ New' = New
    BY <1>1 DEF Marked, Repaired, New
  <1>3. /\ flash' \in [Bank -> Image] /\ IFlash' /\ flash'[old] = oem /\ flash'[New] = Repaired
    BY <1>1, MarkCycle
  <1>4. ITypes' /\ IShadow'
    BY <1>1, <1>2, <1>3 DEF ITypes, IShadow
  <1>5. ICommit'
    BY <1>1, <1>2, <1>3 DEF ICommit
  <1>6. QED
    BY <1>1, <1>3, <1>4, <1>5 DEF ICheck, ICopy

(* The copy is the only valid bank.                                         *)
LEMMA KillKeeps == ASSUME IInv, KillOld PROVE IInv'
  <1> USE DEF IInv, chipVars
  <1>1. /\ UNCHANGED <<oem, spt, old, at>> /\ pc = "kill" /\ pc' = "check" /\ spt
        /\ flash' = CycleDone /\ shadow' = NoShadow
    BY DEF KillOld, Protected
  <1>2. /\ flash' \in [Bank -> Image] /\ IFlash' /\ flash'[New] = Repaired /\ flash'[old]["sig"] = {}
    BY <1>1, KillCycle
  <1>3. ITypes' /\ IShadow'
    BY <1>1, <1>2, NoShadowFacts DEF ITypes, IShadow, Word
  <1>4. Active' = New
    <2>1. old \in Bank /\ New = 1 - old /\ New \in Bank
      BY OtherBank DEF New
    <2>2. flash'[New]["sig"] = {15}
      BY <1>2, RepairedFacts DEF ITypes
    <2>3. QED
      BY <1>2, <2>1, <2>2 DEF Active, Valid, Bank
  <1>5. Read("compat", Active)' = {"csum"}
    <2>1. shadow'["compat"] = None
      BY <1>1, NoShadowFacts DEF Word
    <2>2. QED
      BY <1>2, <1>4, <2>1, RepairedFacts DEF Read, ITypes
  <1>6. QED
    BY <1>1, <1>2, <1>3, <1>5 DEF ICommit, ICopy, ICheck

-------------------------------------------------------------------------------
(* A checksum adds up only in the repaired image.                           *)
LEMMA CheckKeeps == ASSUME IInv, FlashFaults = {}, Check PROVE IInv'
  <1> USE DEF IInv, chipVars
  <1>1. /\ UNCHANGED <<flash, oem, spt, shadow, old, at>> /\ pc = "check"
        /\ \/ View(Active)["sum"] = SumOf(View(Active)) /\ pc' = "running"
           \/ NextAttempt
    BY DEF Check, Detected
  <1>2. CASE NextAttempt
    BY <1>1, <1>2, AttemptEnds
  <1>3. CASE View(Active)["sum"] = SumOf(View(Active)) /\ pc' = "running"
    <2>1. Active \in Bank /\ flash[Active] \in {oem, Repaired} /\ "csum" \in Read("compat", Active)
      BY <1>1, ActiveFacts DEF ICheck
    <2>2. Active' = Active /\ Marked' = Marked /\ Repaired' = Repaired
      BY <1>1 DEF Active, Valid, Marked, Repaired
    <2>3. /\ flash[Active]["mac"] = Repaired["mac"] /\ flash[Active]["sig"] = Repaired["sig"]
          /\ shadow["mac"] = None /\ shadow["sig"] = None
      BY <2>1, OemFacts, RepairedFacts DEF ITypes, IShadow
    <2>4. Read("mac", Active) = Repaired["mac"] /\ Read("sig", Active) = Repaired["sig"]
      BY <2>3 DEF Read
    <2>5. Read("compat", Active) = Repaired["compat"]
      BY <2>1, OemFacts, RepairedFacts DEF Read, IShadow, ITypes
    <2>6. Read("sum", Active) = Repaired["sum"]
      <3>1. CASE shadow["compat"] = None /\ shadow["sum"] = None
        BY <2>1, <3>1, RepairedFacts DEF Read, ITypes
      <3>2. CASE "csum" \notin oem.compat /\ shadow["sum"] = SumOf(Marked)
        <4>1. SumOf(Marked) # None
          BY NoneAssumption DEF SumOf
        <4>2. QED
          BY <3>2, <4>1, RepairedFacts DEF Read, ITypes
      <3>3. CASE "csum" \notin oem.compat /\ shadow["sum"] = None
        <4>1. View(Active)["sum"] = flash[Active]["sum"]
          BY <3>3 DEF View, Read, Word
        <4>2. SumOf(View(Active)) = SumOf(Repaired)
          BY <2>4, <2>5, SumOfEqual DEF View, Word
        <4>3. SumOf(Repaired) # {}
          <5>1. <<"mac", "old">> \in SumBits /\ "old" \notin Repaired["mac"]
            BY RepairedFacts DEF ITypes, SumBits
          <5>2. <<"mac", "old">> \in SumOf(Repaired)
            BY <5>1 DEF SumOf
          <5>3. QED
            BY <5>2
        <4>4. flash[Active] = Repaired
          BY <1>3, <2>1, <3>3, <4>1, <4>2, <4>3, OemFacts DEF ITypes
        <4>5. QED
          BY <3>3, <4>4 DEF Read
      <3>4. QED
        BY <3>1, <3>2, <3>3 DEF IShadow
    <2>7. \A w \in Word : Read(w, Active)' = Repaired'[w]
      BY <1>1, <2>2, <2>4, <2>5, <2>6 DEF Read, Word
    <2>8. Read("compat", Active)' = Read("compat", Active)
      BY <1>1, <2>2 DEF Read
    <2>9. ITypes' /\ IFlash' /\ IShadow'
      BY <1>1, <1>3, <2>2 DEF ITypes, IFlash, IShadow, Valid
    <2>10. QED
      BY <1>3, <2>1, <2>7, <2>8, <2>9 DEF ICommit, ICopy, ICheck
  <1>4. QED
    BY <1>1, <1>2, <1>3

(* The flash as it is delivered.                                            *)
LEMMA Starts == Init => IInv
  <1> SUFFICES ASSUME Init PROVE IInv
    OBVIOUS
  <1>1. PICK b \in Bank, other \in Spare : flash = [x \in Bank |-> IF x = b THEN oem ELSE other]
    BY DEF Init
  <1>2. oem \in Delivered /\ spt \in BOOLEAN /\ shadow = NoShadow /\ pc = "off" /\ old = 0 /\ at = 0
    BY DEF Init
  <1>3. other \in Image /\ other["sig"] # {15}
    <2> DEFINE older == [Blank EXCEPT !.mac = {"old"}, !.sig = {}, !.sum = {}]
    <2>1. older \in Image
      BY BlankFacts DEF Image
    <2>2. older["sig"] = {}
      BY BlankFacts DEF Image
    <2> HIDE DEF older
    <2>3. other \in {Blank, older}
      BY DEF Spare, older
    <2>4. QED
      BY <2>1, <2>2, <2>3, BlankFacts
  <1>4. ITypes
    BY <1>1, <1>2, <1>3, OemFacts, NoShadowFacts DEF ITypes, Bank
  <1>5. IFlash
    BY <1>1, <1>2, <1>3, OemFacts DEF IFlash, Valid
  <1>6. QED
    BY <1>2, <1>4, <1>5, NoShadowFacts DEF IInv, IShadow, ICommit, ICopy, ICheck, Word

(* The invariant is inductive.                                              *)
LEMMA StepsKeep == ASSUME IInv, FlashFaults = {}, [Next]_vars PROVE IInv'
  <1>1. CASE Next
    BY <1>1, StartsKeep, RepeatKeeps, FailuresKeep, ValidateKeeps, SumKeeps, EraseKeeps, CopyKeeps,
       MarkKeeps, KillKeeps, CheckKeeps DEF Next
  <1>2. CASE UNCHANGED vars
    <2>1. UNCHANGED <<flash, oem, spt, shadow, old, at, pc, tries>>
      BY <1>2 DEF vars, chipVars
    <2>2. /\ Valid(0)' = Valid(0) /\ Valid(1)' = Valid(1) /\ \A b \in Bank : Valid(b)' = Valid(b)
          /\ New' = New /\ Repaired' = Repaired /\ Marked' = Marked
      BY <2>1 DEF Valid, New, Repaired, Marked
    <2>3. Active' = Active
      BY <2>2 DEF Active
    <2>4. \A w, b : Read(w, b)' = Read(w, b)
      BY <2>1 DEF Read
    <2>5. ITypes'
      BY <2>1 DEF IInv, ITypes
    <2>6. IFlash' /\ IShadow'
      BY <2>1, <2>2 DEF IInv, IFlash, IShadow
    <2>7. ICommit'
      BY <2>1, <2>2, <2>3 DEF IInv, ICommit
    <2>8. ICopy'
      BY <2>1, <2>2 DEF IInv, ICopy
    <2>9. ICheck'
      BY <2>1, <2>2, <2>3, <2>4 DEF IInv, ICheck
    <2>10. QED
      BY <2>5, <2>6, <2>7, <2>8, <2>9 DEF IInv
  <1>3. QED
    BY <1>1, <1>2

(* Whatever flash cycles fail, are done only in part or are cut off by a     *)
(* loss of power, and however often: the bank the next start takes for the  *)
(* valid one holds the delivered or the repaired image.                     *)
THEOREM AlwaysBoots == ASSUME FlashFaults = {} PROVE Spec => []BootsOldOrNew
  <1>1. IInv => BootsOldOrNew
    BY ActiveFacts DEF IInv, BootsOldOrNew
  <1>2. QED
    BY <1>1, Starts, StepsKeep, PTL DEF Spec

(* A driver that runs has the repaired image before it.                     *)
THEOREM AlwaysRunsRepaired == ASSUME FlashFaults = {} PROVE Spec => []RunsRepaired
  <1>1. IInv => RunsRepaired
    <2> SUFFICES ASSUME IInv, pc = "running" PROVE View(Active) = Repaired
      BY DEF RunsRepaired
    <2>1. \A w \in Word : Read(w, Active) = Repaired[w]
      BY DEF IInv, ICheck
    <2>2. Repaired \in [Word -> {Repaired[w] : w \in Word}]
      BY RepairedFacts DEF IInv, ITypes, Image, Word
    <2>3. QED
      BY <2>1, <2>2 DEF View
  <1>2. QED
    BY <1>1, Starts, StepsKeep, PTL DEF Spec
===============================================================================
