-------------------------- MODULE AssemblerProofs --------------------------
(***************************************************************************)
(* For every source and every size of the assembler's tables: the second   *)
(* pass meets each label at the address the first pass gave it, the file   *)
(* means what the source says, and exactly the legal sources get one.      *)
(*                                                                         *)
(* Both passes count addresses as Place does, which looks at the source    *)
(* alone; the first pass enters each label with its Place, and refuses and *)
(* accepts by line what FirstOK and, in the second pass, SecondOK say of   *)
(* the source; together they are Legal.                                    *)
(***************************************************************************)
EXTENDS Assembler, FiniteSetTheorems, SequenceTheorems, TLAPS

\* The first n lines' labels are in the table with their place, or the table was full.
Entered(n) ==
  \A j \in 1 .. n : Declares(source[j]) =>
     \/ source[j].label \in DOMAIN labels /\ labels[source[j].label] = Place(j)
     \/ source[j].label \notin DOMAIN labels /\ TableFull

Types == /\ source \in Source /\ line \in Nat \ {0} /\ word_addr \in Nat /\ error_count \in Nat
         /\ Blank \notin DOMAIN labels

Counted == (phase \in {"pass1", "pass2"} /\ error_count = 0) => word_addr = Place(line)

Collected == /\ (phase = "pass1" /\ error_count = 0) => Entered(line - 1)
             /\ phase = "pass2" => Entered(Len(source))

IInv == Types /\ Counted /\ Collected

-----------------------------------------------------------------------------
(* Places *)

LEMMA PlaceFirst == Place(1) = 0
  BY FS_EmptySet DEF Place

\* A line with an instruction moves what follows by one word, another line by none.
LEMMA PlaceNext ==
    ASSUME NEW i \in Nat \ {0}
    PROVE  /\ Place(i) \in Nat
           /\ Place(i + 1) = IF IsInsn(source[i]) THEN Place(i) + 1 ELSE Place(i)
  <1> DEFINE Before(n) == {j \in 1 .. n - 1 : IsInsn(source[j])}
  <1>1. IsFiniteSet(1 .. i - 1)
    BY FS_Interval
  <1>2. IsFiniteSet(Before(i))
    BY <1>1, FS_Subset
  <1>3. Cardinality(Before(i)) \in Nat
    BY <1>2, FS_CardinalityType
  <1>4. i \notin Before(i)
    OBVIOUS
  <1>5. CASE IsInsn(source[i])
    <2>1. Before(i + 1) = Before(i) \cup {i}
      BY <1>5
    <2>2. Cardinality(Before(i) \cup {i}) = Cardinality(Before(i)) + 1
      BY <1>2, <1>4, FS_AddElement
    <2> QED
      BY <1>3, <1>5, <2>1, <2>2 DEF Place
  <1>6. CASE ~IsInsn(source[i])
    <2>1. Before(i + 1) = Before(i)
      BY <1>6
    <2> QED
      BY <1>3, <1>6, <2>1 DEF Place
  <1> QED
    BY <1>5, <1>6

\* What the model says of a source stays while the source does.
LEMMA PlaceKept ==
    ASSUME UNCHANGED source
    PROVE  \A i : Place(i)' = Place(i)
  BY DEF Place

LEMMA EnteredKept ==
    ASSUME UNCHANGED <<source, labels>>, NEW n, Entered(n)
    PROVE  Entered(n)'
  BY PlaceKept DEF Entered, TableFull

-----------------------------------------------------------------------------
(* The steps *)

LEMMA InitInv == Init => IInv
  <1> SUFFICES ASSUME Init PROVE IInv
    OBVIOUS
  <1>1. Entered(line - 1)
    BY DEF Init, Entered
  <1> QED
    BY <1>1, PlaceFirst DEF Init, IInv, Types, Counted, Collected

\* The second pass changes no label.
LEMMA SecondPass ==
    ASSUME NEW l, phase # "pass1"
    PROVE  label_add(l) = labels
  BY DEF label_add

\* The first pass enters the line's label with its place.
LEMMA FirstPass ==
    ASSUME IInv, phase = "pass1", error_count = 0, UNCHANGED source,
           NEW l, Reads(l), ~Refused(l), labels' = label_add(l), line' = line + 1
    PROVE  Entered(line - 1)'
  <1>1. /\ l = source[line] /\ line \in Nat \ {0} /\ word_addr = Place(line) /\ Entered(line - 1)
        /\ l.label \notin DOMAIN labels
    BY DEF Reads, Refused, IInv, Types, Counted, Collected
  <1>2. (\A i : Place(i)' = Place(i)) /\ line' - 1 = line
    BY <1>1, PlaceKept
  <1>3. CASE Declares(l) /\ ~TableFull
    <2>1. /\ labels' = [t \in DOMAIN labels \cup {l.label} |->
                          IF t = l.label THEN word_addr ELSE labels[t]]
      BY <1>3 DEF label_add
    <2>2. DOMAIN labels' = DOMAIN labels \cup {l.label} /\ labels'[l.label] = word_addr
          /\ \A t \in DOMAIN labels : labels'[t] = labels[t]
      BY <2>1, <1>1
    <2>3. ASSUME NEW j \in 1 .. line, Declares(source[j])
          PROVE  source[j].label \in DOMAIN labels' /\ labels'[source[j].label] = Place(j)
      <3>1. CASE j = line
        BY <3>1, <2>2, <1>1
      <3>2. CASE j \in 1 .. line - 1
        BY <3>2, <2>2, <2>3, <1>1, <1>3 DEF Entered
      <3> QED
        BY <3>1, <3>2, <1>1
    <2> QED
      BY <2>3, <1>2 DEF Entered, Declares
  <1>4. CASE ~(Declares(l) /\ ~TableFull)
    <2>1. labels' = labels
      BY <1>4 DEF label_add
    <2>2. ASSUME NEW j \in 1 .. line, Declares(source[j])
          PROVE  \/ source[j].label \in DOMAIN labels /\ labels[source[j].label] = Place(j)
                 \/ source[j].label \notin DOMAIN labels /\ TableFull
      <3>1. CASE j = line
        BY <3>1, <2>2, <1>1, <1>4
      <3>2. CASE j \in 1 .. line - 1
        BY <3>2, <2>2, <1>1 DEF Entered
      <3> QED
        BY <3>1, <3>2, <1>1
    <2> QED
      BY <2>1, <2>2, <1>2 DEF Entered, Declares, TableFull
  <1> QED
    BY <1>3, <1>4

\* A line that was read: the addresses go on as Place does, the labels are entered.
LEMMA AssembledInv ==
    ASSUME IInv, NEW l, Skip(l) \/ Measure(l) \/ Encode(l)
    PROVE  IInv'
  <1>1. /\ Reads(l) /\ ~Refused(l) /\ labels' = label_add(l) /\ line' = line + 1
        /\ UNCHANGED <<source, phase, error_count>>
        /\ word_addr' = IF IsInsn(l) THEN word_addr + 1 ELSE word_addr
    BY BlankAssumption DEF Skip, Measure, Encode, Assembled, Encodable, IsInsn
  <1>2. l = source[line] /\ phase \in {"pass1", "pass2"}
    BY <1>1 DEF Reads
  <1>3. line \in Nat \ {0} /\ word_addr \in Nat
    BY DEF IInv, Types
  <1>4. Types'
    BY <1>1, <1>3 DEF IInv, Types, label_add, Declares
  <1>5. Counted'
    BY <1>1, <1>2, <1>3, PlaceNext, PlaceKept DEF IInv, Counted
  <1>6. CASE phase = "pass1"
    <2>1. error_count' = 0 => Entered(line - 1)'
      BY <1>1, <1>6, FirstPass
    <2> QED
      BY <1>1, <1>4, <1>5, <1>6, <2>1 DEF IInv, Collected
  <1>7. CASE phase = "pass2"
    <2>1. labels' = labels
      BY <1>1, <1>7, SecondPass
    <2>2. Entered(Len(source))'
      BY <1>1, <1>7, <2>1, EnteredKept DEF IInv, Collected
    <2> QED
      BY <1>1, <1>4, <1>5, <1>7, <2>2 DEF IInv, Collected, Entered
  <1> QED
    BY <1>2, <1>6, <1>7

\* A line with an error: the first pass promises no more, the second keeps the table.
LEMMA ErrorInv ==
    ASSUME IInv, NEW l, BadLabel(l) \/ BadInsn(l) \/ TooBig(l)
    PROVE  IInv'
  <1>1. /\ error_count' = error_count + 1 /\ line' = line + 1
        /\ phase' \in {phase, "failed"} /\ UNCHANGED <<source, word_addr>>
        /\ labels' = labels \/ labels' = label_add(l)
    BY DEF BadLabel, BadInsn, TooBig, Error
  <1>2. error_count' # 0
    BY <1>1 DEF IInv, Types
  <1>3. Types'
    BY <1>1 DEF IInv, Types, label_add, Declares
  <1>4. phase' = "pass2" => Entered(Len(source))'
    <2> SUFFICES ASSUME phase' = "pass2" PROVE Entered(Len(source))'
      OBVIOUS
    <2>1. phase = "pass2" /\ labels' = labels
      BY <1>1, SecondPass
    <2> QED
      BY <1>1, <2>1, EnteredKept DEF IInv, Collected
  <1> QED
    BY <1>1, <1>2, <1>3, <1>4 DEF IInv, Counted, Collected, Entered

LEMMA NextInv == IInv /\ [Next]_vars => IInv'
  <1> SUFFICES ASSUME IInv, [Next]_vars PROVE IInv'
    OBVIOUS
  <1>1. CASE process_line
    BY <1>1, AssembledInv, ErrorInv DEF process_line
  <1>2. CASE EndPass1
    <2>1. UNCHANGED <<source, labels, error_count>> /\ phase' = "pass2" /\ line' = 1 /\ word_addr' = 0
      BY <1>2 DEF EndPass1
    <2>2. Entered(line - 1) /\ line - 1 >= Len(source)
      <3>1. Len(source) \in Nat /\ line \in Nat
        BY AsmAssumption DEF IInv, Types
      <3> QED
        BY <1>2, <3>1 DEF EndPass1, PassDone, IInv, Collected
    <2>3. Entered(Len(source))
      <3>1. Len(source) \in Nat /\ line \in Nat
        BY AsmAssumption DEF IInv, Types
      <3> QED
        BY <2>2, <3>1 DEF Entered
    <2>4. Entered(Len(source))'
      BY <2>1, <2>3, EnteredKept DEF Entered
    <2>5. Place(1)' = 0
      BY <2>1, PlaceKept, PlaceFirst
    <2> QED
      BY <2>1, <2>4, <2>5 DEF IInv, Types, Counted, Collected
  <1>3. CASE Fail \/ write_bin \/ write_elf \/ CannotOpen
    <2>1. /\ UNCHANGED <<source, line, word_addr, labels, error_count>>
          /\ phase' \in {"failed", "written", "unwritable"}
      BY <1>3 DEF Fail, write_bin, write_elf, CannotOpen, Finish
    <2> QED
      BY <2>1 DEF IInv, Types, Counted, Collected
  <1>4. CASE UNCHANGED vars
    <2>1. UNCHANGED <<source, phase, line, word_addr, labels, error_count>>
      BY <1>4 DEF vars
    <2>2. \A n : Entered(n) => Entered(n)'
      BY <2>1, EnteredKept
    <2> QED
      BY <2>1, <2>2, PlaceKept DEF IInv, Types, Counted, Collected, Entered
  <1> QED
    BY <1>1, <1>2, <1>3, <1>4 DEF Next

-----------------------------------------------------------------------------
\* The passes agree on every label, for every source (run_pass(), process_line()).
THEOREM PassesSafe == Spec => []PassesAgree
  <1>1. IInv => PassesAgree
    <2> SUFFICES ASSUME IInv, phase = "pass2", error_count = 0, line <= Len(source),
                        source[line].label \in DOMAIN labels
                 PROVE  labels[source[line].label] = word_addr
      BY DEF PassesAgree
    <2>1. Entered(Len(source)) /\ word_addr = Place(line)
      BY DEF IInv, Collected, Counted
    <2>2. line \in 1 .. Len(source) /\ Declares(source[line])
      BY AsmAssumption DEF IInv, Types, Declares
    <2> QED
      BY <2>1, <2>2 DEF Entered
  <1> QED
    BY <1>1, InitInv, NextInv, PTL DEF Spec

-----------------------------------------------------------------------------
(* The table, line by line *)

\* How many labels are declared before line i.
Earlier(i) == Cardinality({j \in Declaring : j < i})

\* Line i declares what the first pass may enter.
LabelOK(i) == Declares(source[i]) =>
                /\ source[i].label # Overlong
                /\ \A j \in Kept : j < i => source[j].label # source[i].label

\* The table tab after n lines without an error.
TableOf(tab, n) ==
  /\ IsFiniteSet(DOMAIN tab)
  /\ Cardinality(DOMAIN tab) = IF Earlier(n + 1) < MaxLabels THEN Earlier(n + 1) ELSE MaxLabels
  /\ \A t \in DOMAIN tab : \E j \in Kept : j =< n /\ source[j].label = t
  /\ \A j \in Kept : j =< n => /\ source[j].label \in DOMAIN tab
                               /\ tab[source[j].label] = Place(j)
  /\ \A i \in 1 .. n : LabelOK(i)

LEMMA SourceFact ==
  ASSUME source \in Source
  PROVE  /\ Len(source) \in Nat /\ DOMAIN source = 1 .. Len(source)
         /\ Half \in Nat /\ Half > 0 /\ MaxLabels \in Nat /\ MaxInsns \in Nat
BY AsmAssumption

LEMMA KeptFact ==
  ASSUME source \in Source
  PROVE  \A i : i \in Kept <=> i \in 1 .. Len(source) /\ Declares(source[i])
                               /\ Earlier(i) < MaxLabels
BY SourceFact DEF Kept, Declaring, Earlier

LEMMA EarlierNext ==
  ASSUME source \in Source
  PROVE  /\ Earlier(1) = 0
         /\ \A i \in 1 .. Len(source) :
              /\ Earlier(i) \in Nat
              /\ Earlier(i + 1) = IF Declares(source[i]) THEN Earlier(i) + 1 ELSE Earlier(i)
<1> DEFINE B(n) == {j \in Declaring : j < n}
<1>1. Len(source) \in Nat /\ DOMAIN source = 1 .. Len(source)
  BY SourceFact
<1>2. Declaring \subseteq 1 .. Len(source) /\ IsFiniteSet(1 .. Len(source))
  BY <1>1, FS_Interval DEF Declaring
<1>3. \A n : IsFiniteSet(B(n)) /\ Cardinality(B(n)) \in Nat
  BY <1>2, FS_Subset, FS_CardinalityType
<1>4. Earlier(1) = 0
  <2>1. \A j \in Declaring : ~(j < 1)
    BY <1>1, <1>2
  <2>2. B(1) = {}
    BY <2>1
  <2> QED BY <2>2, FS_EmptySet DEF Earlier
<1>5. ASSUME NEW i \in 1 .. Len(source)
      PROVE  /\ Earlier(i) \in Nat
             /\ Earlier(i + 1) = IF Declares(source[i]) THEN Earlier(i) + 1 ELSE Earlier(i)
  <2>1. CASE Declares(source[i])
    <3>1. B(i + 1) = B(i) \cup {i} /\ i \notin B(i)
      BY <1>1, <1>2, <2>1 DEF Declaring
    <3>2. Cardinality(B(i) \cup {i}) = Cardinality(B(i)) + 1
      BY <1>3, <3>1, FS_AddElement
    <3> QED BY <1>3, <2>1, <3>1, <3>2 DEF Earlier
  <2>2. CASE ~Declares(source[i])
    <3>1. B(i + 1) = B(i)
      BY <1>1, <1>2, <2>2 DEF Declaring
    <3> QED BY <1>3, <2>2, <3>1 DEF Earlier
  <2> QED BY <2>1, <2>2
<1> QED BY <1>4, <1>5

\* The first line's instruction has the first word, the last one's the last.
LEMMA PlaceGrows ==
  ASSUME NEW i \in Nat \ {0}, NEW k \in Nat, i =< k
  PROVE  Place(i) \in Nat /\ Place(k) \in Nat /\ Place(i) =< Place(k)
<1> DEFINE B(n) == {j \in 1 .. n - 1 : IsInsn(source[j])}
<1>1. \A n \in Nat \ {0} : IsFiniteSet(B(n)) /\ Cardinality(B(n)) \in Nat
  <2> TAKE n \in Nat \ {0}
  <2>1. IsFiniteSet(1 .. n - 1)
    BY FS_Interval
  <2> QED BY <2>1, FS_Subset, FS_CardinalityType
<1>2. B(i) \subseteq B(k)
  OBVIOUS
<1>3. Cardinality(B(i)) =< Cardinality(B(k))
  BY <1>1, <1>2, FS_Subset
<1> QED BY <1>1, <1>3 DEF Place

LEMMA PlaceType ==
  ASSUME source \in Source
  PROVE  \A i \in 1 .. Len(source) + 1 : i \in Nat \ {0} /\ Place(i) \in Nat
<1> TAKE i \in 1 .. Len(source) + 1
<1>1. i \in Nat \ {0}
  BY SourceFact
<1> QED BY <1>1, PlaceNext

\* No two of the labels in the table are the same, so each has one address.
LEMMA Unique ==
  ASSUME source \in Source, \A i \in 1 .. Len(source) : LabelOK(i)
  PROVE  \A j \in Kept : At(source[j].label) = Place(j)
<1> TAKE j \in Kept
<1> DEFINE k == CHOOSE i \in Kept : source[i].label = source[j].label
<1>1. k \in Kept /\ source[k].label = source[j].label
  OBVIOUS
<1> HIDE DEF k
<1>2. /\ j \in 1 .. Len(source) /\ k \in 1 .. Len(source) /\ Len(source) \in Nat
      /\ Declares(source[j]) /\ Declares(source[k])
  BY <1>1, KeptFact, SourceFact
<1>3. k = j
  <2>1. ~(j < k)
    BY <1>1, <1>2 DEF LabelOK
  <2>2. ~(k < j)
    BY <1>1, <1>2 DEF LabelOK
  <2> QED BY <1>2, <2>1, <2>2
<1> QED BY <1>3 DEF At, k

\* What process_line() finds wrong with a label in the first pass.
LEMMA RefusedFirst ==
  ASSUME source \in Source, Blank \notin DOMAIN labels, phase = "pass1",
         line \in 1 .. Len(source), TableOf(labels, line - 1)
  PROVE  Refused(source[line]) <=> ~LabelOK(line)
<1>1. line \in Nat /\ Len(source) \in Nat /\ Blank # Overlong
  BY SourceFact, BlankAssumption
<1>2. source[line].label \in DOMAIN labels
        <=> \E j \in Kept : j < line /\ source[j].label = source[line].label
  <2>1. \A j \in Kept : j < line <=> j =< line - 1
    BY <1>1, KeptFact
  <2> QED BY <2>1 DEF TableOf
<1> QED BY <1>1, <1>2 DEF Refused, LabelOK, Declares

LEMMA TableFirst ==
  ASSUME source \in Source
  PROVE  TableOf(<< >>, 0)
<1>1. DOMAIN << >> = {}
  <2>1. Len(<< >>) = 0 /\ DOMAIN << >> = 1 .. Len(<< >>)
    BY EmptySeq, LenProperties
  <2> QED BY <2>1
<1>2. IsFiniteSet({}) /\ Cardinality({}) = 0
  BY FS_EmptySet
<1>3. Earlier(1) = 0 /\ MaxLabels \in Nat
  BY EarlierNext, SourceFact
<1>4. \A j \in Kept : ~(j =< 0)
  BY KeptFact
<1> QED BY <1>1, <1>2, <1>3, <1>4 DEF TableOf

\* A line the first pass has nothing against enters its label, if there is room.
LEMMA TableNext ==
  ASSUME source \in Source, Blank \notin DOMAIN labels, phase = "pass1",
         line \in 1 .. Len(source), TableOf(labels, line - 1), word_addr = Place(line),
         NEW l, l = source[line], ~Refused(l)
  PROVE  TableOf(label_add(l), line)
<1> DEFINE D == DOMAIN labels
           n == Earlier(line)
<1>1. line \in Nat /\ Len(source) \in Nat /\ MaxLabels \in Nat /\ (line - 1) + 1 = line
  BY SourceFact
<1>2. /\ n \in Nat /\ Earlier(line + 1) = IF Declares(l) THEN n + 1 ELSE n
  BY EarlierNext
<1>3. /\ IsFiniteSet(D) /\ Cardinality(D) = IF n < MaxLabels THEN n ELSE MaxLabels
      /\ \A t \in D : \E j \in Kept : j =< line - 1 /\ source[j].label = t
      /\ \A j \in Kept : j =< line - 1 => /\ source[j].label \in D
                                          /\ labels[source[j].label] = Place(j)
      /\ \A i \in 1 .. line - 1 : LabelOK(i)
  BY <1>1 DEF TableOf
<1>4. TableFull <=> n >= MaxLabels
  BY <1>1, <1>2, <1>3 DEF TableFull
<1>5. line \in Kept <=> Declares(l) /\ ~TableFull
  BY <1>1, <1>2, <1>4, KeptFact
<1>6. \A j \in Kept : j \in Nat /\ (j =< line <=> j =< line - 1 \/ j = line)
  BY <1>1, KeptFact
<1>7. \A i \in 1 .. line : LabelOK(i)
  BY <1>1, <1>3, RefusedFirst
<1> HIDE DEF n
<1>8. CASE Declares(l) /\ ~TableFull
  <2> DEFINE tab == label_add(l)
  <2>1. tab = [t \in D \cup {l.label} |-> IF t = l.label THEN word_addr ELSE labels[t]]
    BY <1>8 DEF label_add
  <2>2. DOMAIN tab = D \cup {l.label} /\ tab[l.label] = Place(line)
        /\ \A t \in D : t # l.label => tab[t] = labels[t]
    BY <2>1
  <2>3. l.label \notin D
    BY DEF Refused
  <2>4. IsFiniteSet(DOMAIN tab) /\ Cardinality(DOMAIN tab) = Cardinality(D) + 1
    BY <1>3, <2>2, <2>3, FS_AddElement
  <2> HIDE DEF tab
  <2>5. Cardinality(DOMAIN tab)
          = IF Earlier(line + 1) < MaxLabels THEN Earlier(line + 1) ELSE MaxLabels
    <3> HIDE DEF D
    <3> QED BY <1>1, <1>2, <1>3, <1>4, <1>8, <2>4
  <2>6. \A t \in DOMAIN tab : \E j \in Kept : j =< line /\ source[j].label = t
    BY <1>3, <1>5, <1>6, <1>8, <2>2
  <2>7. ASSUME NEW j \in Kept, j =< line
        PROVE  source[j].label \in DOMAIN tab /\ tab[source[j].label] = Place(j)
    <3>1. CASE j = line
      BY <2>2, <3>1
    <3>2. CASE j =< line - 1
      BY <1>3, <2>2, <2>3, <3>2
    <3> QED BY <1>6, <2>7, <3>1, <3>2
  <2> QED BY <1>7, <2>4, <2>5, <2>6, <2>7 DEF TableOf, tab
<1>9. CASE ~(Declares(l) /\ ~TableFull)
  <2>1. label_add(l) = labels
    BY <1>9 DEF label_add
  <2>2. line \notin Kept
    BY <1>5, <1>9
  <2>3. Cardinality(D) = IF Earlier(line + 1) < MaxLabels THEN Earlier(line + 1) ELSE MaxLabels
    <3> HIDE DEF D
    <3> QED BY <1>1, <1>2, <1>3, <1>4, <1>9
  <2>4. /\ \A t \in D : \E j \in Kept : j =< line /\ source[j].label = t
        /\ \A j \in Kept : j =< line => /\ source[j].label \in D
                                        /\ labels[source[j].label] = Place(j)
    BY <1>3, <1>6, <2>2
  <2> QED BY <1>3, <1>7, <2>1, <2>3, <2>4 DEF TableOf
<1> QED BY <1>8, <1>9

-----------------------------------------------------------------------------
(* The instruction of a line *)

\* The value of the operand of line i when its label is at p.
Value(i, p) == IF source[i].mn \in BranchOp THEN p - (Place(i) + 1) ELSE p

\* What the first pass asks of line i: a label no line up to i declares is at 0.
FirstOK(i) ==
  LET l == source[i]
      t == ImmToken(l)
      Met(j) == j =< i /\ source[j].label = t
  IN  /\ l.mn \in Mnemonic /\ RegsParse(l)
      /\ l.mn \in ImmOp =>
           /\ ImmGiven(l)
           /\ t \in Int => Fits(l.mn, t)
           /\ t \notin Int => \A j \in Kept : Met(j) => Fits(l.mn, Value(i, Place(j)))
           /\ (l.mn \in BranchOp /\ t \notin Int /\ \A j \in Kept : ~Met(j)) => Place(i) + 1 =< Half

SecondOK(i) ==
  LET l == source[i]
      t == ImmToken(l)
  IN  /\ l.mn \in Mnemonic /\ RegsParse(l)
      /\ l.mn \in ImmOp =>
           /\ ImmGiven(l)
           /\ t \in Int \/ \E j \in Kept : source[j].label = t
           /\ Fits(l.mn, Operand(i))

LEMMA InRangeFits ==
  ASSUME Half \in Nat, Half > 0, NEW mn, NEW v \in Int
  PROVE  /\ InRange(mn, v) <=> Fits(mn, v)
         /\ Fits(mn, 0)
BY DEF InRange, Fits, check_imm11

LEMMA BranchFact ==
  ASSUME NEW mn \in BranchOp
  PROVE  mn \in ImmOp /\ mn # "LI"
BY DEF BranchOp, Jumps, CondJumps, ImmOp

\* What the operand of line i stands for, under a table of some lines.
LEMMA ImmediateFact ==
  ASSUME NEW i, NEW tab, word_addr = Place(i), Place(i) \in Nat,
         \A t \in DOMAIN tab : tab[t] \in Nat
  PROVE  LET l == source[i]
             t == ImmToken(l)
         IN  /\ t \in Int => Immediate(l, tab) = t
             /\ t \notin Int /\ t \in DOMAIN tab => Immediate(l, tab) = Value(i, tab[t])
             /\ t \notin Int /\ t \notin DOMAIN tab => Immediate(l, tab) = Value(i, 0)
             /\ Immediate(l, tab) \in Int
BY DEF Immediate, Value

LEMMA TableTypes ==
  ASSUME source \in Source, NEW tab, NEW n, TableOf(tab, n)
  PROVE  \A t \in DOMAIN tab : tab[t] \in Nat
<1>1. \A j \in Kept : Place(j) \in Nat
  <2> TAKE j \in Kept
  <2>1. j \in Nat \ {0}
    BY KeptFact, SourceFact
  <2> QED BY <2>1, PlaceNext
<1> QED BY <1>1 DEF TableOf

LEMMA EncodableFirst ==
  ASSUME source \in Source, phase = "pass1", line \in 1 .. Len(source), word_addr = Place(line),
         NEW tab, TableOf(tab, line), NEW l, l = source[line]
  PROVE  Encodable(l, tab) <=> FirstOK(line)
<1> DEFINE t == ImmToken(l)
           v == Immediate(l, tab)
           Met(j) == j =< line /\ source[j].label = t
<1>1. Place(line) \in Nat /\ Half \in Nat /\ Half > 0
  BY PlaceType, SourceFact
<1>2. \A x \in DOMAIN tab : tab[x] \in Nat
  BY TableTypes
<1>3. /\ t \in Int => v = t
      /\ t \notin Int /\ t \in DOMAIN tab => v = Value(line, tab[t])
      /\ t \notin Int /\ t \notin DOMAIN tab => v = Value(line, 0)
      /\ v \in Int
  BY <1>1, <1>2, ImmediateFact
<1>4. t \in DOMAIN tab <=> \E j \in Kept : Met(j)
  BY DEF TableOf
<1>5. \A j \in Kept : Met(j) => t \in DOMAIN tab /\ tab[t] = Place(j)
  BY DEF TableOf
<1>6. InRange(l.mn, v) <=> Fits(l.mn, v)
  BY <1>1, <1>3, InRangeFits
<1> HIDE DEF t, v
<1>7. t \in Int => (Fits(l.mn, v) <=> Fits(l.mn, t))
  BY <1>3
<1>8. t \notin Int /\ t \in DOMAIN tab =>
        (Fits(l.mn, v) <=> \A j \in Kept : Met(j) => Fits(l.mn, Value(line, Place(j))))
  BY <1>3, <1>4, <1>5
<1>9. t \notin Int /\ t \notin DOMAIN tab =>
        (Fits(l.mn, v) <=> (l.mn \in BranchOp => Place(line) + 1 =< Half))
  <2> SUFFICES ASSUME t \notin Int, t \notin DOMAIN tab
               PROVE  Fits(l.mn, v) <=> (l.mn \in BranchOp => Place(line) + 1 =< Half)
    OBVIOUS
  <2>1. CASE l.mn \in BranchOp
    <3>1. v = 0 - (Place(line) + 1)
      BY <1>3, <2>1 DEF Value
    <3>2. l.mn # "LI"
      BY <2>1, BranchFact
    <3> QED BY <1>1, <2>1, <3>1, <3>2 DEF Fits
  <2>2. CASE l.mn \notin BranchOp
    <3>1. v = 0
      BY <1>3, <2>2 DEF Value
    <3> QED BY <1>1, <2>2, <3>1, InRangeFits
  <2> QED BY <2>1, <2>2
<1>10. Encodable(l, tab) <=> /\ l.mn \in Mnemonic /\ RegsParse(l)
                             /\ l.mn \in ImmOp => ImmGiven(l) /\ Fits(l.mn, v)
  BY <1>6 DEF Encodable, t, v
<1>11. FirstOK(line) <=>
         /\ l.mn \in Mnemonic /\ RegsParse(l)
         /\ l.mn \in ImmOp =>
              /\ ImmGiven(l)
              /\ t \in Int => Fits(l.mn, t)
              /\ t \notin Int => \A j \in Kept : Met(j) => Fits(l.mn, Value(line, Place(j)))
              /\ (l.mn \in BranchOp /\ t \notin Int /\ \A j \in Kept : ~Met(j)) => Place(line) + 1 =< Half
  BY DEF FirstOK, t
<1> HIDE DEF Met
<1> QED BY <1>4, <1>7, <1>8, <1>9, <1>10, <1>11

\* In the second pass the table is what the source declares.
LEMMA SecondOperand ==
  ASSUME source \in Source, NEW i \in 1 .. Len(source), word_addr = Place(i),
         TableOf(labels, Len(source)), NEW l, l = source[i]
  PROVE  /\ Known(ImmToken(l), labels)
              <=> (ImmToken(l) \in Int \/ \E j \in Kept : source[j].label = ImmToken(l))
         /\ Known(ImmToken(l), labels) => Immediate(l, labels) = Operand(i)
         /\ Immediate(l, labels) \in Int
<1> DEFINE t == ImmToken(l)
<1>1. Place(i) \in Nat
  BY PlaceType, SourceFact
<1>2. \A x \in DOMAIN labels : labels[x] \in Nat
  BY TableTypes
<1>3. /\ t \in Int => Immediate(l, labels) = t
      /\ t \notin Int /\ t \in DOMAIN labels => Immediate(l, labels) = Value(i, labels[t])
      /\ Immediate(l, labels) \in Int
  BY <1>1, <1>2, ImmediateFact
<1>4. \A j \in Kept : j =< Len(source)
  BY KeptFact, SourceFact
<1>5. t \in DOMAIN labels <=> \E j \in Kept : source[j].label = t
  BY <1>4 DEF TableOf
<1>6. \A j \in Kept : source[j].label = t => labels[t] = Place(j) /\ At(t) = Place(j)
  <2>1. \A k \in 1 .. Len(source) : LabelOK(k)
    BY DEF TableOf
  <2> QED BY <1>4, <2>1, Unique DEF TableOf
<1>7. t \notin Int /\ t \in DOMAIN labels => Operand(i) = Value(i, labels[t])
  BY <1>5, <1>6 DEF Operand, Value
<1>8. t \in Int => Operand(i) = t
  BY DEF Operand
<1> QED BY <1>3, <1>5, <1>7, <1>8 DEF Known

LEMMA EncodableSecond ==
  ASSUME source \in Source, phase = "pass2", line \in 1 .. Len(source), word_addr = Place(line),
         TableOf(labels, Len(source)), NEW l, l = source[line]
  PROVE  Encodable(l, labels) <=> SecondOK(line)
<1>1. /\ Known(ImmToken(l), labels)
              <=> (ImmToken(l) \in Int \/ \E j \in Kept : source[j].label = ImmToken(l))
      /\ Known(ImmToken(l), labels) => Immediate(l, labels) = Operand(line)
      /\ Immediate(l, labels) \in Int
  BY SecondOperand
<1>2. InRange(l.mn, Immediate(l, labels)) <=> Fits(l.mn, Immediate(l, labels))
  BY <1>1, SourceFact, InRangeFits
<1>3. Encodable(l, labels) <=>
        /\ l.mn \in Mnemonic /\ RegsParse(l)
        /\ l.mn \in ImmOp => /\ ImmGiven(l) /\ Known(ImmToken(l), labels)
                             /\ Fits(l.mn, Immediate(l, labels))
  BY <1>2 DEF Encodable
<1>4. SecondOK(line) <=>
        /\ l.mn \in Mnemonic /\ RegsParse(l)
        /\ l.mn \in ImmOp => /\ ImmGiven(l)
                             /\ ImmToken(l) \in Int \/ \E j \in Kept : source[j].label = ImmToken(l)
                             /\ Fits(l.mn, Operand(line))
  BY DEF SecondOK
<1> QED BY <1>1, <1>3, <1>4

-----------------------------------------------------------------------------
(* What the passes ask is what makes a source legal *)

LEMMA LegalJoin ==
  ASSUME source \in Source,
         \A i \in 1 .. Len(source) : LabelOK(i),
         \A i \in 1 .. Len(source) : IsInsn(source[i]) => FirstOK(i) /\ SecondOK(i),
         Place(Len(source) + 1) =< MaxInsns
  PROVE  Legal
<1>1. DOMAIN source = 1 .. Len(source) /\ Declaring \subseteq 1 .. Len(source)
      /\ \A i \in Declaring : Declares(source[i])
  BY SourceFact DEF Declaring
<1>2. \A j \in Kept : j =< Len(source)
  BY KeptFact, SourceFact
<1>3. ASSUME NEW i \in 1 .. Len(source), IsInsn(source[i])
      PROVE  LegalInsn(i)
  <2> DEFINE l == source[i]
             t == ImmToken(l)
  <2>1. FirstOK(i) /\ SecondOK(i)
    BY <1>3
  <2>2. l.mn \in Mnemonic /\ RegsParse(l)
    BY <2>1 DEF SecondOK
  <2>3. l.mn \in ImmOp => /\ ImmGiven(l) /\ Fits(l.mn, Operand(i))
                          /\ t \in Int \/ \E j \in Kept : source[j].label = t
    BY <2>1 DEF SecondOK
  <2>4. l.mn \in ImmOp =>
          ((l.mn \in BranchOp /\ t \notin Int /\ \A j \in Kept : ~(j =< i /\ source[j].label = t))
             => Place(i) + 1 =< Half)
    BY <2>1 DEF FirstOK
  <2> HIDE DEF t
  <2> QED BY <1>2, <2>2, <2>3, <2>4 DEF LegalInsn, t
<1>4. /\ \A i \in Declaring : source[i].label # Overlong
      /\ \A i \in Declaring, j \in Kept : j < i => source[j].label # source[i].label
  BY <1>1 DEF LabelOK
<1> QED BY <1>1, <1>3, <1>4 DEF Legal

LEMMA LegalSplit ==
  ASSUME source \in Source, Legal
  PROVE  /\ \A i \in 1 .. Len(source) : LabelOK(i)
         /\ \A i \in 1 .. Len(source) : IsInsn(source[i]) => FirstOK(i) /\ SecondOK(i)
         /\ Place(Len(source) + 1) =< MaxInsns
<1>1. DOMAIN source = 1 .. Len(source)
  BY SourceFact
<1>2. \A i \in 1 .. Len(source) : LabelOK(i)
  BY <1>1 DEF Legal, Declaring, LabelOK
<1>3. ASSUME NEW i \in 1 .. Len(source), IsInsn(source[i])
      PROVE  FirstOK(i) /\ SecondOK(i)
  <2> DEFINE l == source[i]
             t == ImmToken(l)
  <2>1. LegalInsn(i)
    BY <1>1, <1>3 DEF Legal
  <2>2. l.mn \in Mnemonic /\ RegsParse(l)
    BY <2>1 DEF LegalInsn
  <2>3. l.mn \in ImmOp =>
          /\ ImmGiven(l) /\ Fits(l.mn, Operand(i))
          /\ t \in Int \/ \E j \in Kept : j =< Len(source) /\ source[j].label = t
          /\ (l.mn \in BranchOp /\ t \notin Int /\ ~\E j \in Kept : j =< i /\ source[j].label = t)
               => Place(i) + 1 =< Half
    BY <2>1 DEF LegalInsn
  <2>4. t \in Int => Operand(i) = t
    BY DEF Operand
  <2>5. t \notin Int => \A j \in Kept : source[j].label = t => Operand(i) = Value(i, Place(j))
    BY <1>2, Unique DEF Operand, Value
  <2> HIDE DEF t
  <2>6. SecondOK(i)
    BY <2>2, <2>3 DEF SecondOK, t
  <2>7. FirstOK(i)
    BY <2>2, <2>3, <2>4, <2>5 DEF FirstOK, t
  <2> QED BY <2>6, <2>7
<1> QED BY <1>2, <1>3 DEF Legal

-----------------------------------------------------------------------------
(* The words *)

WordOf(i) == LET l == source[i]
             IN  [op  |-> l.mn,
                  reg |-> [k \in 1 .. 3 |-> IF k <= RegCount(l.mn) THEN RegNo[l.args[k]] ELSE 0],
                  imm |-> IF l.mn \in ImmOp THEN Operand(i) % (2 * Half) ELSE 0]

Code == {WordOf(i) : i \in 1 .. Len(source)}

\* The first n lines' instructions are in buf.
Encoded(buf, n) == \A i \in 1 .. n : IsInsn(source[i]) => buf[Place(i) + 1] = WordOf(i)

\* Two's complement of a number in range.
LEMMA Complement ==
  ASSUME NEW m \in Nat, m > 0, NEW v \in Int
  PROVE  /\ v \in 0 .. m - 1 => v % m = v
         /\ v < 0 /\ -m =< v => v % m = v + m
<1>1. v \in 0 .. m - 1 => v % m = v
  BY Z3
<1>2. v < 0 /\ -m =< v => v % m = v + m
  BY Z3
<1> QED BY <1>1, <1>2

LEMMA RegCountFact == \A mn : RegCount(mn) \in 0 .. 3
BY DEF RegCount

\* execute() gets from the word what the line says.
LEMMA WordMeans ==
  ASSUME source \in Source, NEW i \in 1 .. Len(source), SecondOK(i), NEW w, w = WordOf(i)
  PROVE  LET l == source[i] IN
         /\ w.op = l.mn
         /\ \A k \in 1 .. RegCount(l.mn) : w.reg[k] = RegNo[l.args[k]]
         /\ l.mn \in ImmOp =>
              \/ SignExtend(w.imm) = Operand(i)
              \/ l.mn = "LI" /\ Operand(i) >= Half /\ w.imm = Operand(i)
<1> DEFINE l == source[i]
           v == Operand(i)
<1>1. Half \in Nat /\ Half > 0
  BY SourceFact
<1>2. ASSUME NEW k \in 1 .. RegCount(l.mn)
      PROVE  w.reg[k] = RegNo[l.args[k]]
  <2>1. RegCount(l.mn) \in 0 .. 3
    BY RegCountFact
  <2>2. k \in 1 .. 3 /\ k <= RegCount(l.mn)
    BY <2>1
  <2> QED BY <2>2 DEF WordOf
<1>3. ASSUME l.mn \in ImmOp
      PROVE  \/ SignExtend(w.imm) = v
             \/ l.mn = "LI" /\ v >= Half /\ w.imm = v
  <2>1. v \in Int
    <3>1. \A j \in Kept : j \in 1 .. Len(source) /\ Place(j) \in Nat
      BY KeptFact, PlaceType, SourceFact
    <3>2. ImmToken(l) \in Int => v = ImmToken(l)
      BY DEF Operand
    <3>3. ASSUME ImmToken(l) \notin Int PROVE v \in Int
      <4> DEFINE j == CHOOSE k \in Kept : source[k].label = ImmToken(l)
      <4>1. j \in Kept
        BY <1>3, <3>3 DEF SecondOK
      <4> HIDE DEF j
      <4>2. At(ImmToken(l)) \in Nat
        BY <3>1, <4>1 DEF At, j
      <4>3. Place(i) \in Nat
        BY PlaceType, SourceFact
      <4> QED BY <3>3, <4>2, <4>3 DEF Operand
    <3> QED BY <3>2, <3>3
  <2>2. Fits(l.mn, v)
    BY <1>3 DEF SecondOK
  <2>3. w.imm = v % (2 * Half)
    BY <1>3 DEF WordOf
  <2> HIDE DEF v, l
  <2>4. /\ 2 * Half \in Nat /\ 2 * Half > 0
    BY <1>1
  <2>5. -Half =< v /\ (v < Half \/ (l.mn = "LI" /\ v < 2 * Half))
    BY <2>2, <1>1, <2>1 DEF Fits
  <2>6. CASE v < 0
    <3>1. v % (2 * Half) = v + 2 * Half
      BY <1>1, <2>1, <2>4, <2>5, <2>6, Complement
    <3> QED BY <1>1, <2>1, <2>3, <2>5, <2>6, <3>1 DEF SignExtend
  <2>7. CASE v >= 0
    <3>1. v % (2 * Half) = v
      BY <1>1, <2>1, <2>4, <2>5, <2>7, Complement
    <3> QED BY <1>1, <2>1, <2>3, <2>5, <2>7, <3>1 DEF SignExtend
  <2> QED BY <2>1, <2>6, <2>7
<1>4. w.op = l.mn
  BY DEF WordOf
<1> QED BY <1>2, <1>3, <1>4

-----------------------------------------------------------------------------
(* The invariant of the whole run *)

\* After n lines of the first pass, and of the second.
First(tab, n) == /\ TableOf(tab, n)
                 /\ \A i \in 1 .. n : IsInsn(source[i]) => FirstOK(i)

Second(tab, n, buf) ==
  /\ First(tab, Len(source))
  /\ \A i \in 1 .. n : IsInsn(source[i]) => SecondOK(i)
  /\ buf \in Seq(Code) /\ Len(buf) = Place(n + 1) /\ Place(n + 1) =< MaxInsns
  /\ Encoded(buf, n)

Ends == {"failed", "written", "unwritable"}

RunInv ==
  /\ line \in 1 .. Len(source) + 1 /\ phase \in {"pass1", "pass2"} \cup Ends
  /\ phase = "pass1" /\ error_count = 0 => First(labels, line - 1)
  /\ phase = "pass2" /\ error_count = 0 => Second(labels, line - 1, insn_buf)
  /\ phase \in {"written", "unwritable"} => Legal
  /\ WrittenMeansSource
  /\ Legal => error_count = 0 /\ phase # "failed"

FullInv == IInv /\ RunInv

\* What is said of the source alone stays.
LEMMA SourceKept ==
  ASSUME UNCHANGED source
  PROVE  /\ Legal' = Legal
         /\ \A tab, n : TableOf(tab, n)' = TableOf(tab, n)
         /\ \A i : FirstOK(i)' = FirstOK(i) /\ SecondOK(i)' = SecondOK(i) /\ WordOf(i)' = WordOf(i)
         /\ Code' = Code
<1>1. /\ Declaring' = Declaring /\ \A i : Place(i)' = Place(i) /\ IsInsn(source[i])' = IsInsn(source[i])
  BY PlaceKept DEF Declaring, Declares, IsInsn
<1>2. Kept' = Kept
  BY <1>1 DEF Kept
<1>3. \A t : At(t)' = At(t)
  BY <1>1, <1>2 DEF At
<1>4. \A i : Operand(i)' = Operand(i)
  BY <1>1, <1>3 DEF Operand, ImmToken
<1>5. \A i : LegalInsn(i)' = LegalInsn(i)
  BY <1>1, <1>2, <1>4 DEF LegalInsn, ImmToken, ImmGiven, RegsParse, Fits
<1>6. Legal' = Legal
  BY <1>1, <1>2, <1>5 DEF Legal
<1>7. \A i : LabelOK(i)' = LabelOK(i) /\ Earlier(i)' = Earlier(i)
  BY <1>1, <1>2 DEF LabelOK, Earlier, Declares
<1>8. \A tab, n : TableOf(tab, n)' = TableOf(tab, n)
  BY <1>1, <1>2, <1>7 DEF TableOf
<1>9. \A i, p : Value(i, p)' = Value(i, p)
  BY <1>1 DEF Value
<1>10. \A i : FirstOK(i)' = FirstOK(i)
  BY <1>1, <1>2, <1>9 DEF FirstOK, ImmToken, ImmGiven, RegsParse, Fits
<1>11. \A i : SecondOK(i)' = SecondOK(i)
  BY <1>1, <1>2, <1>4 DEF SecondOK, ImmToken, ImmGiven, RegsParse, Fits
<1>12. \A i : WordOf(i)' = WordOf(i)
  BY <1>4 DEF WordOf
<1>13. Code' = Code
  BY <1>12 DEF Code
<1> QED BY <1>6, <1>8, <1>10, <1>11, <1>12, <1>13

LEMMA FirstPrime ==
  ASSUME UNCHANGED source
  PROVE  \A n : First(labels, n)' = First(labels', n)
BY SourceKept DEF First, IsInsn, TableOf

LEMMA SecondPrime ==
  ASSUME UNCHANGED source
  PROVE  \A n : Second(labels, n, insn_buf)' = Second(labels', n, insn_buf')
<1>1. \A n : First(labels, n)' = First(labels', n)
  BY FirstPrime
<1>2. \A i : SecondOK(i)' = SecondOK(i) /\ WordOf(i)' = WordOf(i) /\ Place(i)' = Place(i)
  BY SourceKept, PlaceKept
<1>3. Code' = Code
  BY SourceKept
<1> QED BY <1>1, <1>2, <1>3 DEF Second, Encoded, IsInsn

\* What a reading line knows.
LEMMA ReadFact ==
  ASSUME FullInv, NEW l, Reads(l)
  PROVE  /\ source \in Source /\ line \in 1 .. Len(source) /\ l = source[line]
         /\ Len(source) \in Nat /\ line \in Nat
         /\ phase \in {"pass1", "pass2"} /\ Blank \notin DOMAIN labels
         /\ error_count = 0 => word_addr = Place(line)
<1>1. Len(source) \in Nat /\ source \in Source
  BY SourceFact DEF FullInv, IInv, Types
<1> QED BY <1>1 DEF FullInv, RunInv, IInv, Types, Counted, Reads

LEMMA FirstNext ==
  ASSUME FullInv, phase = "pass1", error_count = 0, NEW l, Reads(l), ~Refused(l),
         l.mn = Blank \/ Encodable(l, label_add(l))
  PROVE  First(label_add(l), line)
<1>1. /\ source \in Source /\ line \in 1 .. Len(source) /\ l = source[line] /\ line \in Nat
      /\ Blank \notin DOMAIN labels /\ word_addr = Place(line) /\ First(labels, line - 1)
  BY ReadFact DEF FullInv, RunInv
<1>2. TableOf(labels, line - 1)
  BY <1>1 DEF First
<1>3. TableOf(label_add(l), line)
  BY <1>1, <1>2, TableNext
<1>4. IsInsn(l) => FirstOK(line)
  BY <1>1, <1>3, EncodableFirst DEF IsInsn
<1>5. \A i \in 1 .. line : i \in 1 .. line - 1 \/ i = line
  BY <1>1
<1> QED BY <1>1, <1>3, <1>4, <1>5 DEF First

LEMMA SecondNext ==
  ASSUME FullInv, phase = "pass2", error_count = 0, NEW l, Reads(l), ~Refused(l),
         \/ l.mn = Blank /\ UNCHANGED insn_buf
         \/ Encodable(l, labels) /\ Len(insn_buf) < MaxInsns
            /\ insn_buf' = Append(insn_buf, encode(l, labels))
  PROVE  Second(labels, line, insn_buf')
<1>1. /\ source \in Source /\ line \in 1 .. Len(source) /\ l = source[line] /\ line \in Nat
      /\ word_addr = Place(line) /\ Second(labels, line - 1, insn_buf) /\ (line - 1) + 1 = line
  BY ReadFact DEF FullInv, RunInv
<1>2. /\ First(labels, Len(source)) /\ TableOf(labels, Len(source))
      /\ \A i \in 1 .. line - 1 : IsInsn(source[i]) => SecondOK(i)
      /\ insn_buf \in Seq(Code) /\ Len(insn_buf) = Place(line) /\ Place(line) =< MaxInsns
      /\ Encoded(insn_buf, line - 1)
  BY <1>1 DEF Second, First
<1>3. /\ Place(line) \in Nat
      /\ Place(line + 1) = IF IsInsn(l) THEN Place(line) + 1 ELSE Place(line)
  <2>1. line \in Nat \ {0}
    BY <1>1
  <2> QED BY <1>1, <2>1, PlaceNext
<1>4. \A i \in 1 .. line : i \in 1 .. line - 1 \/ i = line
  BY <1>1
<1>5. CASE l.mn = Blank /\ UNCHANGED insn_buf
  <2>1. ~IsInsn(l)
    BY <1>5 DEF IsInsn
  <2>2. Encoded(insn_buf, line)
    BY <1>1, <1>2, <1>4, <2>1 DEF Encoded
  <2> QED BY <1>1, <1>2, <1>3, <1>4, <1>5, <2>1, <2>2 DEF Second
<1>6. CASE /\ Encodable(l, labels) /\ Len(insn_buf) < MaxInsns
           /\ insn_buf' = Append(insn_buf, encode(l, labels))
  <2>1. SecondOK(line)
    BY <1>1, <1>2, <1>6, EncodableSecond
  <2>2. IsInsn(l)
    BY <1>1, <2>1, BlankAssumption DEF SecondOK, IsInsn
  <2>3. encode(l, labels) = WordOf(line)
    <3>1. l.mn \in ImmOp => Immediate(l, labels) = Operand(line)
      BY <1>1, <1>2, <2>1, SecondOperand DEF SecondOK
    <3> QED BY <1>1, <3>1 DEF encode, WordOf
  <2>4. WordOf(line) \in Code
    BY <1>1 DEF Code
  <2> DEFINE n == Len(insn_buf)
  <2>5. /\ insn_buf' \in Seq(Code) /\ Len(insn_buf') = n + 1 /\ n \in Nat
        /\ insn_buf'[n + 1] = WordOf(line) /\ \A k \in 1 .. n : insn_buf'[k] = insn_buf[k]
    BY <1>2, <1>6, <2>3, <2>4
  <2>6. ASSUME NEW i \in 1 .. line - 1, IsInsn(source[i])
        PROVE  insn_buf'[Place(i) + 1] = WordOf(i)
    <3>1. i \in Nat \ {0} /\ i + 1 \in Nat \ {0} /\ i + 1 =< line
      BY <1>1
    <3>2. Place(i) \in Nat /\ Place(i + 1) = Place(i) + 1
      BY <2>6, <3>1, PlaceNext
    <3>3. Place(i + 1) =< Place(line)
      BY <1>1, <3>1, PlaceGrows
    <3>4. Place(i) + 1 \in 1 .. n
      BY <1>2, <1>3, <3>2, <3>3
    <3> QED BY <1>2, <2>5, <2>6, <3>4 DEF Encoded
  <2>7. Encoded(insn_buf', line)
    <3>1. insn_buf'[Place(line) + 1] = WordOf(line)
      BY <1>2, <2>5
    <3> QED BY <1>4, <2>6, <3>1 DEF Encoded
  <2>8. Len(insn_buf') = Place(line + 1) /\ Place(line + 1) =< MaxInsns
    <3>1. n < MaxInsns /\ MaxInsns \in Nat
      BY <1>1, <1>6, SourceFact
    <3> QED BY <1>2, <1>3, <2>2, <2>5, <3>1
  <2>9. \A i \in 1 .. line : IsInsn(source[i]) => SecondOK(i)
    BY <1>2, <1>4, <2>1
  <2> QED BY <1>2, <2>5, <2>7, <2>8, <2>9 DEF Second
<1> QED BY <1>5, <1>6

\* No line of a legal source is refused.
LEMMA LegalNoError ==
  ASSUME FullInv, Legal, NEW l, BadLabel(l) \/ BadInsn(l) \/ TooBig(l)
  PROVE  FALSE
<1>1. Reads(l)
  BY DEF BadLabel, BadInsn, TooBig
<1>2. error_count = 0
  BY DEF FullInv, RunInv
<1>3. /\ source \in Source /\ line \in 1 .. Len(source) /\ l = source[line] /\ line \in Nat
      /\ phase \in {"pass1", "pass2"} /\ Blank \notin DOMAIN labels /\ word_addr = Place(line)
      /\ Len(source) \in Nat
  BY <1>1, <1>2, ReadFact
<1>4. /\ LabelOK(line) /\ (IsInsn(l) => FirstOK(line) /\ SecondOK(line))
      /\ Place(Len(source) + 1) =< MaxInsns
  BY <1>3, LegalSplit
<1>5. CASE phase = "pass1"
  <2>1. TableOf(labels, line - 1)
    BY <1>2, <1>5 DEF FullInv, RunInv, First
  <2>2. ~Refused(l)
    BY <1>3, <1>4, <1>5, <2>1, RefusedFirst
  <2>3. TableOf(label_add(l), line)
    BY <1>3, <1>5, <2>1, <2>2, TableNext
  <2>4. BadInsn(l)
    BY <1>5, <2>2 DEF BadLabel, TooBig
  <2>5. IsInsn(l) /\ ~Encodable(l, label_add(l))
    BY <2>4 DEF BadInsn, IsInsn
  <2> QED BY <1>3, <1>4, <1>5, <2>3, <2>5, EncodableFirst
<1>6. CASE phase = "pass2"
  <2>1. /\ TableOf(labels, Len(source)) /\ Len(insn_buf) = Place(line)
    <3>1. Second(labels, line - 1, insn_buf) /\ (line - 1) + 1 = line
      BY <1>2, <1>3, <1>6 DEF FullInv, RunInv
    <3> QED BY <3>1 DEF Second, First
  <2>2. ~Refused(l)
    BY <1>3, <1>4, <1>6, BlankAssumption DEF Refused, LabelOK, Declares
  <2>3. label_add(l) = labels
    BY <1>6, SecondPass
  <2>4. CASE BadInsn(l)
    <3>1. IsInsn(l) /\ ~Encodable(l, labels)
      BY <2>3, <2>4 DEF BadInsn, IsInsn
    <3> QED BY <1>3, <1>4, <1>6, <2>1, <3>1, EncodableSecond
  <2>5. CASE TooBig(l)
    <3>1. Encodable(l, labels) /\ Len(insn_buf) >= MaxInsns
      BY <2>5 DEF TooBig
    <3>2. IsInsn(l)
      BY <3>1, BlankAssumption DEF Encodable, IsInsn
    <3>3. /\ line \in Nat \ {0} /\ line + 1 \in Nat \ {0} /\ Len(source) + 1 \in Nat
          /\ line + 1 =< Len(source) + 1
      BY <1>3
    <3>4. /\ Place(line) \in Nat /\ Place(line + 1) = Place(line) + 1
          /\ Place(line + 1) =< Place(Len(source) + 1) /\ Place(Len(source) + 1) \in Nat
      BY <1>3, <3>2, <3>3, PlaceNext, PlaceGrows
    <3>5. MaxInsns \in Nat
      BY <1>3, SourceFact
    <3> QED BY <1>4, <2>1, <3>1, <3>4, <3>5
  <2> QED BY <2>2, <2>4, <2>5 DEF BadLabel
<1> QED BY <1>3, <1>5, <1>6

LEMMA RunInit == Init => RunInv
<1> SUFFICES ASSUME Init PROVE RunInv
  OBVIOUS
<1>1. source \in Source /\ phase = "pass1" /\ line = 1 /\ labels = << >> /\ error_count = 0
  BY DEF Init
<1>2. Len(source) \in Nat /\ TableOf(<< >>, 0)
  BY <1>1, SourceFact, TableFirst
<1>3. First(labels, line - 1)
  BY <1>1, <1>2 DEF First
<1>4. line \in 1 .. Len(source) + 1
  BY <1>1, <1>2
<1> QED BY <1>1, <1>3, <1>4 DEF RunInv, WrittenMeansSource, Ends

LEMMA AssembledRun ==
  ASSUME FullInv, NEW l, Skip(l) \/ Measure(l) \/ Encode(l)
  PROVE  RunInv'
<1>1. /\ Reads(l) /\ ~Refused(l) /\ labels' = label_add(l) /\ line' = line + 1
      /\ UNCHANGED <<source, phase, error_count>>
      /\ l.mn = Blank \/ Encodable(l, label_add(l))
      /\ phase = "pass2" =>
           \/ l.mn = Blank /\ UNCHANGED insn_buf
           \/ /\ Encodable(l, labels) /\ Len(insn_buf) < MaxInsns
              /\ insn_buf' = Append(insn_buf, encode(l, labels))
  BY SecondPass DEF Skip, Measure, Encode, Assembled
<1>2. /\ line \in 1 .. Len(source) /\ Len(source) \in Nat /\ line' - 1 = line
      /\ phase \in {"pass1", "pass2"}
  BY <1>1, ReadFact
<1>3. ASSUME phase = "pass1", error_count = 0
      PROVE  First(labels, line - 1)'
  <2>1. First(labels', line)
    BY <1>1, <1>3, FirstNext
  <2> QED BY <1>1, <1>2, <2>1, FirstPrime
<1>4. ASSUME phase = "pass2", error_count = 0
      PROVE  Second(labels, line - 1, insn_buf)'
  <2>1. labels' = labels /\ Second(labels, line, insn_buf')
    BY <1>1, <1>4, SecondNext, SecondPass
  <2> QED BY <1>1, <1>2, <2>1, SecondPrime
<1>5. line' \in 1 .. Len(source') + 1
  BY <1>1, <1>2
<1>6. Legal' => error_count' = 0 /\ phase' # "failed"
  BY <1>1, SourceKept DEF FullInv, RunInv
<1> QED BY <1>1, <1>2, <1>3, <1>4, <1>5, <1>6 DEF RunInv, WrittenMeansSource

LEMMA ErrorRun ==
  ASSUME FullInv, NEW l, BadLabel(l) \/ BadInsn(l) \/ TooBig(l)
  PROVE  RunInv'
<1>1. /\ Reads(l) /\ error_count' = error_count + 1 /\ line' = line + 1
      /\ phase' \in {phase, "failed"} /\ UNCHANGED source
  BY DEF BadLabel, BadInsn, TooBig, Error
<1>2. /\ line \in 1 .. Len(source) /\ Len(source) \in Nat /\ phase \in {"pass1", "pass2"}
      /\ error_count \in Nat
  BY <1>1, ReadFact DEF FullInv, IInv, Types
<1>3. ~Legal' /\ error_count' # 0
  BY <1>1, <1>2, SourceKept, LegalNoError
<1>4. line' \in 1 .. Len(source') + 1
  BY <1>1, <1>2
<1>5. phase' \in {"pass1", "pass2", "failed"}
  BY <1>1, <1>2
<1> QED BY <1>3, <1>4, <1>5 DEF RunInv, WrittenMeansSource, Ends

\* The end of the second pass without an error: the source was legal, and the
\* buffer holds what it says.
LEMMA PassTwoDone ==
  ASSUME FullInv, PassDone, phase = "pass2", error_count = 0
  PROVE  Legal /\ Second(labels, Len(source), insn_buf)
<1>1. source \in Source /\ Len(source) \in Nat
  BY SourceFact DEF FullInv, IInv, Types
<1>2. line = Len(source) + 1 /\ line - 1 = Len(source)
  BY <1>1 DEF PassDone, FullInv, RunInv
<1>3. Second(labels, Len(source), insn_buf)
  BY <1>2 DEF FullInv, RunInv
<1>4. Legal
  BY <1>1, <1>3, LegalJoin DEF Second, First, TableOf
<1> QED BY <1>3, <1>4

LEMMA FileMeans ==
  ASSUME FullInv, PassDone, phase = "pass2", error_count = 0,
         NEW file, file.words = insn_buf,
         file.symbols = << >> \/ file.symbols = [t \in DOMAIN labels |-> 8 * labels[t]],
         output' = file, UNCHANGED source
  PROVE  WrittenMeansSource'
<1>1. source \in Source /\ Len(source) \in Nat /\ DOMAIN source = 1 .. Len(source)
  BY SourceFact DEF FullInv, IInv, Types
<1>2. /\ TableOf(labels, Len(source)) /\ Len(insn_buf) = Place(Len(source) + 1)
      /\ Encoded(insn_buf, Len(source))
      /\ \A i \in 1 .. Len(source) : IsInsn(source[i]) => SecondOK(i)
  BY PassTwoDone DEF Second, First
<1>3. ASSUME NEW i \in DOMAIN source, IsInsn(source[i])
      PROVE  LET l == source[i]
                 w == file.words[Place(i) + 1]
             IN  /\ w.op = l.mn
                 /\ \A k \in 1 .. RegCount(l.mn) : w.reg[k] = RegNo[l.args[k]]
                 /\ l.mn \in ImmOp =>
                      \/ SignExtend(w.imm) = Operand(i)
                      \/ l.mn = "LI" /\ Operand(i) >= Half /\ w.imm = Operand(i)
  <2>1. i \in 1 .. Len(source) /\ SecondOK(i) /\ file.words[Place(i) + 1] = WordOf(i)
    BY <1>1, <1>2, <1>3 DEF Encoded
  <2> QED BY <1>1, <2>1, WordMeans
<1>4. ASSUME NEW t \in DOMAIN file.symbols
      PROVE  file.symbols[t] = 8 * At(t)
  <2>1. DOMAIN << >> = {}
    <3>1. Len(<< >>) = 0 /\ DOMAIN << >> = 1 .. Len(<< >>)
      BY EmptySeq, LenProperties
    <3> QED BY <3>1
  <2>2. t \in DOMAIN labels /\ file.symbols[t] = 8 * labels[t]
    BY <2>1
  <2>3. PICK j \in Kept : j =< Len(source) /\ source[j].label = t
    BY <1>2, <2>2 DEF TableOf
  <2>4. labels[t] = Place(j) /\ At(t) = Place(j)
    <3>1. \A k \in 1 .. Len(source) : LabelOK(k)
      BY <1>2 DEF TableOf
    <3> QED BY <1>1, <1>2, <2>3, <3>1, Unique DEF TableOf
  <2> QED BY <2>2, <2>4
<1>5. Len(file.words) = Place(Len(source) + 1)
  BY <1>2
<1>6. /\ \A i : Place(i)' = Place(i) /\ Operand(i)' = Operand(i)
      /\ \A t : At(t)' = At(t)
  <2>1. \A i : Place(i)' = Place(i)
    BY PlaceKept
  <2>2. Kept' = Kept
    BY DEF Kept, Declaring, Declares
  <2>3. \A t : At(t)' = At(t)
    BY <2>1, <2>2 DEF At
  <2> QED BY <2>1, <2>3 DEF Operand, ImmToken
<1> QED BY <1>3, <1>4, <1>5, <1>6 DEF WrittenMeansSource, IsInsn, SignExtend

LEMMA RunNext == FullInv /\ [Next]_vars => RunInv'
<1> SUFFICES ASSUME FullInv, [Next]_vars PROVE RunInv'
  OBVIOUS
<1>1. CASE process_line
  BY <1>1, AssembledRun, ErrorRun DEF process_line
<1>0. source \in Source /\ Len(source) \in Nat /\ line \in 1 .. Len(source) + 1
  BY SourceFact DEF FullInv, IInv, RunInv, Types
<1>2. CASE EndPass1
  <2>1. /\ phase = "pass1" /\ error_count = 0 /\ line > Len(source) /\ phase' = "pass2"
        /\ line' = 1 /\ insn_buf' = << >> /\ UNCHANGED <<source, labels, error_count>>
    BY <1>2 DEF EndPass1, PassDone
  <2>2. line - 1 = Len(source)
    BY <1>0, <2>1
  <2>3. First(labels, Len(source))
    BY <2>1, <2>2 DEF FullInv, RunInv
  <2>4. Second(labels, 0, << >>)
    <3>1. Place(1) = 0 /\ << >> \in Seq(Code) /\ Len(<< >>) = 0 /\ MaxInsns \in Nat
      BY <1>0, PlaceFirst, EmptySeq, SourceFact
    <3> QED BY <2>3, <3>1 DEF Second, Encoded
  <2>5. Second(labels, line - 1, insn_buf)'
    <3>1. line' - 1 = 0
      BY <2>1
    <3> QED BY <2>1, <2>4, <3>1, SecondPrime
  <2>6. Legal' => error_count' = 0
    BY <2>1
  <2>7. line' \in 1 .. Len(source') + 1
    BY <1>0, <2>1
  <2> QED BY <2>1, <2>5, <2>6, <2>7 DEF RunInv, WrittenMeansSource
<1>3. CASE Fail
  <2>1. /\ error_count # 0 /\ phase' = "failed" /\ UNCHANGED <<source, line, error_count>>
    BY <1>3 DEF Fail, FullInv, IInv, Types
  <2>2. ~Legal'
    BY <2>1, SourceKept DEF FullInv, RunInv
  <2> QED BY <1>0, <2>1, <2>2 DEF RunInv, WrittenMeansSource, Ends
<1>4. ASSUME NEW file, Finish(file), file.words = insn_buf,
             file.symbols = << >> \/ file.symbols = [t \in DOMAIN labels |-> 8 * labels[t]]
      PROVE  RunInv'
  <2>1. /\ PassDone /\ phase = "pass2" /\ error_count = 0 /\ phase' = "written"
        /\ output' = file /\ UNCHANGED <<source, line, error_count>>
    BY <1>4 DEF Finish
  <2>2. WrittenMeansSource'
    BY <1>4, <2>1, FileMeans
  <2>3. Legal'
    BY <2>1, PassTwoDone, SourceKept
  <2> QED BY <1>0, <2>1, <2>2, <2>3 DEF RunInv, Ends
<1>5. CASE write_bin \/ write_elf
  <2>1. CASE write_bin
    BY <1>4, <2>1 DEF write_bin
  <2>2. CASE write_elf
    BY <1>4, <2>2 DEF write_elf
  <2> QED BY <1>5, <2>1, <2>2
<1>6. CASE CannotOpen
  <2>1. /\ PassDone /\ phase = "pass2" /\ error_count = 0 /\ phase' = "unwritable"
        /\ UNCHANGED <<source, line, error_count>>
    BY <1>6 DEF CannotOpen
  <2>2. Legal'
    BY <2>1, PassTwoDone, SourceKept
  <2> QED BY <1>0, <2>1, <2>2 DEF RunInv, WrittenMeansSource, Ends
<1>7. CASE UNCHANGED vars
  <2>1. UNCHANGED <<source, phase, line, labels, error_count, insn_buf, output>>
    BY <1>7 DEF vars
  <2>2. WrittenMeansSource'
    <3>1. /\ \A i : Place(i)' = Place(i)
          /\ Kept' = Kept
      BY <2>1, PlaceKept DEF Kept, Declaring, Declares
    <3>2. \A t : At(t)' = At(t)
      BY <2>1, <3>1 DEF At
    <3>3. \A i : Operand(i)' = Operand(i)
      BY <2>1, <3>1, <3>2 DEF Operand, ImmToken
    <3> QED BY <2>1, <3>1, <3>2, <3>3 DEF FullInv, RunInv, WrittenMeansSource, IsInsn, SignExtend
  <2>3. phase = "pass1" /\ error_count = 0 => First(labels, line - 1)'
    BY <2>1, FirstPrime DEF FullInv, RunInv
  <2>4. phase = "pass2" /\ error_count = 0 => Second(labels, line - 1, insn_buf)'
    BY <2>1, SecondPrime DEF FullInv, RunInv
  <2>5. Legal' = Legal
    BY <2>1, SourceKept
  <2> QED BY <2>1, <2>2, <2>3, <2>4, <2>5 DEF FullInv, RunInv
<1> QED BY <1>1, <1>2, <1>3, <1>5, <1>6, <1>7 DEF Next

LEMMA RunSafe == Spec => []FullInv
BY InitInv, NextInv, RunInit, RunNext, PTL DEF Spec, FullInv

\* What the two passes write is what the source means, read without passes:
\* every word, every branch, every symbol, for all sources and all sizes of
\* the tables (process_line(), encode_*(), write_elf()).
THEOREM WrittenSafe == Spec => []WrittenMeansSource
<1>1. FullInv => WrittenMeansSource
  BY DEF FullInv, RunInv
<1> QED BY <1>1, RunSafe, PTL

\* A file is written, or could not be, for exactly the legal sources: the errors
\* of the two passes together are all of what Legal excludes, and nothing else is
\* ever an error (run_pass(), main()).
THEOREM AcceptanceExact == Spec => []AcceptsExactly
<1>1. FullInv => AcceptsExactly
  BY DEF FullInv, RunInv, AcceptsExactly
<1> QED BY <1>1, RunSafe, PTL
=============================================================================
