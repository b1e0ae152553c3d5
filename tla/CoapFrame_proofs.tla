-------------------------- MODULE CoapFrame_proofs --------------------------
(***************************************************************************)
(* Options, the options of a URL and their values, and frames, for lists   *)
(* of any length and contents of any size: the theorems here are about     *)
(* the operators of CoapOption, CoapUrl and CoapFrame, and                 *)
(* CoapRequest_proofs is built on them.                                    *)
(*                                                                         *)
(* The library's induction theorems take an operator as a parameter, which *)
(* the provers cannot instantiate.  What holds for lists of every length   *)
(* is proved of sets here: the numbers with a property form a set that has *)
(* 0 and with each number the next one (Induction), and the values of a    *)
(* fold or of a recursive function form a function, one step after another *)
(* (FoldTableExists, the lemmas ...Steps).                                 *)
(***************************************************************************)
EXTENDS CoapUrl, CoapFrame, SequenceTheorems, WellFoundedInduction, TLAPS

(***************************************************************************)
(* Numbers and folds.                                                      *)
(***************************************************************************)

\* A set of numbers has a least one.
LEMMA LeastNumber ==
    ASSUME NEW T \in SUBSET Nat, T # {}
    PROVE  \E i \in T : \A j \in T : i <= j
<1> DEFINE less == {pair \in Nat \X Nat : pair[1] < pair[2]}
<1>1. IsWellFoundedOn(less, Nat)
    BY NatLessThanWellFounded DEF OpToRel
<1>2. \A i, j \in Nat : i < j => <<i, j>> \in less
    OBVIOUS
<1> HIDE DEF less
<1>3. PICK i \in T : \A j \in T : ~ (<<j, i>> \in less)
    BY <1>1, WFMin
<1>4. \A j \in T : i <= j
    <2> SUFFICES ASSUME NEW j \in T, j < i PROVE FALSE
        OBVIOUS
    <2>1. <<j, i>> \in less
        BY <1>2
    <2> QED
        BY <1>3, <2>1
<1> QED
    BY <1>4

\* Induction over the natural numbers, for a set.
LEMMA Induction ==
    ASSUME NEW P \in SUBSET Nat, 0 \in P, \A k \in P : k + 1 \in P
    PROVE  P = Nat
<1> SUFFICES ASSUME Nat \ P # {} PROVE FALSE
    OBVIOUS
<1>1. PICK n \in Nat \ P : \A j \in Nat \ P : n <= j
    <2> DEFINE T == Nat \ P
    <2>1. T \in SUBSET Nat /\ T # {}
        OBVIOUS
    <2> HIDE DEF T
    <2>2. \E i \in T : \A j \in T : i <= j
        BY <2>1, LeastNumber
    <2> QED
        BY <2>2 DEF T
<1>2. n # 0
    OBVIOUS
<1>3. n - 1 \in Nat /\ ~ (n <= n - 1) /\ (n - 1) + 1 = n
    BY <1>2
<1>4. n - 1 \in P
    BY <1>1, <1>3
<1> QED
    BY <1>3, <1>4

LEMMA MaxOfSome ==
    ASSUME NEW n \in Nat, NEW S \in SUBSET (1..n), S # {}
    PROVE  Max(S) \in S /\ \A y \in S : y <= Max(S)
<1> DEFINE bounds == {m \in Nat : \A y \in S : y <= m}
<1>1. n \in bounds /\ bounds \in SUBSET Nat
    OBVIOUS
<1>2. PICK m \in bounds : \A b \in bounds : m <= b
    <2> HIDE DEF bounds
    <2> QED
        BY <1>1, LeastNumber
<1>3. m \in S
    <2> SUFFICES ASSUME m \notin S PROVE FALSE
        OBVIOUS
    <2>1. PICK y \in S : TRUE
        OBVIOUS
    <2>2. m # 0
        BY <1>2, <2>1
    <2>3. m - 1 \in bounds
        BY <1>2, <2>2
    <2> QED
        BY <1>2, <2>3
<1>4. \E x \in S : \A y \in S : x >= y
    BY <1>2, <1>3
<1> QED
    BY <1>4 DEF Max

LEMMA MaxOfAll ==
    ASSUME NEW n \in Nat \ {0}
    PROVE  Max(1..n) = n /\ (1..n) \ {n} = 1..(n - 1) /\ 1..n # {}
<1>1. n \in 1..n /\ (1..n) \ {n} = 1..(n - 1)
    OBVIOUS
<1>2. Max(1..n) \in 1..n /\ \A y \in 1..n : y <= Max(1..n)
    BY <1>1, MaxOfSome
<1> QED
    BY <1>1, <1>2

\* What FoldLeft computes for every set of places up to n, with a step that is a function.
FoldTable(V, base, step, n, G) ==
    /\ G \in [SUBSET (1..n) -> V]
    /\ \A S \in SUBSET (1..n) : G[S] = IF S = {} THEN base ELSE step[<<G[S \ {Max(S)}], Max(S)>>]

\* The function that a fold chooses exists.
LEMMA FoldTableExists ==
    ASSUME NEW N \in Nat, NEW V, NEW base \in V, NEW step \in [V \X (1..N) -> V]
    PROVE  \E G : FoldTable(V, base, step, N, G)
<1> DEFINE P == {n \in Nat : n <= N => \E G : FoldTable(V, base, step, n, G)}
<1>1. 0 \in P
    <2> DEFINE G == [S \in SUBSET (1..0) |-> base]
    <2>1. \A S \in SUBSET (1..0) : S = {}
        OBVIOUS
    <2>2. G \in [SUBSET (1..0) -> V]
        OBVIOUS
    <2>3. FoldTable(V, base, step, 0, G)
        BY <2>1, <2>2 DEF FoldTable
    <2> HIDE DEF G
    <2> QED
        BY <2>3
<1>2. ASSUME NEW n \in P PROVE n + 1 \in P
    <2> SUFFICES ASSUME n + 1 <= N PROVE \E G : FoldTable(V, base, step, n + 1, G)
        OBVIOUS
    <2>1. PICK G : FoldTable(V, base, step, n, G)
        OBVIOUS
    <2> DEFINE H == [S \in SUBSET (1..(n + 1)) |->
                        IF n + 1 \in S THEN step[<<G[S \ {n + 1}], n + 1>>] ELSE G[S]]
    <2>2. ASSUME NEW S \in SUBSET (1..(n + 1)), n + 1 \in S
          PROVE  /\ S \ {n + 1} \in SUBSET (1..n) /\ Max(S) = n + 1 /\ S # {}
                 /\ H[S] = step[<<G[S \ {n + 1}], n + 1>>] /\ H[S] \in V
                 /\ H[S \ {n + 1}] = G[S \ {n + 1}]
        <3>1. S \ {n + 1} \in SUBSET (1..n)
            OBVIOUS
        <3>2. n + 1 \in Nat /\ S # {}
            BY <2>2
        <3>3. Max(S) \in S /\ \A y \in S : y <= Max(S)
            BY <3>2, MaxOfSome
        <3>4. Max(S) = n + 1
            <4>1. Max(S) \in 1..(n + 1) /\ n + 1 <= Max(S) /\ n \in Nat
                BY <2>2, <3>3
            <4> QED
                BY <4>1
        <3>5. H[S] = step[<<G[S \ {n + 1}], n + 1>>]
            BY <2>2
        <3>6. G[S \ {n + 1}] \in V
            BY <2>1, <3>1 DEF FoldTable
        <3>7. <<G[S \ {n + 1}], n + 1>> \in V \X (1..N)
            BY <3>6
        <3>8. H[S] \in V
            BY <3>5, <3>7
        <3>9. H[S \ {n + 1}] = G[S \ {n + 1}]
            OBVIOUS
        <3> QED
            BY <3>1, <3>2, <3>4, <3>5, <3>8, <3>9
    <2>3. ASSUME NEW S \in SUBSET (1..(n + 1)), n + 1 \notin S
          PROVE  /\ S \in SUBSET (1..n) /\ H[S] = G[S] /\ H[S] \in V
                 /\ S # {} => H[S \ {Max(S)}] = G[S \ {Max(S)}]
        <3>1. S \in SUBSET (1..n)
            BY <2>3
        <3>2. H[S] = G[S]
            BY <2>3
        <3>3. n + 1 \notin S \ {Max(S)} /\ S \ {Max(S)} \in SUBSET (1..(n + 1))
            BY <2>3
        <3>4. H[S \ {Max(S)}] = G[S \ {Max(S)}]
            BY <3>3
        <3>5. G[S] \in V
            BY <2>1, <3>1 DEF FoldTable
        <3> QED
            BY <3>1, <3>2, <3>4, <3>5
    <2>4. H = [S \in SUBSET (1..(n + 1)) |-> H[S]]
        OBVIOUS
    <2> HIDE DEF H
    <2>5. \A S \in SUBSET (1..(n + 1)) : H[S] \in V
        <3> TAKE S \in SUBSET (1..(n + 1))
        <3>1. CASE n + 1 \in S
            BY <2>2, <3>1
        <3>2. CASE n + 1 \notin S
            BY <2>3, <3>2
        <3> QED
            BY <3>1, <3>2
    <2>6. H \in [SUBSET (1..(n + 1)) -> V]
        BY <2>4, <2>5
    <2>7. ASSUME NEW S \in SUBSET (1..(n + 1))
          PROVE  H[S] = IF S = {} THEN base ELSE step[<<H[S \ {Max(S)}], Max(S)>>]
        <3>1. CASE n + 1 \in S
            BY <2>2, <3>1
        <3>2. CASE n + 1 \notin S
            BY <2>1, <2>3, <3>2 DEF FoldTable
        <3> QED
            BY <3>1, <3>2
    <2> QED
        BY <2>6, <2>7 DEF FoldTable
<1>3. P = Nat
    <2> HIDE DEF P
    <2>1. P \in SUBSET Nat
        BY DEF P
    <2> QED
        BY <1>1, <1>2, <2>1, Induction
<1>4. N \in P
    BY <1>3
<1> QED
    BY <1>4

\* The values a fold passes through, one for each place.
Passes(V, base, step, N, last, F) ==
    /\ F \in [0..N -> V] /\ F[0] = base /\ F[N] = last
    /\ \A k \in 1..N : F[k] = step[<<F[k - 1], k>>]

Folds(V, base, step, N, G) ==
    \A S \in SUBSET (1..N) :
       /\ S = {} => G[S] = base
       /\ S # {} /\ G[S \ {Max(S)}] \in V => G[S] = step[<<G[S \ {Max(S)}], Max(S)>>]

LEMMA FoldPasses ==
    ASSUME NEW N \in Nat, NEW V, NEW base \in V, NEW step \in [V \X (1..N) -> V], NEW G,
           Folds(V, base, step, N, G)
    PROVE  \E F : Passes(V, base, step, N, G[1..N], F)
<1> DEFINE P == {n \in Nat : n <= N => G[1..n] \in V}
<1>1. 0 \in P
    <2>1. 1..0 = {} /\ {} \in SUBSET (1..N)
        OBVIOUS
    <2>2. G[{}] = base
        BY <2>1 DEF Folds
    <2> QED
        BY <2>1, <2>2
<1>2. ASSUME NEW n \in 1..N, G[1..(n - 1)] \in V
      PROVE  G[1..n] = step[<<G[1..(n - 1)], n>>] /\ G[1..n] \in V
    <2>1. n \in Nat \ {0} /\ 1..n \in SUBSET (1..N)
        OBVIOUS
    <2>2. Max(1..n) = n /\ (1..n) \ {n} = 1..(n - 1) /\ 1..n # {}
        BY <2>1, MaxOfAll
    <2> DEFINE S == 1..n
    <2>3. S \in SUBSET (1..N) /\ S # {} /\ Max(S) = n /\ S \ {Max(S)} = 1..(n - 1)
        BY <2>1, <2>2
    <2> HIDE DEF S
    <2>4. G[S] = step[<<G[1..(n - 1)], n>>]
        BY <1>2, <2>3 DEF Folds
    <2>5. <<G[1..(n - 1)], n>> \in V \X (1..N)
        BY <1>2
    <2>6. step[<<G[1..(n - 1)], n>>] \in V
        BY <2>5
    <2> QED
        BY <2>4, <2>6 DEF S
<1>3. ASSUME NEW n \in P PROVE n + 1 \in P
    <2> SUFFICES ASSUME n + 1 <= N PROVE G[1..(n + 1)] \in V
        OBVIOUS
    <2>1. n \in Nat /\ n + 1 \in 1..N /\ (n + 1) - 1 = n /\ G[1..n] \in V
        OBVIOUS
    <2> QED
        BY <1>2, <2>1
<1>4. P = Nat
    <2> HIDE DEF P
    <2>1. P \in SUBSET Nat
        BY DEF P
    <2> QED
        BY <1>1, <1>3, <2>1, Induction
<1>5. \A n \in 0..N : G[1..n] \in V
    BY <1>4
<1> DEFINE F == [k \in 0..N |-> G[1..k]]
<1>6. F \in [0..N -> V] /\ F[N] = G[1..N]
    BY <1>5
<1>7. F[0] = base
    <2>1. 1..0 = {} /\ {} \in SUBSET (1..N) /\ F[0] = G[1..0]
        OBVIOUS
    <2>2. G[{}] = base
        BY <2>1 DEF Folds
    <2> QED
        BY <2>1, <2>2
<1>8. ASSUME NEW k \in 1..N PROVE F[k] = step[<<F[k - 1], k>>]
    <2>1. k \in 0..N /\ k - 1 \in 0..N
        OBVIOUS
    <2>2. G[1..k] = step[<<G[1..(k - 1)], k>>]
        BY <1>2, <1>5, <2>1
    <2> QED
        BY <2>1, <2>2
<1> HIDE DEF F
<1> QED
    BY <1>6, <1>7, <1>8 DEF Passes

(***************************************************************************)
(* QCoapMessage::addOption.                                                *)
(***************************************************************************)

\* What std::upper_bound promises of a place.
UpperBound(options, option, i) ==
    /\ \A j \in 1..(i - 1) : options[j].name <= option.name
    /\ i <= Len(options) => options[i].name > option.name

LEMMA NumbersOfOptions ==
    ASSUME NEW options \in Seq(CoapOptions)
    PROVE  \A i \in 1..Len(options) : options[i].name \in Nat
<1>1. \A i \in 1..Len(options) : options[i] \in CoapOptions
    OBVIOUS
<1> QED
    BY <1>1 DEF CoapOptions

\* The first option with a greater number is such a place, and so is the end.
LEMMA UpperBoundExists ==
    ASSUME NEW options \in Seq(CoapOptions), NEW option \in CoapOptions
    PROVE  \E i \in 1..(Len(options) + 1) : UpperBound(options, option, i)
<1> DEFINE places == {i \in 1..Len(options) : options[i].name > option.name}
<1>1. CASE places = {}
    <2>1. \A j \in 1..Len(options) : options[j].name <= option.name
        <3>1. option.name \in Nat
            BY DEF CoapOptions
        <3> QED
            BY <1>1, <3>1, NumbersOfOptions
    <2>2. Len(options) \in Nat
        OBVIOUS
    <2> WITNESS Len(options) + 1 \in 1..(Len(options) + 1)
    <2> QED
        BY <2>1, <2>2 DEF UpperBound
<1>2. CASE places # {}
    <2>1. places \subseteq Nat
        OBVIOUS
    <2>2. PICK i \in places : \A j \in places : i <= j
        BY <1>2, <2>1, LeastNumber
    <2>3. \A j \in 1..(i - 1) : options[j].name <= option.name
        <3> SUFFICES ASSUME NEW j \in 1..(i - 1) PROVE options[j].name <= option.name
            OBVIOUS
        <3>1. j \in 1..Len(options) /\ ~ (i <= j)
            BY <2>2
        <3>2. options[j].name \in Nat /\ option.name \in Nat
            BY <3>1, NumbersOfOptions DEF CoapOptions
        <3> QED
            BY <2>2, <3>1, <3>2
    <2> QED
        BY <2>2, <2>3 DEF UpperBound
<1> QED
    BY <1>1, <1>2

\* What the search asks of a place: its two neighbours.
Between(options, option, i) ==
    /\ i > 1 => options[i - 1].name <= option.name
    /\ i <= Len(options) => options[i].name > option.name

\* InsertionPlace is a place between the list and its end, and in a sorted list an upper bound.
LEMMA InsertionPlaceIsUpperBound ==
    ASSUME NEW options \in Seq(CoapOptions), NEW option \in CoapOptions
    PROVE  /\ InsertionPlace(options, option) \in 1..(Len(options) + 1)
           /\ Sorted(options) => UpperBound(options, option, InsertionPlace(options, option))
<1> DEFINE p == InsertionPlace(options, option)
<1>1. p = CHOOSE i \in 1..(Len(options) + 1) : Between(options, option, i)
    BY DEF InsertionPlace, Between
<1>2. \E i \in 1..(Len(options) + 1) : Between(options, option, i)
    <2>1. PICK i \in 1..(Len(options) + 1) : UpperBound(options, option, i)
        BY UpperBoundExists
    <2>2. i > 1 => i - 1 \in 1..(i - 1)
        OBVIOUS
    <2>3. Between(options, option, i)
        BY <2>1, <2>2 DEF UpperBound, Between
    <2> QED
        BY <2>3
<1> HIDE DEF p
<1>3. p \in 1..(Len(options) + 1) /\ Between(options, option, p)
    BY <1>1, <1>2
<1>4. ASSUME Sorted(options), NEW j \in 1..(p - 1) PROVE options[j].name <= option.name
    <2>1. p > 1 /\ p - 1 \in 1..Len(options) /\ j \in 1..Len(options)
        BY <1>3
    <2>2. options[p - 1].name <= option.name
        BY <1>3, <2>1 DEF Between
    <2>3. j = p - 1 \/ options[j].name <= options[p - 1].name
        <3>1. j \in DOMAIN options /\ p - 1 \in DOMAIN options /\ (j = p - 1 \/ j < p - 1)
            BY <1>3, <2>1
        <3> QED
            BY <1>4, <3>1 DEF Sorted
    <2>4. options[j].name \in Nat /\ options[p - 1].name \in Nat /\ option.name \in Nat
        BY <2>1, NumbersOfOptions DEF CoapOptions
    <2> QED
        BY <2>2, <2>3, <2>4
<1>5. Sorted(options) => UpperBound(options, option, p)
    BY <1>3, <1>4 DEF UpperBound, Between
<1> QED
    BY <1>3, <1>5 DEF p

\* A list is another one with an option inserted at place p, index by index.
Inserted(list, options, option, p) ==
    /\ list \in Seq(CoapOptions)
    /\ Len(list) = Len(options) + 1
    /\ \A i \in 1..(Len(options) + 1) :
          list[i] = IF i < p THEN options[i] ELSE IF i = p THEN option ELSE options[i - 1]

LEMMA InsertedAt ==
    ASSUME NEW options \in Seq(CoapOptions), NEW option \in CoapOptions,
           NEW p \in 1..(Len(options) + 1)
    PROVE  Inserted(InsertAt(options, p, option), options, option, p)
<1> DEFINE before == SubSeq(options, 1, p - 1)
           after == SubSeq(options, p, Len(options))
<1>1. /\ before \in Seq(CoapOptions) /\ Len(before) = p - 1
      /\ \A i \in 1..(p - 1) : before[i] = options[i]
    OBVIOUS
<1>2. /\ after \in Seq(CoapOptions) /\ Len(after) = Len(options) + 1 - p
      /\ \A i \in 1..(Len(options) + 1 - p) : after[i] = options[p - 1 + i]
    OBVIOUS
<1>3. InsertAt(options, p, option) = before \o <<option>> \o after
    BY DEF InsertAt
<1> HIDE DEF before, after
<1> DEFINE front == before \o <<option>>
<1>4. /\ front \in Seq(CoapOptions) /\ Len(front) = p
      /\ \A i \in 1..p : front[i] = IF i < p THEN before[i] ELSE option
    BY <1>1
<1> HIDE DEF front
<1>5. p - 1 \in Nat /\ Len(options) \in Nat /\ p + (Len(options) + 1 - p) = Len(options) + 1
    OBVIOUS
<1>6. PICK whole \in Seq(CoapOptions) :
         /\ whole = front \o after
         /\ Len(whole) = Len(front) + Len(after)
         /\ \A i \in 1..(Len(front) + Len(after)) :
               whole[i] = IF i <= Len(front) THEN front[i] ELSE after[i - Len(front)]
    <2>1. front \in Seq(CoapOptions) /\ after \in Seq(CoapOptions)
        BY <1>2, <1>4
    <2>2. /\ front \o after \in Seq(CoapOptions)
          /\ Len(front \o after) = Len(front) + Len(after)
          /\ \A i \in 1..(Len(front) + Len(after)) :
                (front \o after)[i] = IF i <= Len(front) THEN front[i] ELSE after[i - Len(front)]
        BY <2>1, ConcatProperties, Zenon
    <2> QED
        BY <2>2
<1>7. InsertAt(options, p, option) = whole /\ Len(whole) = Len(options) + 1
    BY <1>2, <1>3, <1>4, <1>5, <1>6 DEF front
<1>8. ASSUME NEW i \in 1..(Len(options) + 1)
      PROVE  whole[i] = IF i < p THEN options[i] ELSE IF i = p THEN option ELSE options[i - 1]
    <2>1. whole[i] = IF i <= p THEN front[i] ELSE after[i - p]
        BY <1>2, <1>4, <1>5, <1>6
    <2>2. CASE i < p
        BY <1>1, <1>4, <2>1, <2>2
    <2>3. CASE i = p
        BY <1>4, <2>1, <2>3
    <2>4. CASE p < i
        <3>1. i - p \in 1..(Len(options) + 1 - p) /\ p - 1 + (i - p) = i - 1
            BY <2>4
        <3>2. whole[i] = after[i - p]
            BY <2>1, <2>4
        <3> QED
            BY <1>2, <2>4, <3>1, <3>2
    <2> QED
        BY <2>2, <2>3, <2>4
<1> QED
    BY <1>6, <1>7, <1>8 DEF Inserted

\* addOption inserts, in a sorted list at an upper bound.
LEMMA AddedAt ==
    ASSUME NEW options \in Seq(CoapOptions), NEW option \in CoapOptions
    PROVE  \E p \in 1..(Len(options) + 1) :
              /\ Sorted(options) => UpperBound(options, option, p)
              /\ Inserted(AddOption(options, option), options, option, p)
<1> DEFINE p == InsertionPlace(options, option)
<1>1. p \in 1..(Len(options) + 1) /\ (Sorted(options) => UpperBound(options, option, p))
    BY InsertionPlaceIsUpperBound
<1>2. AddOption(options, option) = InsertAt(options, p, option)
    BY DEF AddOption
<1> HIDE DEF p
<1>3. Inserted(InsertAt(options, p, option), options, option, p)
    BY <1>1, InsertedAt
<1> QED
    BY <1>1, <1>2, <1>3

\* QCoapMessage::addOption: a sorted list stays sorted, whatever option is added.
THEOREM AddOptionKeepsOrder ==
    ASSUME NEW options \in Seq(CoapOptions), NEW option \in CoapOptions, Sorted(options)
    PROVE  /\ AddOption(options, option) \in Seq(CoapOptions)
           /\ Sorted(AddOption(options, option))
<1> DEFINE all == AddOption(options, option)
<1>1. PICK p \in 1..(Len(options) + 1) :
         UpperBound(options, option, p) /\ Inserted(all, options, option, p)
    BY AddedAt
<1> HIDE DEF all
<1>2. \A i \in 1..Len(options) : options[i].name \in Nat
    BY NumbersOfOptions
<1>3. option.name \in Nat
    BY DEF CoapOptions
<1>4. \A i, j \in 1..Len(options) : i < j => options[i].name <= options[j].name
    BY DEF Sorted
<1>5. \A i \in 1..(p - 1) : options[i].name <= option.name
    BY <1>1 DEF UpperBound
<1>6. \A i \in p..Len(options) : option.name < options[i].name
    <2> SUFFICES ASSUME NEW i \in p..Len(options) PROVE option.name < options[i].name
        OBVIOUS
    <2>1. option.name < options[p].name
        BY <1>1, <1>2, <1>3 DEF UpperBound
    <2>2. options[p].name <= options[i].name
        BY <1>2, <1>4
    <2> QED
        BY <1>2, <1>3, <2>1, <2>2
<1>7. Sorted(all)
    <2> SUFFICES ASSUME NEW i \in 1..(Len(options) + 1), NEW j \in 1..(Len(options) + 1), i < j
                 PROVE  all[i].name <= all[j].name
        BY <1>1 DEF Sorted, Inserted
    <2>1. CASE j < p
        <3>1. i \in 1..Len(options) /\ j \in 1..Len(options)
            BY <2>1
        <3> QED
            BY <1>1, <1>4, <2>1, <3>1 DEF Inserted
    <2>2. CASE j = p
        BY <1>1, <1>5, <2>2 DEF Inserted
    <2>3. CASE i = p
        <3>1. j - 1 \in p..Len(options) /\ all[i] = option /\ all[j] = options[j - 1]
            BY <1>1, <2>3 DEF Inserted
        <3> QED
            BY <1>2, <1>3, <1>6, <3>1
    <2>4. CASE i < p /\ p < j
        <3>1. /\ i \in 1..(p - 1) /\ j - 1 \in p..Len(options)
              /\ all[i] = options[i] /\ all[j] = options[j - 1]
            BY <1>1, <2>4 DEF Inserted
        <3>2. options[i].name <= option.name /\ option.name < options[j - 1].name
            BY <1>5, <1>6, <3>1
        <3>3. options[i].name \in Nat /\ options[j - 1].name \in Nat
            BY <1>2, <3>1
        <3> QED
            BY <1>3, <3>1, <3>2, <3>3
    <2>5. CASE p < i
        <3>1. i - 1 \in 1..Len(options) /\ j - 1 \in 1..Len(options) /\ i - 1 < j - 1
            BY <1>1, <2>5
        <3>2. all[i] = options[i - 1] /\ all[j] = options[j - 1]
            BY <1>1, <2>5 DEF Inserted
        <3> QED
            BY <1>4, <3>1, <3>2
    <2> QED
        BY <2>1, <2>2, <2>3, <2>4, <2>5
<1> QED
    BY <1>1, <1>7 DEF all, Inserted

\* Options of one number, of a path or a query, keep the order in which they were added: the
\* new one stands behind all of its number, and those that were there keep their order.
THEOREM AddOptionIsStable ==
    ASSUME NEW options \in Seq(CoapOptions), NEW option \in CoapOptions, Sorted(options)
    PROVE  \E p \in 1..(Len(options) + 1) :
              /\ AddOption(options, option)[p] = option
              /\ \A i \in 1..(p - 1) : AddOption(options, option)[i] = options[i]
              /\ \A i \in p..Len(options) :
                    /\ AddOption(options, option)[i + 1] = options[i]
                    /\ options[i].name # option.name
<1> DEFINE all == AddOption(options, option)
<1>1. PICK p \in 1..(Len(options) + 1) :
         UpperBound(options, option, p) /\ Inserted(all, options, option, p)
    BY AddedAt
<1> HIDE DEF all
<1>2. \A i \in 1..Len(options) : options[i].name \in Nat
    BY NumbersOfOptions
<1>3. option.name \in Nat
    BY DEF CoapOptions
<1>4. all[p] = option /\ \A i \in 1..(p - 1) : all[i] = options[i]
    BY <1>1 DEF Inserted
<1>5. ASSUME NEW i \in p..Len(options)
      PROVE  all[i + 1] = options[i] /\ options[i].name # option.name
    <2>1. i + 1 \in 1..(Len(options) + 1) /\ ~ (i + 1 < p) /\ i + 1 # p /\ (i + 1) - 1 = i
        OBVIOUS
    <2>2. option.name < options[p].name
        BY <1>1, <1>2, <1>3 DEF UpperBound
    <2>3. options[p].name <= options[i].name
        BY <1>2 DEF Sorted
    <2>4. options[p].name \in Nat /\ options[i].name \in Nat
        BY <1>2
    <2>5. options[i].name # option.name
        BY <1>3, <2>2, <2>3, <2>4
    <2> QED
        BY <1>1, <2>1, <2>5 DEF Inserted
<1> QED
    BY <1>4, <1>5 DEF all
(***************************************************************************)
(* The folds of the modules, step by step.                                 *)
(***************************************************************************)

\* One step of removeOption(name), of TextOptions and of NormalizedPath.
WithoutName(kept, o, name) == IF o.name = OptionNumber[name] THEN kept ELSE Append(kept, o)
WithText(options, t, name) == IF t = "" THEN options ELSE Append(options, Option(name, Utf8[t]))
WithSegment(done, s) ==
    IF s = "." THEN done
    ELSE IF s # ".." THEN Append(done, s)
    ELSE IF Len(done) > 1 THEN Front(done) ELSE done

\* AddOptions adds the options one by one.
Added(V, options, more, all, F) ==
    /\ F \in [0..Len(more) -> V] /\ F[0] = options /\ F[Len(more)] = all
    /\ \A k \in 1..Len(more) : F[k] = AddOption(F[k - 1], more[k])

LEMMA AddOptionsSteps ==
    ASSUME NEW V, NEW options \in V, NEW more \in Seq(CoapOptions),
           \A v \in V, i \in 1..Len(more) : AddOption(v, more[i]) \in V
    PROVE  \E F : Added(V, options, more, AddOptions(options, more), F)
<1> DEFINE N == Len(more)
           step == [p \in V \X (1..N) |-> AddOption(p[1], more[p[2]])]
           Fold(G) == [S \in SUBSET (DOMAIN more) |->
                          IF S = {} THEN options
                          ELSE LET x == Max(S) IN AddOption(G[S \ {x}], more[x])]
           G == CHOOSE H : H = Fold(H)
<1>1. N \in Nat
    OBVIOUS
<1>2. DOMAIN more = 1..N
    OBVIOUS
<1>3. /\ step \in [V \X (1..N) -> V]
      /\ \A v \in V, i \in 1..N : step[<<v, i>>] = AddOption(v, more[i])
    OBVIOUS
<1>4. AddOptions(options, more) = G[DOMAIN more]
    BY Zenon DEF AddOptions, FoldLeft, MapThenFoldSet
<1> HIDE DEF step, N
<1>5. \E H : H = Fold(H)
    <2>1. PICK H : FoldTable(V, options, step, N, H)
        BY <1>1, <1>3, FoldTableExists
    <2>2. ASSUME NEW S \in SUBSET (1..N)
          PROVE  H[S] = IF S = {} THEN options ELSE AddOption(H[S \ {Max(S)}], more[Max(S)])
        <3>1. S # {} => Max(S) \in 1..N /\ H[S \ {Max(S)}] \in V
            BY <1>1, <2>1, MaxOfSome DEF FoldTable
        <3> QED
            BY <1>3, <2>1, <3>1 DEF FoldTable
    <2>3. H = [S \in SUBSET (1..N) |-> H[S]]
        BY <2>1 DEF FoldTable
    <2>4. H = Fold(H)
        BY <1>2, <2>2, <2>3
    <2> QED
        BY <2>4
<1>6. G = Fold(G)
    BY <1>5
<1> HIDE DEF G
<1>7. \A S \in SUBSET (1..N) :
        G[S] = IF S = {} THEN options ELSE AddOption(G[S \ {Max(S)}], more[Max(S)])
    BY <1>2, <1>6
<1> HIDE DEF Fold
<1>8. Folds(V, options, step, N, G)
    <2>1. ASSUME NEW S \in SUBSET (1..N), S # {}, G[S \ {Max(S)}] \in V
          PROVE  G[S] = step[<<G[S \ {Max(S)}], Max(S)>>]
        BY <1>1, <1>3, <1>7, <2>1, MaxOfSome
    <2> QED
        BY <1>7, <2>1 DEF Folds
<1>9. PICK F : Passes(V, options, step, N, G[1..N], F)
    BY <1>1, <1>3, <1>8, FoldPasses
<1>10. ASSUME NEW k \in 1..N PROVE F[k] = AddOption(F[k - 1], more[k])
    <2>1. k - 1 \in 0..N /\ F[k] = step[<<F[k - 1], k>>]
        BY <1>1, <1>9 DEF Passes
    <2>2. F[k - 1] \in V
        BY <1>9, <2>1 DEF Passes
    <2> QED
        BY <1>3, <2>1, <2>2
<1>11. Added(V, options, more, AddOptions(options, more), F)
    BY <1>2, <1>4, <1>9, <1>10 DEF Passes, Added, N
<1> QED
    BY <1>11

\* removeOption(name) goes through the options.
Removed(V, options, name, all, F) ==
    /\ F \in [0..Len(options) -> V] /\ F[0] = <<>> /\ F[Len(options)] = all
    /\ \A k \in 1..Len(options) : F[k] = WithoutName(F[k - 1], options[k], name)

LEMMA RemoveOptionsSteps ==
    ASSUME NEW V, NEW name, NEW options \in Seq(CoapOptions),
           <<>> \in V,
           \A v \in V, i \in 1..Len(options) : WithoutName(v, options[i], name) \in V
    PROVE  \E F : Removed(V, options, name, RemoveOptionsNamed(options, name), F)
<1> DEFINE N == Len(options)
           step == [p \in V \X (1..N) |-> WithoutName(p[1], options[p[2]], name)]
           Fold(G) == [S \in SUBSET (DOMAIN options) |->
                          IF S = {} THEN <<>>
                          ELSE LET x == Max(S) IN WithoutName(G[S \ {x}], options[x], name)]
           G == CHOOSE H : H = Fold(H)
<1>1. N \in Nat
    OBVIOUS
<1>2. DOMAIN options = 1..N
    OBVIOUS
<1>3. /\ step \in [V \X (1..N) -> V]
      /\ \A v \in V, i \in 1..N : step[<<v, i>>] = WithoutName(v, options[i], name)
    OBVIOUS
<1>4. RemoveOptionsNamed(options, name) = G[DOMAIN options]
    BY Zenon DEF RemoveOptionsNamed, WithoutName, FoldLeft, MapThenFoldSet
<1> HIDE DEF step, N
<1>5. \E H : H = Fold(H)
    <2>1. PICK H : FoldTable(V, <<>>, step, N, H)
        BY <1>1, <1>3, FoldTableExists
    <2>2. ASSUME NEW S \in SUBSET (1..N)
          PROVE  H[S] = IF S = {} THEN <<>> ELSE WithoutName(H[S \ {Max(S)}], options[Max(S)], name)
        <3>1. S # {} => Max(S) \in 1..N /\ H[S \ {Max(S)}] \in V
            BY <1>1, <2>1, MaxOfSome DEF FoldTable
        <3> QED
            BY <1>3, <2>1, <3>1 DEF FoldTable
    <2>3. H = [S \in SUBSET (1..N) |-> H[S]]
        BY <2>1 DEF FoldTable
    <2>4. H = Fold(H)
        BY <1>2, <2>2, <2>3
    <2> QED
        BY <2>4
<1>6. G = Fold(G)
    BY <1>5
<1> HIDE DEF G
<1>7. \A S \in SUBSET (1..N) :
        G[S] = IF S = {} THEN <<>> ELSE WithoutName(G[S \ {Max(S)}], options[Max(S)], name)
    BY <1>2, <1>6
<1> HIDE DEF Fold
<1>8. Folds(V, <<>>, step, N, G)
    <2>1. ASSUME NEW S \in SUBSET (1..N), S # {}, G[S \ {Max(S)}] \in V
          PROVE  G[S] = step[<<G[S \ {Max(S)}], Max(S)>>]
        BY <1>1, <1>3, <1>7, <2>1, MaxOfSome
    <2> QED
        BY <1>7, <2>1 DEF Folds
<1>9. PICK F : Passes(V, <<>>, step, N, G[1..N], F)
    BY <1>1, <1>3, <1>8, FoldPasses
<1>10. ASSUME NEW k \in 1..N PROVE F[k] = WithoutName(F[k - 1], options[k], name)
    <2>1. k - 1 \in 0..N /\ F[k] = step[<<F[k - 1], k>>]
        BY <1>1, <1>9 DEF Passes
    <2>2. F[k - 1] \in V
        BY <1>9, <2>1 DEF Passes
    <2> QED
        BY <1>3, <2>1, <2>2
<1>11. Removed(V, options, name, RemoveOptionsNamed(options, name), F)
    BY <1>2, <1>4, <1>9, <1>10 DEF Passes, Removed, N
<1> QED
    BY <1>11

\* TextOptions goes through the texts.
Worded(V, name, texts, all, F) ==
    /\ F \in [0..Len(texts) -> V] /\ F[0] = <<>> /\ F[Len(texts)] = all
    /\ \A k \in 1..Len(texts) : F[k] = WithText(F[k - 1], texts[k], name)

LEMMA TextOptionsSteps ==
    ASSUME NEW V, NEW name, NEW texts \in Seq(Texts),
           <<>> \in V,
           \A v \in V, i \in 1..Len(texts) : WithText(v, texts[i], name) \in V
    PROVE  \E F : Worded(V, name, texts, TextOptions(name, texts), F)
<1> DEFINE N == Len(texts)
           step == [p \in V \X (1..N) |-> WithText(p[1], texts[p[2]], name)]
           Fold(G) == [S \in SUBSET (DOMAIN texts) |->
                          IF S = {} THEN <<>>
                          ELSE LET x == Max(S) IN WithText(G[S \ {x}], texts[x], name)]
           G == CHOOSE H : H = Fold(H)
<1>1. N \in Nat
    OBVIOUS
<1>2. DOMAIN texts = 1..N
    OBVIOUS
<1>3. /\ step \in [V \X (1..N) -> V]
      /\ \A v \in V, i \in 1..N : step[<<v, i>>] = WithText(v, texts[i], name)
    OBVIOUS
<1>4. TextOptions(name, texts) = G[DOMAIN texts]
    BY Zenon DEF TextOptions, WithText, FoldLeft, MapThenFoldSet
<1> HIDE DEF step, N
<1>5. \E H : H = Fold(H)
    <2>1. PICK H : FoldTable(V, <<>>, step, N, H)
        BY <1>1, <1>3, FoldTableExists
    <2>2. ASSUME NEW S \in SUBSET (1..N)
          PROVE  H[S] = IF S = {} THEN <<>> ELSE WithText(H[S \ {Max(S)}], texts[Max(S)], name)
        <3>1. S # {} => Max(S) \in 1..N /\ H[S \ {Max(S)}] \in V
            BY <1>1, <2>1, MaxOfSome DEF FoldTable
        <3> QED
            BY <1>3, <2>1, <3>1 DEF FoldTable
    <2>3. H = [S \in SUBSET (1..N) |-> H[S]]
        BY <2>1 DEF FoldTable
    <2>4. H = Fold(H)
        BY <1>2, <2>2, <2>3
    <2> QED
        BY <2>4
<1>6. G = Fold(G)
    BY <1>5
<1> HIDE DEF G
<1>7. \A S \in SUBSET (1..N) :
        G[S] = IF S = {} THEN <<>> ELSE WithText(G[S \ {Max(S)}], texts[Max(S)], name)
    BY <1>2, <1>6
<1> HIDE DEF Fold
<1>8. Folds(V, <<>>, step, N, G)
    <2>1. ASSUME NEW S \in SUBSET (1..N), S # {}, G[S \ {Max(S)}] \in V
          PROVE  G[S] = step[<<G[S \ {Max(S)}], Max(S)>>]
        BY <1>1, <1>3, <1>7, <2>1, MaxOfSome
    <2> QED
        BY <1>7, <2>1 DEF Folds
<1>9. PICK F : Passes(V, <<>>, step, N, G[1..N], F)
    BY <1>1, <1>3, <1>8, FoldPasses
<1>10. ASSUME NEW k \in 1..N PROVE F[k] = WithText(F[k - 1], texts[k], name)
    <2>1. k - 1 \in 0..N /\ F[k] = step[<<F[k - 1], k>>]
        BY <1>1, <1>9 DEF Passes
    <2>2. F[k - 1] \in V
        BY <1>9, <2>1 DEF Passes
    <2> QED
        BY <1>3, <2>1, <2>2
<1>11. Worded(V, name, texts, TextOptions(name, texts), F)
    BY <1>2, <1>4, <1>9, <1>10 DEF Passes, Worded, N
<1> QED
    BY <1>11

\* NormalizedPath goes through the segments.
Resolved(V, path, all, F) ==
    /\ F \in [0..Len(path) -> V] /\ F[0] = <<>> /\ F[Len(path)] = all
    /\ \A k \in 1..Len(path) : F[k] = WithSegment(F[k - 1], path[k])

LEMMA NormalizedSteps ==
    ASSUME NEW V, NEW path \in Seq(Texts),
           <<>> \in V,
           \A v \in V, i \in 1..Len(path) : WithSegment(v, path[i]) \in V
    PROVE  \E F : Resolved(V, path, NormalizedPath(path), F)
<1> DEFINE N == Len(path)
           step == [p \in V \X (1..N) |-> WithSegment(p[1], path[p[2]])]
           Fold(G) == [S \in SUBSET (DOMAIN path) |->
                          IF S = {} THEN <<>>
                          ELSE LET x == Max(S) IN WithSegment(G[S \ {x}], path[x])]
           G == CHOOSE H : H = Fold(H)
<1>1. N \in Nat
    OBVIOUS
<1>2. DOMAIN path = 1..N
    OBVIOUS
<1>3. /\ step \in [V \X (1..N) -> V]
      /\ \A v \in V, i \in 1..N : step[<<v, i>>] = WithSegment(v, path[i])
    OBVIOUS
<1>4. NormalizedPath(path) = G[DOMAIN path]
    BY Zenon DEF NormalizedPath, WithSegment, FoldLeft, MapThenFoldSet
<1> HIDE DEF step, N
<1>5. \E H : H = Fold(H)
    <2>1. PICK H : FoldTable(V, <<>>, step, N, H)
        BY <1>1, <1>3, FoldTableExists
    <2>2. ASSUME NEW S \in SUBSET (1..N)
          PROVE  H[S] = IF S = {} THEN <<>> ELSE WithSegment(H[S \ {Max(S)}], path[Max(S)])
        <3>1. S # {} => Max(S) \in 1..N /\ H[S \ {Max(S)}] \in V
            BY <1>1, <2>1, MaxOfSome DEF FoldTable
        <3> QED
            BY <1>3, <2>1, <3>1 DEF FoldTable
    <2>3. H = [S \in SUBSET (1..N) |-> H[S]]
        BY <2>1 DEF FoldTable
    <2>4. H = Fold(H)
        BY <1>2, <2>2, <2>3
    <2> QED
        BY <2>4
<1>6. G = Fold(G)
    BY <1>5
<1> HIDE DEF G
<1>7. \A S \in SUBSET (1..N) :
        G[S] = IF S = {} THEN <<>> ELSE WithSegment(G[S \ {Max(S)}], path[Max(S)])
    BY <1>2, <1>6
<1> HIDE DEF Fold
<1>8. Folds(V, <<>>, step, N, G)
    <2>1. ASSUME NEW S \in SUBSET (1..N), S # {}, G[S \ {Max(S)}] \in V
          PROVE  G[S] = step[<<G[S \ {Max(S)}], Max(S)>>]
        BY <1>1, <1>3, <1>7, <2>1, MaxOfSome
    <2> QED
        BY <1>7, <2>1 DEF Folds
<1>9. PICK F : Passes(V, <<>>, step, N, G[1..N], F)
    BY <1>1, <1>3, <1>8, FoldPasses
<1>10. ASSUME NEW k \in 1..N PROVE F[k] = WithSegment(F[k - 1], path[k])
    <2>1. k - 1 \in 0..N /\ F[k] = step[<<F[k - 1], k>>]
        BY <1>1, <1>9 DEF Passes
    <2>2. F[k - 1] \in V
        BY <1>9, <2>1 DEF Passes
    <2> QED
        BY <1>3, <2>1, <2>2
<1>11. Resolved(V, path, NormalizedPath(path), F)
    BY <1>2, <1>4, <1>9, <1>10 DEF Passes, Resolved, N
<1> QED
    BY <1>11

(***************************************************************************)
(* The lists of options stay sorted, whatever is done to them; lists that  *)
(* are not sorted stay lists.                                              *)
(***************************************************************************)

ListsOf(ordered) == {list \in Seq(CoapOptions) : ordered => Sorted(list)}
SortedLists == {list \in Seq(CoapOptions) : Sorted(list)}

LEMMA AddOptionListed ==
    ASSUME NEW ordered \in BOOLEAN, NEW options \in ListsOf(ordered), NEW option \in CoapOptions
    PROVE  AddOption(options, option) \in ListsOf(ordered)
<1>1. options \in Seq(CoapOptions)
    BY DEF ListsOf
<1>2. AddOption(options, option) \in Seq(CoapOptions)
    <2>1. PICK p \in 1..(Len(options) + 1) : Inserted(AddOption(options, option), options, option, p)
        BY <1>1, AddedAt
    <2> QED
        BY <2>1 DEF Inserted
<1>3. ordered => Sorted(AddOption(options, option))
    BY <1>1, AddOptionKeepsOrder DEF ListsOf
<1> QED
    BY <1>2, <1>3 DEF ListsOf

\* Nothing in a list that is not in another one.
From(part, whole) == \A i \in 1..Len(part) : \E j \in 1..Len(whole) : part[i] = whole[j]

\* AddOptions: one after another.
LEMMA AddOptionsKeepsOrder ==
    ASSUME NEW ordered \in BOOLEAN, NEW options \in ListsOf(ordered), NEW more \in Seq(CoapOptions)
    PROVE  AddOptions(options, more) \in ListsOf(ordered)
<1>1. \A v \in ListsOf(ordered), i \in 1..Len(more) : AddOption(v, more[i]) \in ListsOf(ordered)
    BY ElementOfSeq, AddOptionListed
<1>2. PICK F : Added(ListsOf(ordered), options, more, AddOptions(options, more), F)
    BY <1>1, AddOptionsSteps
<1> QED
    BY <1>2 DEF Added

\* removeOption(name) keeps a part of the options, in their order.
LEMMA RemoveOptionsKeepsOrder ==
    ASSUME NEW ordered \in BOOLEAN, NEW options \in ListsOf(ordered), NEW name
    PROVE  /\ RemoveOptionsNamed(options, name) \in ListsOf(ordered)
           /\ From(RemoveOptionsNamed(options, name), options)
<1> DEFINE V == Seq(CoapOptions)
           N == Len(options)
<1>1. N \in Nat /\ options \in V /\ \A i \in 1..N : options[i] \in CoapOptions
    BY DEF ListsOf
<1>2. \A v \in V, i \in 1..N : WithoutName(v, options[i], name) \in V
    BY <1>1 DEF WithoutName
<1>3. <<>> \in V
    OBVIOUS
<1> HIDE DEF V
<1>4. PICK F : Removed(V, options, name, RemoveOptionsNamed(options, name), F)
    BY <1>1, <1>2, <1>3, RemoveOptionsSteps DEF V
<1> DEFINE Part(k) == /\ ordered => Sorted(F[k])
                      /\ \A i \in 1..Len(F[k]) : \E j \in 1..k : F[k][i] = options[j]
           P == {k \in Nat : k <= N => Part(k)}
<1>5. 0 \in P
    <2>1. F[0] = <<>>
        BY <1>4 DEF Removed
    <2> QED
        BY <2>1 DEF Sorted
<1>6. ASSUME NEW k \in P PROVE k + 1 \in P
    <2> SUFFICES ASSUME k + 1 <= N PROVE Part(k + 1)
        OBVIOUS
    <2>1. k \in 0..N /\ k + 1 \in 1..N /\ (k + 1) - 1 = k /\ Part(k)
        BY <1>1
    <2>2. F[k + 1] = WithoutName(F[k], options[k + 1], name) /\ F[k] \in Seq(CoapOptions)
        BY <2>1, <1>4 DEF Removed, V
    <2>3. CASE F[k + 1] = F[k]
        <3>1. \A i \in 1..Len(F[k]) : \E j \in 1..(k + 1) : F[k][i] = options[j]
            BY <2>1
        <3> QED
            BY <2>1, <2>3, <3>1
    <2>4. CASE F[k + 1] = Append(F[k], options[k + 1])
        <3> DEFINE old == F[k]
                   new == F[k + 1]
        <3>1. /\ new \in Seq(CoapOptions) /\ Len(new) = Len(old) + 1 /\ Len(old) \in Nat
              /\ new[Len(old) + 1] = options[k + 1]
              /\ \A i \in 1..Len(old) : new[i] = old[i]
            BY <1>1, <2>1, <2>2, <2>4
        <3>2. ASSUME ordered PROVE \A i \in 1..Len(old) : old[i].name <= options[k + 1].name
            <4> TAKE i \in 1..Len(old)
            <4>1. PICK j \in 1..k : old[i] = options[j]
                BY <2>1
            <4>2. j \in DOMAIN options /\ k + 1 \in DOMAIN options /\ j < k + 1
                BY <1>1, <2>1
            <4> QED
                BY <3>2, <4>1, <4>2 DEF ListsOf, Sorted
        <3>3. ASSUME ordered PROVE \A i, j \in 1..Len(old) : i < j => old[i].name <= old[j].name
            BY <2>1, <2>2, <3>3 DEF Sorted
        <3> HIDE DEF old, new
        <3>4. ASSUME ordered, NEW i \in 1..(Len(old) + 1), NEW j \in 1..(Len(old) + 1), i < j
              PROVE  new[i].name <= new[j].name
            <4>1. i \in 1..Len(old)
                BY <3>1, <3>4
            <4>2. CASE j = Len(old) + 1
                BY <3>1, <3>2, <3>4, <4>1, <4>2
            <4>3. CASE j # Len(old) + 1
                <5>1. j \in 1..Len(old)
                    BY <3>1, <4>3
                <5> QED
                    BY <3>1, <3>3, <3>4, <4>1, <5>1
            <4> QED
                BY <4>2, <4>3
        <3>5. ordered => Sorted(new)
            BY <3>1, <3>4 DEF Sorted
        <3>6. ASSUME NEW i \in 1..(Len(old) + 1)
              PROVE  \E j \in 1..(k + 1) : new[i] = options[j]
            <4>1. CASE i = Len(old) + 1
                BY <2>1, <3>1, <4>1
            <4>2. CASE i # Len(old) + 1
                <5>1. i \in 1..Len(old)
                    BY <3>1, <4>2
                <5>2. PICK j \in 1..k : old[i] = options[j]
                    BY <2>1, <5>1 DEF old
                <5> QED
                    BY <2>1, <3>1, <5>1, <5>2
            <4> QED
                BY <4>1, <4>2
        <3> QED
            BY <3>1, <3>5, <3>6 DEF new
    <2> QED
        BY <2>2, <2>3, <2>4 DEF WithoutName
<1>7. P = Nat
    <2> HIDE DEF P
    <2>1. P \in SUBSET Nat
        BY DEF P
    <2> QED
        BY <1>5, <1>6, <2>1, Induction
<1>8. (ordered => Sorted(F[N])) /\ From(F[N], options)
    <2>1. N \in P /\ N <= N
        BY <1>1, <1>7
    <2> QED
        BY <2>1 DEF From
<1> QED
    BY <1>1, <1>4, <1>8 DEF Removed, ListsOf, V

\* removeOption(option) takes one out.
LEMMA RemoveOptionKeepsOrder ==
    ASSUME NEW ordered \in BOOLEAN, NEW options \in ListsOf(ordered), NEW option
    PROVE  /\ RemoveOption(options, option) \in ListsOf(ordered)
           /\ From(RemoveOption(options, option), options)
<1> DEFINE I == {i \in 1..Len(options) : options[i] = option}
           p == Min(I)
<1>1. options \in Seq(CoapOptions) /\ Len(options) \in Nat
    BY DEF ListsOf
<1>2. CASE I = {}
    <2>1. RemoveOption(options, option) = options
        BY <1>2 DEF RemoveOption, RemoveFirst
    <2> QED
        BY <2>1 DEF From
<1>3. CASE I # {}
    <2>1. RemoveOption(options, option) = RemoveAt(options, p)
        <3>1. SelectInSeq(options, LAMBDA v : v = option) = p
            BY <1>3 DEF SelectInSeq
        <3>2. \E i \in 1..Len(options) : options[i] = option
            BY <1>3
        <3> HIDE DEF p
        <3> QED
            BY <3>1, <3>2 DEF RemoveOption, RemoveFirst
    <2>2. p \in 1..Len(options)
        <3>1. I \in SUBSET Nat
            BY <1>1
        <3>2. \E i \in I : \A j \in I : i <= j
            <4> HIDE DEF I
            <4> QED
                BY <1>3, <3>1, LeastNumber
        <3> QED
            BY <3>2 DEF Min
    <2> HIDE DEF p
    <2> DEFINE before == SubSeq(options, 1, p - 1)
               after == SubSeq(options, p + 1, Len(options))
               rest == before \o after
    <2>3. /\ before \in Seq(CoapOptions) /\ Len(before) = p - 1
          /\ \A i \in 1..(p - 1) : before[i] = options[i]
        BY <1>1, <2>2
    <2>4. /\ after \in Seq(CoapOptions) /\ Len(after) = Len(options) - p
          /\ \A i \in 1..(Len(options) - p) : after[i] = options[p + i]
        BY <1>1, <2>2
    <2> HIDE DEF before, after
    <2>5. /\ rest \in Seq(CoapOptions)
          /\ Len(rest) = Len(before) + Len(after)
          /\ \A i \in 1..(Len(before) + Len(after)) :
                rest[i] = IF i <= Len(before) THEN before[i] ELSE after[i - Len(before)]
        BY <2>3, <2>4, ConcatProperties, Zenon
    <2> HIDE DEF rest
    <2>6. Len(rest) = Len(options) - 1
        BY <1>1, <2>2, <2>3, <2>4, <2>5
    <2>7. ASSUME NEW i \in 1..(Len(options) - 1)
          PROVE  rest[i] = IF i < p THEN options[i] ELSE options[i + 1]
        <3>1. rest[i] = IF i <= p - 1 THEN before[i] ELSE after[i - (p - 1)]
            <4>1. Len(before) = p - 1 /\ Len(before) + Len(after) = Len(options) - 1
                BY <1>1, <2>2, <2>3, <2>4
            <4>2. rest[i] = IF i <= Len(before) THEN before[i] ELSE after[i - Len(before)]
                BY <2>5, <4>1
            <4> QED
                BY <4>1, <4>2
        <3>2. CASE i < p
            BY <2>2, <2>3, <3>1, <3>2
        <3>3. CASE ~ (i < p)
            <4>1. i - (p - 1) \in 1..(Len(options) - p) /\ p + (i - (p - 1)) = i + 1
                BY <1>1, <2>2, <3>3
            <4>2. rest[i] = after[i - (p - 1)]
                BY <2>2, <3>1, <3>3
            <4> QED
                BY <2>4, <3>3, <4>1, <4>2
        <3> QED
            BY <3>2, <3>3
    <2>8. ordered => Sorted(rest)
        <3>0. DOMAIN rest = 1..(Len(options) - 1)
            BY <2>5, <2>6
        <3> SUFFICES ASSUME ordered, NEW i \in DOMAIN rest, NEW j \in DOMAIN rest, i < j
                     PROVE  rest[i].name <= rest[j].name
            BY DEF Sorted
        <3> DEFINE a == IF i < p THEN i ELSE i + 1
                   b == IF j < p THEN j ELSE j + 1
        <3>1. a \in 1..Len(options) /\ b \in 1..Len(options) /\ a < b
            BY <1>1, <2>2, <3>0
        <3>2. rest[i] = options[a] /\ rest[j] = options[b]
            BY <2>7, <3>0
        <3> QED
            BY <1>1, <3>1, <3>2 DEF ListsOf, Sorted
    <2>9. From(rest, options)
        <3> SUFFICES ASSUME NEW i \in 1..Len(rest) PROVE \E j \in 1..Len(options) : rest[i] = options[j]
            BY DEF From
        <3>1. i \in 1..(Len(options) - 1)
            BY <2>6
        <3>2. i \in 1..Len(options) /\ i + 1 \in 1..Len(options)
            BY <1>1, <3>1
        <3> QED
            BY <2>7, <3>1, <3>2
    <2>10. RemoveOption(options, option) = rest
        BY <2>1 DEF RemoveAt, rest, before, after
    <2> QED
        BY <2>5, <2>8, <2>9, <2>10 DEF ListsOf
<1> QED
    BY <1>2, <1>3

(***************************************************************************)
(* The options made of a URL.                                              *)
(***************************************************************************)

\* A linear recursion with a step that is a function.
LEMMA PassesExist ==
    ASSUME NEW N \in Nat, NEW V, NEW base \in V, NEW step \in [V \X (1..N) -> V]
    PROVE  \E last : \E F : Passes(V, base, step, N, last, F)
<1>1. PICK G : FoldTable(V, base, step, N, G)
    BY FoldTableExists
<1>2. Folds(V, base, step, N, G)
    BY <1>1 DEF FoldTable, Folds
<1> QED
    BY <1>2, FoldPasses

\* FlattenSeq appends one sequence after another.
Flattened(S, seqs, all, F) ==
    /\ F \in [0..Len(seqs) -> Seq(S)] /\ F[0] = <<>> /\ F[Len(seqs)] = all
    /\ \A k \in 1..Len(seqs) : F[k] = F[k - 1] \o seqs[k]

LEMMA FlattenSteps ==
    ASSUME NEW S, NEW seqs \in Seq(Seq(S))
    PROVE  \E F : Flattened(S, seqs, FlattenSeq(seqs), F)
<1> DEFINE N == Len(seqs)
           V == Seq(S)
           step == [p \in V \X (1..N) |-> p[1] \o seqs[p[2]]]
           Flat(G) == [i \in 1..Len(seqs) |-> IF i = 1 THEN seqs[i] ELSE G[i - 1] \o seqs[i]]
           G == CHOOSE H : H = Flat(H)
<1>1. N \in Nat
    OBVIOUS
<1>2. \A i \in 1..N : seqs[i] \in Seq(S)
    OBVIOUS
<1>3. <<>> \in V
    OBVIOUS
<1>4. /\ step \in [V \X (1..N) -> V]
      /\ \A v \in V, i \in 1..N : step[<<v, i>>] = v \o seqs[i]
    <2>1. \A v \in V, i \in 1..N : v \o seqs[i] \in V
        BY <1>2, ConcatProperties
    <2> HIDE DEF V
    <2> QED
        BY <2>1
<1>5. CASE N = 0
    <2>1. FlattenSeq(seqs) = <<>>
        BY <1>5 DEF FlattenSeq
    <2> DEFINE F == [k \in 0..0 |-> <<>>]
    <2>2. Flattened(S, seqs, FlattenSeq(seqs), F)
        BY <1>5, <2>1 DEF Flattened
    <2> QED
        BY <2>2
<1>6. CASE N # 0
    <2>1. FlattenSeq(seqs) = G[Len(seqs)]
        BY <1>6, Zenon DEF FlattenSeq
    <2> HIDE DEF step, V, N
    <2>2. \E H : H = Flat(H)
        <3>1. PICK last, H : Passes(V, <<>>, step, N, last, H)
            BY <1>1, <1>3, <1>4, PassesExist
        <3>2. ASSUME NEW i \in 1..N PROVE H[i] = H[i - 1] \o seqs[i] /\ H[i - 1] \in Seq(S)
            <4>1. i - 1 \in 0..N /\ H[i] = step[<<H[i - 1], i>>]
                BY <1>1, <3>1 DEF Passes
            <4>2. H[i - 1] \in V
                BY <3>1, <4>1 DEF Passes
            <4> QED
                BY <1>4, <4>1, <4>2 DEF V
        <3>3. H[0] = <<>>
            BY <3>1 DEF Passes
        <3> DEFINE K == [i \in 1..N |-> H[i]]
        <3>4. ASSUME NEW i \in 1..N PROVE K[i] = IF i = 1 THEN seqs[i] ELSE K[i - 1] \o seqs[i]
            <4>1. CASE i = 1
                <5>1. K[i] = <<>> \o seqs[i]
                    <6>1. i - 1 = 0 /\ H[i - 1] = <<>>
                        BY <3>3, <4>1
                    <6>2. H[i] = <<>> \o seqs[i]
                        BY <3>2, <6>1
                    <6> QED
                        BY <6>2
                <5> QED
                    BY <1>2, <4>1, <5>1, ConcatEmptySeq
            <4>2. CASE i # 1
                <5>1. i - 1 \in 1..N
                    BY <1>1, <4>2
                <5> QED
                    BY <3>2, <4>2, <5>1
            <4> QED
                BY <4>1, <4>2
        <3>5. K = [i \in 1..N |-> K[i]]
            OBVIOUS
        <3> HIDE DEF K
        <3>6. K = Flat(K)
            BY <3>4, <3>5 DEF N
        <3> QED
            BY <3>6
    <2>3. G = Flat(G)
        BY <2>2
    <2> HIDE DEF G
    <2>4. \A i \in 1..N : G[i] = IF i = 1 THEN seqs[i] ELSE G[i - 1] \o seqs[i]
        BY <2>3 DEF N
    <2> DEFINE F == [k \in 0..N |-> IF k = 0 THEN <<>> ELSE G[k]]
               P == {k \in Nat : k <= N => F[k] \in Seq(S)}
    <2>5. ASSUME NEW k \in 1..N PROVE F[k] = F[k - 1] \o seqs[k]
        <3>1. k \in 0..N /\ k - 1 \in 0..N /\ k # 0
            BY <1>1
        <3>2. CASE k = 1
            <4>1. F[k] = seqs[k] /\ F[k - 1] = <<>>
                BY <2>4, <3>1, <3>2
            <4> QED
                BY <1>2, <3>2, <4>1, ConcatEmptySeq
        <3>3. CASE k # 1
            <4>1. k - 1 # 0
                BY <3>3
            <4> QED
                BY <2>4, <3>1, <3>3, <4>1
        <3> QED
            BY <3>2, <3>3
    <2>6. F[0] = <<>> /\ F[N] = FlattenSeq(seqs)
        BY <1>1, <1>6, <2>1 DEF N
    <2>7. F = [k \in 0..N |-> F[k]]
        OBVIOUS
    <2> HIDE DEF F
    <2>8. 0 \in P
        BY <2>6, EmptySeq
    <2>9. ASSUME NEW k \in P PROVE k + 1 \in P
        <3> SUFFICES ASSUME k + 1 <= N PROVE F[k + 1] \in Seq(S)
            OBVIOUS
        <3>1. k + 1 \in 1..N /\ (k + 1) - 1 = k /\ F[k] \in Seq(S)
            BY <1>1
        <3>2. F[k + 1] = F[k] \o seqs[k + 1] /\ seqs[k + 1] \in Seq(S)
            BY <1>2, <2>5, <3>1
        <3> QED
            BY <3>1, <3>2
    <2>10. P = Nat
        <3> HIDE DEF P
        <3>1. P \in SUBSET Nat
            BY DEF P
        <3> QED
            BY <2>8, <2>9, <3>1, Induction
    <2>11. \A k \in 0..N : F[k] \in Seq(S)
        BY <1>1, <2>10
    <2>12. F \in [0..N -> Seq(S)]
        BY <2>7, <2>11
    <2>13. Flattened(S, seqs, FlattenSeq(seqs), F)
        BY <2>5, <2>6, <2>12 DEF Flattened, N
    <2> QED
        BY <2>13
<1> QED
    BY <1>5, <1>6

LEMMA FlattenType ==
    ASSUME NEW S, NEW seqs \in Seq(Seq(S))
    PROVE  FlattenSeq(seqs) \in Seq(S)
<1>1. PICK F : Flattened(S, seqs, FlattenSeq(seqs), F)
    BY FlattenSteps
<1> QED
    BY <1>1 DEF Flattened

LEMMA Ports ==
    /\ DefaultPort \in UInt16 /\ DefaultSecurePort \in UInt16 /\ NoPort \notin UInt16
    /\ UInt16 \subseteq Nat
    BY DEF UInt16, DefaultPort, DefaultSecurePort, NoPort

\* quint32 to bytes: what setValue(quint32) appends are bytes.
LEMMA UintBytesType ==
    \A n \in Nat : /\ UintBytes(n) \in Seq(Byte)
                   /\ UintBytes(n) = IF n = 0 THEN <<>> ELSE <<n % 256>> \o UintBytes(n \div 256)
<1> DEFINE Table(n, f) == /\ f \in [0..n -> Seq(Byte)] /\ f[0] = <<>>
                          /\ \A k \in 1..n : f[k] = <<k % 256>> \o f[k \div 256]
           P == {n \in Nat : \E f : Table(n, f)}
<1>1. \A k \in Nat \ {0} : k \div 256 \in 0..(k - 1) /\ k % 256 \in Byte
    BY DEF Byte
<1>2. \A k \in Nat \ {0}, s \in Seq(Byte) : <<k % 256>> \o s \in Seq(Byte)
    <2> TAKE k \in Nat \ {0}, s \in Seq(Byte)
    <2>1. k % 256 \in Byte
        BY <1>1
    <2>2. <<k % 256>> \in Seq(Byte)
        BY <2>1
    <2> QED
        BY <2>2, ConcatProperties
<1>3. 0 \in P
    <2>1. Table(0, [k \in 0..0 |-> <<>>])
        OBVIOUS
    <2> HIDE DEF Table
    <2> QED
        BY <2>1
<1>4. ASSUME NEW n \in P PROVE n + 1 \in P
    <2>1. PICK f : Table(n, f)
        OBVIOUS
    <2> DEFINE g == [k \in 0..(n + 1) |-> IF k = n + 1 THEN <<k % 256>> \o f[k \div 256] ELSE f[k]]
    <2>2. n \in Nat /\ n + 1 \in Nat \ {0} /\ (n + 1) \div 256 \in 0..n
        BY <1>1
    <2>3. ASSUME NEW k \in 1..(n + 1)
          PROVE  g[k] = <<k % 256>> \o g[k \div 256] /\ g[k] \in Seq(Byte)
        <3>1. k \in Nat \ {0} /\ k \div 256 \in 0..(k - 1) /\ k \in 0..(n + 1)
            BY <1>1, <2>2
        <3>2. k \div 256 \in 0..n /\ k \div 256 # n + 1 /\ k \div 256 \in 0..(n + 1)
            BY <2>2, <3>1
        <3>3. g[k \div 256] = f[k \div 256] /\ f[k \div 256] \in Seq(Byte)
            BY <2>1, <3>2
        <3>4. g[k] = <<k % 256>> \o f[k \div 256]
            <4>1. CASE k = n + 1
                BY <4>1, <3>1
            <4>2. CASE k # n + 1
                <5>1. k \in 1..n
                    BY <2>2, <4>2
                <5> QED
                    BY <2>1, <3>1, <4>2, <5>1
            <4> QED
                BY <4>1, <4>2
        <3>5. <<k % 256>> \o f[k \div 256] \in Seq(Byte)
            BY <1>2, <3>1, <3>3
        <3> QED
            BY <3>3, <3>4, <3>5
    <2>4. g[0] = <<>>
        BY <2>1, <2>2
    <2>5. g = [k \in 0..(n + 1) |-> g[k]]
        OBVIOUS
    <2> HIDE DEF g
    <2>6. \A k \in 0..(n + 1) : g[k] \in Seq(Byte)
        <3> TAKE k \in 0..(n + 1)
        <3>1. CASE k = 0
            BY <2>4, <3>1, EmptySeq
        <3>2. CASE k # 0
            <4>1. k \in 1..(n + 1)
                BY <2>2, <3>2
            <4> QED
                BY <2>3, <4>1
        <3> QED
            BY <3>1, <3>2
    <2>7. Table(n + 1, g)
        BY <2>3, <2>4, <2>5, <2>6
    <2> HIDE DEF Table
    <2> QED
        BY <2>2, <2>7
<1>5. P = Nat
    <2> HIDE DEF P
    <2>1. P \in SUBSET Nat
        BY DEF P
    <2> QED
        BY <1>3, <1>4, <2>1, Induction
<1> DEFINE table(n) == CHOOSE f : Table(n, f)
           d == [n \in Nat |-> table(n)[n]]
<1>6. \A n \in Nat : Table(n, table(n))
    <2> HIDE DEF Table
    <2> TAKE n \in Nat
    <2>1. n \in P
        BY <1>5
    <2> QED
        BY <2>1
\* Tables of different lengths agree.
<1>7. ASSUME NEW m \in Nat, NEW k \in 0..m PROVE table(m)[k] = table(k)[k]
    <2> DEFINE f == table(m)
               g == table(k)
               Q == {j \in Nat : \A i \in 0..j : i <= k => f[i] = g[i]}
    <2>1. Table(m, f) /\ Table(k, g)
        <3> HIDE DEF Table, table
        <3> QED
            BY <1>6
    <2> HIDE DEF f, g, table
    <2>2. 0 \in Q
        BY <2>1
    <2>3. ASSUME NEW j \in Q PROVE j + 1 \in Q
        <3> SUFFICES ASSUME j + 1 <= k PROVE f[j + 1] = g[j + 1]
            OBVIOUS
        <3>1. j + 1 \in 1..k /\ j + 1 \in 1..m /\ (j + 1) \div 256 \in 0..j /\ j + 1 \in Nat \ {0}
            BY <1>1
        <3>2. f[(j + 1) \div 256] = g[(j + 1) \div 256]
            BY <3>1
        <3>3. f[j + 1] = <<(j + 1) % 256>> \o f[(j + 1) \div 256]
            BY <2>1, <3>1
        <3>4. g[j + 1] = <<(j + 1) % 256>> \o g[(j + 1) \div 256]
            BY <2>1, <3>1
        <3> QED
            BY <3>2, <3>3, <3>4
    <2>4. Q = Nat
        <3> HIDE DEF Q
        <3>1. Q \in SUBSET Nat
            BY DEF Q
        <3> QED
            BY <2>2, <2>3, <3>1, Induction
    <2>5. f[k] = g[k]
        BY <2>4
    <2> QED
        BY <2>5 DEF f, g
<1>8. ASSUME NEW n \in Nat
      PROVE  d[n] = (IF n = 0 THEN <<>> ELSE <<n % 256>> \o d[n \div 256]) /\ d[n] \in Seq(Byte)
    <2>1. Table(n, table(n))
        BY <1>6
    <2> HIDE DEF table
    <2>2. CASE n = 0
        BY <2>1, <2>2, EmptySeq
    <2>3. CASE n # 0
        <3>1. n \in 1..n /\ n \in 0..n /\ n \div 256 \in 0..(n - 1)
            BY <1>1, <2>3
        <3>2. n \div 256 \in Nat /\ n \div 256 \in 0..n
            BY <3>1
        <3>3. table(n)[n \div 256] = table(n \div 256)[n \div 256]
            BY <1>7, <3>2
        <3>4. table(n)[n] = <<n % 256>> \o table(n)[n \div 256] /\ table(n)[n] \in Seq(Byte)
            BY <2>1, <3>1
        <3> QED
            BY <2>3, <3>2, <3>3, <3>4
    <2> QED
        BY <2>2, <2>3
<1> DEFINE Eq(B) == [rest \in Nat |-> IF rest = 0 THEN <<>> ELSE <<rest % 256>> \o B[rest \div 256]]
           B == CHOOSE H : H = Eq(H)
<1>9. d = Eq(d)
    <2>1. d = [n \in Nat |-> d[n]]
        <3> HIDE DEF table
        <3> QED
            BY DEF d
    <2> HIDE DEF d
    <2> QED
        BY <1>8, <2>1
<1> HIDE DEF d
<1>10. B = Eq(B)
    <2> HIDE DEF Eq
    <2> QED
        BY <1>9
<1>11. ASSUME NEW n \in Nat PROVE UintBytes(n) = B[n]
    BY Zenon DEF UintBytes
<1> HIDE DEF B
<1>12. \A n \in Nat : B[n] = IF n = 0 THEN <<>> ELSE <<n % 256>> \o B[n \div 256]
    BY <1>10
<1> DEFINE R == {n \in Nat : \A i \in 0..n : B[i] \in Seq(Byte)}
<1>13. R = Nat
    <2>1. 0 \in R
        <3>1. B[0] = <<>>
            BY <1>12
        <3>2. \A i \in 0..0 : i = 0
            OBVIOUS
        <3>3. B[0] \in Seq(Byte)
            BY <3>1, EmptySeq
        <3> QED
            BY <3>2, <3>3
    <2>2. ASSUME NEW n \in R PROVE n + 1 \in R
        <3>1. n + 1 \in Nat \ {0} /\ (n + 1) \div 256 \in 0..n
            BY <1>1
        <3>2. B[n + 1] = <<(n + 1) % 256>> \o B[(n + 1) \div 256] /\ B[(n + 1) \div 256] \in Seq(Byte)
            <4> DEFINE m == n + 1
                       high == (n + 1) \div 256
            <4>1. m \in Nat /\ m # 0 /\ high = m \div 256 /\ high \in 0..n
                BY <3>1
            <4>2. \A i \in 0..n : B[i] \in Seq(Byte)
                OBVIOUS
            <4> HIDE DEF m, high, R
            <4>3. B[m] = <<m % 256>> \o B[high]
                BY <1>12, <4>1, Zenon
            <4>4. B[high] \in Seq(Byte)
                BY <4>1, <4>2, Zenon
            <4> QED
                BY <4>3, <4>4 DEF m, high
        <3>3. B[n + 1] \in Seq(Byte)
            BY <1>2, <3>1, <3>2
        <3> QED
            BY <3>3
    <2> HIDE DEF R
    <2>3. R \in SUBSET Nat
        BY DEF R
    <2> QED
        BY <2>1, <2>2, <2>3, Induction
<1>14. \A n \in Nat : B[n] \in Seq(Byte)
    <2> TAKE n \in Nat
    <2>1. n \in R
        BY <1>13
    <2> QED
        BY <2>1
<1> QED
    <2> TAKE n \in Nat
    <2>1. UintBytes(n) = B[n] /\ B[n] \in Seq(Byte)
        BY <1>11, <1>14
    <2>2. n # 0 => n \div 256 \in Nat
        BY <1>1
    <2>3. n # 0 => UintBytes(n \div 256) = B[n \div 256]
        BY <1>11, <2>2
    <2> QED
        BY <1>12, <2>1, <2>3

LEMMA NormalizedPathType ==
    ASSUME NEW path \in Seq(Texts)
    PROVE  NormalizedPath(path) \in Seq(Texts)
<1> DEFINE V == Seq(Texts)
<1>1. <<>> \in V
    OBVIOUS
<1>2. \A v \in V, i \in 1..Len(path) : WithSegment(v, path[i]) \in V
    <2> TAKE v \in V, i \in 1..Len(path)
    <2>1. path[i] \in Texts
        OBVIOUS
    <2>2. Append(v, path[i]) \in V
        BY <2>1
    <2>3. Len(v) > 1 => Front(v) \in V
        <3>1. Len(v) \in Nat /\ \A j \in 1..Len(v) : v[j] \in Texts
            OBVIOUS
        <3>2. SubSeq(v, 1, Len(v) - 1) \in Seq(Texts)
            BY <3>1, SubSeqProperties
        <3> QED
            BY <3>2 DEF Front
    <2> QED
        BY <2>2, <2>3 DEF WithSegment
<1> HIDE DEF V
<1>3. PICK F : Resolved(V, path, NormalizedPath(path), F)
    BY <1>1, <1>2, NormalizedSteps
<1> QED
    BY <1>3 DEF Resolved, V

LEMMA OptionType ==
    ASSUME NEW name \in {"UriHost", "UriPort", "UriPath", "UriQuery", "ProxyUri", "Observe"},
           NEW value \in Seq(Byte)
    PROVE  Option(name, value) \in CoapOptions
<1>1. OptionNumber[name] \in Nat
    BY DEF OptionNumber
<1> QED
    BY <1>1 DEF Option, CoapOptions

LEMMA Utf8Type == \A t \in Texts : Utf8[t] \in Seq(Byte)
    BY TextAssumption

LEMMA TextOptionsType ==
    ASSUME NEW name \in {"UriPath", "UriQuery"}, NEW texts \in Seq(Texts)
    PROVE  TextOptions(name, texts) \in Seq(CoapOptions)
<1> DEFINE V == Seq(CoapOptions)
<1>1. <<>> \in V
    OBVIOUS
<1>2. \A v \in V, i \in 1..Len(texts) : WithText(v, texts[i], name) \in V
    <2> TAKE v \in V, i \in 1..Len(texts)
    <2>1. texts[i] \in Texts
        BY ElementOfSeq
    <2>2. Option(name, Utf8[texts[i]]) \in CoapOptions
        BY <2>1, Utf8Type, OptionType
    <2>3. Append(v, Option(name, Utf8[texts[i]])) \in V
        BY <2>2
    <2> QED
        BY <2>3 DEF WithText
<1> HIDE DEF V
<1>3. PICK F : Worded(V, name, texts, TextOptions(name, texts), F)
    BY <1>1, <1>2, TextOptionsSteps
<1> QED
    BY <1>3 DEF Worded, V

LEMMA UriOptionsType ==
    ASSUME NEW url \in URLs, url.port \in UInt16
    PROVE  UriOptions(url) \in Seq(CoapOptions)
<1>1. url.host \in Texts /\ url.path \in Seq(Texts) /\ url.query \in Seq(Texts)
    BY DEF URLs
<1>2. UriHostOption(url) \in Seq(CoapOptions)
    <2>1. Option("UriHost", Utf8[url.host]) \in CoapOptions
        BY <1>1, Utf8Type, OptionType
    <2>2. <<Option("UriHost", Utf8[url.host])>> \in Seq(CoapOptions)
        BY <2>1
    <2> QED
        BY <2>2, EmptySeq DEF UriHostOption
<1> DEFINE port == IF url.port \in {DefaultPort, DefaultSecurePort} THEN <<>>
                   ELSE <<Option("UriPort", UintBytes(url.port))>>
<1>3. port \in Seq(CoapOptions)
    <2>1. Option("UriPort", UintBytes(url.port)) \in CoapOptions
        BY UintBytesType, OptionType, Ports
    <2>2. <<Option("UriPort", UintBytes(url.port))>> \in Seq(CoapOptions)
        BY <2>1
    <2> QED
        BY <2>2, EmptySeq
<1>4. TextOptions("UriPath", url.path) \in Seq(CoapOptions)
    BY <1>1, TextOptionsType
<1>5. TextOptions("UriQuery", url.query) \in Seq(CoapOptions)
    BY <1>1, TextOptionsType
<1> DEFINE first == UriHostOption(url) \o port
           path == first \o TextOptions("UriPath", url.path)
<1>6. UriOptions(url) = path \o TextOptions("UriQuery", url.query)
    BY DEF UriOptions
<1> HIDE DEF port
<1>7. first \in Seq(CoapOptions)
    BY <1>2, <1>3, ConcatProperties
<1> HIDE DEF first
<1>8. path \in Seq(CoapOptions)
    BY <1>4, <1>7, ConcatProperties
<1> HIDE DEF path
<1> QED
    BY <1>5, <1>6, <1>8, ConcatProperties

LEMMA UrlTextType ==
    ASSUME NEW url \in URLs, IsUrlValid(url)
    PROVE  UrlText(url) \in Seq(Byte)
<1> DEFINE Joined0(texts) == FlattenSeq([i \in DOMAIN texts |-> <<47>> \o Utf8[texts[i]]])
<1>1. ASSUME NEW texts \in Seq(Texts) PROVE Joined0(texts) \in Seq(Byte)
    <2> DEFINE parts == [i \in DOMAIN texts |-> <<47>> \o Utf8[texts[i]]]
    <2>1. \A i \in 1..Len(texts) : <<47>> \o Utf8[texts[i]] \in Seq(Byte)
        <3> TAKE i \in 1..Len(texts)
        <3>1. texts[i] \in Texts
            BY ElementOfSeq
        <3>2. Utf8[texts[i]] \in Seq(Byte)
            BY <3>1, Utf8Type
        <3>3. <<47>> \in Seq(Byte)
            BY DEF Byte
        <3> QED
            BY <3>2, <3>3, ConcatProperties
    <2>2. DOMAIN texts = 1..Len(texts) /\ Len(texts) \in Nat
        OBVIOUS
    <2>3. parts \in [1..Len(texts) -> Seq(Byte)]
        BY <2>1, <2>2
    <2> HIDE DEF parts
    <2>4. parts \in Seq(Seq(Byte))
        BY <2>2, <2>3, SeqDef
    <2>5. FlattenSeq(parts) \in Seq(Byte)
        BY <2>4, FlattenType
    <2> QED
        BY <2>5 DEF parts
<1>2. url.scheme \in Texts /\ url.host \in Texts /\ url.path \in Seq(Texts) /\ url.query \in Seq(Texts)
    BY TextAssumption DEF URLs, IsUrlValid
<1>3. Joined0(url.path) \in Seq(Byte) /\ Joined0(url.query) \in Seq(Byte)
    BY <1>1, <1>2
<1>4. Utf8[url.scheme] \in Seq(Byte) /\ Utf8[url.host] \in Seq(Byte) /\ <<58>> \in Seq(Byte)
    BY <1>2, Utf8Type DEF Byte
<1> DEFINE a == Utf8[url.scheme] \o <<58>>
           b == a \o Utf8[url.host]
           c == b \o Joined0(url.path)
<1>5. UrlText(url) = c \o Joined0(url.query)
    BY DEF UrlText
<1> HIDE DEF Joined0
<1>6. a \in Seq(Byte)
    BY <1>4, ConcatProperties
<1> HIDE DEF a
<1>7. b \in Seq(Byte)
    BY <1>4, <1>6, ConcatProperties
<1> HIDE DEF b
<1>8. c \in Seq(Byte)
    BY <1>3, <1>7, ConcatProperties
<1> HIDE DEF c
<1> QED
    BY <1>3, <1>5, <1>8, ConcatProperties

\* addUriOptions: what it makes of a sorted list is sorted, and of any list a list.
LEMMA AddUriOptionsKeepsOrder ==
    ASSUME NEW ordered \in BOOLEAN, NEW options \in ListsOf(ordered),
           NEW url \in URLs, url.port \in UInt16, NEW proxy \in URLs
    PROVE  AddUriOptions(options, url, proxy).options \in ListsOf(ordered)
<1>1. CASE ~IsEmpty(proxy) /\ IsUrlValid(proxy)
    <2>1. Option("ProxyUri", UrlText(proxy)) \in CoapOptions
        BY <1>1, UrlTextType, OptionType
    <2>2. AddOption(options, Option("ProxyUri", UrlText(proxy))) \in ListsOf(ordered)
        BY <2>1, AddOptionListed
    <2> QED
        BY <1>1, <2>2 DEF AddUriOptions
<1>2. CASE ~IsEmpty(proxy) /\ ~IsUrlValid(proxy)
    BY <1>2 DEF AddUriOptions
<1>3. CASE IsEmpty(proxy)
    <2> DEFINE uri == Normalized(url)
    <2>1. NormalizedPath(url.path) \in Seq(Texts)
        BY NormalizedPathType DEF URLs
    <2>2. uri \in URLs /\ uri.port \in UInt16
        BY <2>1 DEF Normalized, URLs
    <2> HIDE DEF uri
    <2>3. UriOptions(uri) \in Seq(CoapOptions)
        BY <2>2, UriOptionsType
    <2>4. AddOptions(options, UriOptions(uri)) \in ListsOf(ordered)
        BY <2>3, AddOptionsKeepsOrder
    <2> QED
        BY <1>3, <2>4 DEF AddUriOptions, uri
<1> QED
    BY <1>1, <1>2, <1>3

(***************************************************************************)
(* The URLs of requests.                                                   *)
(***************************************************************************)

LEMMA NoUrlType == NoUrl \in URLs
<1>1. "" \in Texts /\ <<>> \in Seq(Texts)
    BY TextAssumption, EmptySeq
<1> QED
    BY <1>1 DEF NoUrl, URLs, NoPort

LEMMA SetUrlType ==
    ASSUME NEW old \in URLs, NEW url \in URLs
    PROVE  SetUrl(old, url) \in URLs
<1>1. [url EXCEPT !.port = DefaultPort] \in URLs /\ [url EXCEPT !.port = DefaultSecurePort] \in URLs
    <2>1. DefaultPort \in UInt16 /\ DefaultSecurePort \in UInt16
        BY Ports
    <2> QED
        BY <2>1 DEF URLs
<1> QED
    BY <1>1 DEF SetUrl

LEMMA FirstAsHostType ==
    ASSUME NEW url \in URLs, NEW scheme \in {"coap", "coaps"}
    PROVE  FirstAsHost(url, scheme) \in URLs
<1> DEFINE host == IF url.path = <<>> THEN "" ELSE Head(url.path)
           path == IF Len(url.path) < 2 THEN <<>> ELSE <<"">> \o Tail(url.path)
<1>1. url.path \in Seq(Texts)
    BY DEF URLs
<1>2. host \in Texts
    BY <1>1, TextAssumption, HeadTailProperties
<1>3. path \in Seq(Texts)
    <2>1. CASE Len(url.path) < 2
        BY <2>1, EmptySeq
    <2>2. CASE ~ (Len(url.path) < 2)
        <3>1. url.path # <<>>
            BY <2>2, EmptySeq
        <3>2. Tail(url.path) \in Seq(Texts)
            BY <1>1, <3>1, HeadTailProperties
        <3>3. <<"">> \in Seq(Texts)
            <4>1. \A e \in Texts : <<e>> \in Seq(Texts)
                OBVIOUS
            <4>2. "" \in Texts
                BY TextAssumption
            <4> QED
                BY <4>1, <4>2, Zenon
        <3>4. <<"">> \o Tail(url.path) \in Seq(Texts)
            BY <3>2, <3>3, ConcatProperties
        <3> QED
            BY <2>2, <3>4
    <2> QED
        BY <2>1, <2>2
<1>4. FirstAsHost(url, scheme) = [url EXCEPT !.scheme = scheme, !.host = host, !.path = path]
    BY DEF FirstAsHost
<1> HIDE DEF host, path
<1> QED
    BY <1>2, <1>3, <1>4 DEF URLs

\* The two cases of an adjusted URL.
LEMMA AdjustedUrlCases ==
    ASSUME NEW url \in URLs, NEW s \in BOOLEAN
    PROVE  /\ AdjustedUrl(url, s) \in URLs
           /\ \/ AdjustedUrl(url, s) = NoUrl
              \/ /\ AdjustedUrl(url, s).port \in UInt16
                 /\ AdjustedUrl(url, s).valid
                 /\ AdjustedUrl(url, s).host # "" /\ AdjustedUrl(url, s).scheme # ""
                 /\ AdjustedUrl(url, s).scheme \in {url.scheme, IF s THEN "coaps" ELSE "coap"}
<1> DEFINE scheme == IF s THEN "coaps" ELSE "coap"
           complete == IF url.host = "" /\ url.scheme = "" THEN FirstAsHost(url, scheme)
                       ELSE IF url.scheme = "" THEN [url EXCEPT !.scheme = scheme] ELSE url
           port == IF s THEN DefaultSecurePort ELSE DefaultPort
<1>1. scheme \in {"coap", "coaps"} /\ port \in UInt16
    BY Ports
<1>2. AdjustedUrl(url, s) = IF IsEmpty(url) \/ ~url.valid \/ complete.host = "" THEN NoUrl
                            ELSE IF url.port # NoPort THEN complete
                            ELSE [complete EXCEPT !.port = port]
    BY DEF AdjustedUrl
<1>3. /\ complete \in URLs /\ complete.valid = url.valid /\ complete.port = url.port
      /\ complete.scheme # "" /\ complete.scheme \in {url.scheme, scheme}
    <2>1. FirstAsHost(url, scheme) \in URLs
        BY <1>1, FirstAsHostType
    <2>2. /\ FirstAsHost(url, scheme).valid = url.valid /\ FirstAsHost(url, scheme).port = url.port
          /\ FirstAsHost(url, scheme).scheme = scheme
        BY DEF FirstAsHost, URLs
    <2> HIDE DEF scheme
    <2>3. /\ [url EXCEPT !.scheme = scheme] \in URLs
          /\ [url EXCEPT !.scheme = scheme].valid = url.valid
          /\ [url EXCEPT !.scheme = scheme].port = url.port
          /\ [url EXCEPT !.scheme = scheme].scheme = scheme
        BY <1>1 DEF URLs
    <2> QED
        BY <1>1, <2>1, <2>2, <2>3
<1> HIDE DEF complete, port, scheme
<1>4. /\ [complete EXCEPT !.port = port] \in URLs /\ [complete EXCEPT !.port = port].port = port
      /\ [complete EXCEPT !.port = port].valid = complete.valid
      /\ [complete EXCEPT !.port = port].host = complete.host
      /\ [complete EXCEPT !.port = port].scheme = complete.scheme
    BY <1>1, <1>3 DEF URLs
<1>5. url.port \in UInt16 \cup {NoPort}
    BY DEF URLs
<1> QED
    BY <1>1, <1>2, <1>3, <1>4, <1>5, NoUrlType DEF scheme

\* Adjusting an adjusted URL changes nothing.
LEMMA AdjustedTwice ==
    ASSUME NEW url \in URLs, NEW s \in BOOLEAN
    PROVE  AdjustedUrl(AdjustedUrl(url, s), s) = AdjustedUrl(url, s)
<1> DEFINE a == AdjustedUrl(url, s)
<1>1. a \in URLs /\ (a = NoUrl \/ (a.port \in UInt16 /\ a.valid /\ a.host # "" /\ a.scheme # ""))
    BY AdjustedUrlCases
<1> HIDE DEF a
<1>2. CASE a = NoUrl
    BY <1>2 DEF AdjustedUrl, IsEmpty, a
<1>3. CASE a # NoUrl
    <2>1. a.port # NoPort
        <3>1. a.port \in UInt16
            BY <1>1, <1>3
        <3> QED
            BY <3>1, Ports
    <2>2. AdjustedUrl(a, s) = a
        BY <1>1, <1>3, <2>1 DEF AdjustedUrl, IsEmpty
    <2> QED
        BY <2>2 DEF a
<1> QED
    BY <1>2, <1>3

\* setUrl and an adjustment give what the adjustment alone gives, for a URL that is accepted.
LEMMA AdjustedAsSet ==
    ASSUME NEW url \in URLs, NEW s \in BOOLEAN,
           AdjustedUrl(SetUrl(NoUrl, url), s).scheme = (IF s THEN "coaps" ELSE "coap")
    PROVE  AdjustedUrl(SetUrl(NoUrl, url), s) = AdjustedUrl(url, s)
<1>1. AdjustedUrl(NoUrl, s) = NoUrl
    BY DEF AdjustedUrl, IsEmpty
<1>2. ~IsEmpty(url) /\ url.valid /\ url.scheme # "http"
    <2> SUFFICES ASSUME IsEmpty(url) \/ ~url.valid \/ url.scheme = "http" PROVE FALSE
        OBVIOUS
    <2>1. SetUrl(NoUrl, url) = NoUrl
        BY DEF SetUrl, IsEmpty
    <2>2. NoUrl.scheme = ""
        BY DEF NoUrl
    <2> QED
        BY <1>1, <2>1, <2>2
<1>3. CASE url.port = NoPort /\ url.scheme \in {"coap", "coaps"}
    <2> DEFINE port == IF url.scheme = "coap" THEN DefaultPort ELSE DefaultSecurePort
               set == [url EXCEPT !.port = port]
    <2>1. SetUrl(NoUrl, url) = set
        BY <1>2, <1>3 DEF SetUrl
    <2>2. port # NoPort
        BY DEF DefaultPort, DefaultSecurePort, NoPort
    <2> HIDE DEF port
    <2>3. /\ set.port = port /\ set.scheme = url.scheme /\ set.host = url.host
          /\ set.valid = url.valid /\ set # NoUrl
        BY <1>3, <2>2 DEF URLs, NoUrl
    <2> HIDE DEF set
    <2>4. AdjustedUrl(set, s) = IF set.host = "" THEN NoUrl ELSE set
        BY <1>2, <1>3, <2>2, <2>3 DEF AdjustedUrl, IsEmpty
    <2>5. set.host # "" /\ set.scheme = (IF s THEN "coaps" ELSE "coap") /\ AdjustedUrl(set, s) = set
        <3>1. NoUrl.scheme = ""
            BY DEF NoUrl
        <3>2. AdjustedUrl(set, s) # NoUrl
            BY <2>1, <3>1
        <3> QED
            BY <2>1, <2>4, <3>2
    <2>6. port = IF s THEN DefaultSecurePort ELSE DefaultPort
        BY <2>3, <2>5 DEF port
    <2>7. AdjustedUrl(url, s) = [url EXCEPT !.port = IF s THEN DefaultSecurePort ELSE DefaultPort]
        BY <1>2, <1>3, <2>3, <2>5 DEF AdjustedUrl
    <2> QED
        BY <2>1, <2>5, <2>6, <2>7 DEF set
<1>4. CASE ~ (url.port = NoPort /\ url.scheme \in {"coap", "coaps"})
    <2>1. SetUrl(NoUrl, url) = url
        BY <1>2, <1>4 DEF SetUrl
    <2> QED
        BY <2>1
<1> QED
    BY <1>3, <1>4

(***************************************************************************)
(* Frames.                                                                 *)
(***************************************************************************)

\* Options whose number and length need no more than the one byte that toQByteArray writes and
\* createFromFrame reads after a nibble of 13 or 14.
ShortOptions == {o \in CoapOptions : o.name <= 268 /\ Len(o.value) <= 268}

\* The bytes of one option, as the other end writes it.
DeltaAt(options, i) == options[i].name - (IF i = 1 THEN 0 ELSE options[i - 1].name)
PartOf(options, i) ==
    <<16 * Nibble(DeltaAt(options, i)) + Nibble(Len(options[i].value))>>
    \o ServerExtension(DeltaAt(options, i)) \o ServerExtension(Len(options[i].value)) \o options[i].value

Parts(options) == [i \in DOMAIN options |-> PartOf(options, i)]
Header(m) ==
    <<64 * m.version + 16 * m.type + Len(m.token), m.code, m.messageId \div 256, m.messageId % 256>>
Ending(m) == IF m.payload = <<>> THEN <<>> ELSE <<255>> \o m.payload

LEMMA ServerFrameParts ==
    ASSUME NEW m
    PROVE  ServerFrame(m) = Header(m) \o m.token \o FlattenSeq(Parts(m.options)) \o Ending(m)
    BY DEF ServerFrame, Parts, PartOf, DeltaAt, Header, Ending

LEMMA ShortNumbers ==
    ASSUME NEW options \in Seq(ShortOptions), NEW i \in DOMAIN options
    PROVE  /\ options[i].name \in Nat /\ options[i].name <= 268 /\ options[i].value \in Seq(Byte)
           /\ Len(options[i].value) \in Nat /\ Len(options[i].value) <= 268
           /\ DeltaAt(options, i) \in Int /\ DeltaAt(options, i) <= 268
<1>1. \A j \in 1..Len(options) : options[j] \in ShortOptions
    OBVIOUS
<1>2. ASSUME NEW j \in 1..Len(options)
      PROVE  /\ options[j].name \in Nat /\ options[j].name <= 268 /\ options[j].value \in Seq(Byte)
             /\ Len(options[j].value) \in Nat /\ Len(options[j].value) <= 268
    <2>1. /\ options[j].name \in Nat /\ options[j].value \in Seq(Byte)
          /\ options[j].name <= 268 /\ Len(options[j].value) <= 268
        BY <1>1 DEF ShortOptions, CoapOptions
    <2>2. Len(options[j].value) \in Nat
        BY <2>1, LenProperties
    <2> QED
        BY <2>1, <2>2
<1>3. i \in 1..Len(options) /\ (i # 1 => i - 1 \in 1..Len(options))
    OBVIOUS
<1>4. DeltaAt(options, i) \in Int /\ DeltaAt(options, i) <= 268
    <2> DEFINE a == options[i].name
               b == IF i = 1 THEN 0 ELSE options[i - 1].name
    <2>1. a \in Nat /\ a <= 268 /\ b \in Nat
        BY <1>2, <1>3
    <2>2. DeltaAt(options, i) = a - b
        BY DEF DeltaAt
    <2> HIDE DEF a, b
    <2> QED
        BY <2>1, <2>2
<1> QED
    BY <1>2, <1>3, <1>4

\* toQByteArray writes a message with short options as the other end would.
LEMMA SameFrames ==
    ASSUME NEW m, m.options \in Seq(ShortOptions), Sorted(m.options), m.version \in 0..3
    PROVE  ServerFrame(m) = ToQByteArray(m)
<1> DEFINE o == m.options
<1>1. ASSUME NEW i \in DOMAIN o
      PROVE  PartOf(o, i) = EncodedOption(IF i = 1 THEN 0 ELSE o[i - 1].name, o[i])
    <2> DEFINE delta == DeltaAt(o, i)
               length == Len(o[i].value)
    <2>1. delta \in Int /\ delta <= 268 /\ length \in Nat /\ length <= 268
        BY ShortNumbers
    <2>2. ServerExtension(delta) = Extension(delta) /\ ServerExtension(length) = Extension(length)
        <3> HIDE DEF delta, length
        <3> QED
            BY <2>1 DEF ServerExtension, Extension
    <2>3. delta = (o[i].name - (IF i = 1 THEN 0 ELSE o[i - 1].name)) % 65536
        <3>1. delta = o[i].name - (IF i = 1 THEN 0 ELSE o[i - 1].name)
            BY DEF DeltaAt
        <3>2. 0 <= delta
            <4>1. o[i].name \in Nat /\ i \in 1..Len(o)
                BY ShortNumbers
            <4>2. CASE i # 1
                <5>1. i - 1 \in DOMAIN o
                    BY <4>1, <4>2
                <5>2. o[i - 1].name <= o[i].name
                    BY <4>1, <4>2, <5>1 DEF Sorted
                <5>3. o[i - 1].name \in Nat
                    BY <5>1, ShortNumbers
                <5> QED
                    BY <3>1, <4>1, <4>2, <5>2, <5>3
            <4> QED
                BY <3>1, <4>1, <4>2
        <3> HIDE DEF delta
        <3>3. delta % 65536 = delta
            BY <2>1, <3>2
        <3> QED
            BY <3>1, <3>3
    <2>4. EncodedOption(IF i = 1 THEN 0 ELSE o[i - 1].name, o[i])
            = <<16 * Nibble(delta) + Nibble(length)>> \o Extension(delta) \o Extension(length) \o o[i].value
        <3> HIDE DEF delta
        <3> QED
            BY <2>3 DEF EncodedOption
    <2> QED
        BY <2>2, <2>4 DEF PartOf
<1>2. Parts(o) = [i \in DOMAIN o |-> EncodedOption(IF i = 1 THEN 0 ELSE o[i - 1].name, o[i])]
    BY <1>1 DEF Parts
<1>3. FlattenSeq(Parts(o)) = EncodedOptions(o)
    BY <1>2 DEF EncodedOptions
<1>4. ToQByteArray(m) = Header(m) \o m.token \o EncodedOptions(o) \o Ending(m)
    <2>1. m.version % 4 = m.version
        OBVIOUS
    <2> QED
        BY <2>1 DEF ToQByteArray, Header, Ending
<1> HIDE DEF o
<1> QED
    BY <1>3, <1>4, ServerFrameParts DEF o

\* createFromFrame adds the options in the order of the frame, each after those before it.
LEMMA AddLast ==
    ASSUME NEW options \in Seq(CoapOptions), Sorted(options), NEW k \in 1..Len(options)
    PROVE  AddOption(SubSeq(options, 1, k - 1), options[k]) = SubSeq(options, 1, k)
<1> DEFINE before == SubSeq(options, 1, k - 1)
           all == AddOption(before, options[k])
           upTo == SubSeq(options, 1, k)
<1>1. /\ before \in Seq(CoapOptions) /\ Len(before) = k - 1
      /\ \A i \in 1..(k - 1) : before[i] = options[i]
    BY SubSeqProperties
<1>2. /\ upTo \in Seq(CoapOptions) /\ Len(upTo) = k
      /\ \A i \in 1..k : upTo[i] = options[i]
    BY SubSeqProperties
<1>3. options[k] \in CoapOptions
    BY ElementOfSeq
<1> HIDE DEF before, upTo
<1>4. PICK p \in 1..(Len(before) + 1) :
         UpperBound(before, options[k], p) /\ Inserted(all, before, options[k], p)
    <2>1. Sorted(before)
        <3> SUFFICES ASSUME NEW i \in DOMAIN before, NEW j \in DOMAIN before, i < j
                     PROVE  before[i].name <= before[j].name
            BY DEF Sorted
        <3>1. i \in 1..(k - 1) /\ j \in 1..(k - 1) /\ i \in DOMAIN options /\ j \in DOMAIN options
            BY <1>1
        <3> QED
            BY <1>1, <3>1 DEF Sorted
    <2> QED
        BY <1>1, <1>3, <2>1, AddedAt
<1>5. p = k
    <2> SUFFICES ASSUME p # k PROVE FALSE
        OBVIOUS
    <2>1. p \in 1..(k - 1)
        BY <1>1, <1>4
    <2>2. before[p].name > options[k].name
        BY <1>1, <1>4, <2>1 DEF UpperBound
    <2>3. options[p].name <= options[k].name /\ before[p] = options[p]
        BY <1>1, <2>1 DEF Sorted
    <2>4. options[p].name \in Nat /\ options[k].name \in Nat
        BY <2>1, NumbersOfOptions
    <2> QED
        BY <2>2, <2>3, <2>4
<1>6. all \in Seq(CoapOptions) /\ Len(all) = k /\ \A i \in 1..k : all[i] = upTo[i]
    <2>1. all \in Seq(CoapOptions) /\ Len(all) = k
        BY <1>1, <1>4 DEF Inserted
    <2>2. ASSUME NEW i \in 1..k PROVE all[i] = upTo[i]
        <3>1. all[i] = IF i < k THEN before[i] ELSE options[k]
            BY <1>1, <1>4, <1>5 DEF Inserted
        <3>2. i < k => i \in 1..(k - 1)
            OBVIOUS
        <3> QED
            BY <1>1, <1>2, <3>1, <3>2
    <2> QED
        BY <2>1, <2>2
<1> HIDE DEF all
<1>7. all = upTo
    BY <1>2, <1>6, SeqEqual
<1> QED
    BY <1>7 DEF all, before, upTo

\* A delta or a length up to 268: its nibble, and the byte after it.
LEMMA ShortExtension ==
    ASSUME NEW n \in Nat, n <= 268
    PROVE  \/ n < 13 /\ Nibble(n) = n /\ ServerExtension(n) = <<>>
           \/ n >= 13 /\ Nibble(n) = 13 /\ ServerExtension(n) = <<n - 13>>
    BY DEF Nibble, ServerExtension

LEMMA ExtensionType ==
    ASSUME NEW n \in Nat, n <= 268
    PROVE  /\ ServerExtension(n) \in Seq(Nat) /\ Nibble(n) \in 0..13
           /\ Len(ServerExtension(n)) = IF Nibble(n) = 13 THEN 1 ELSE 0
           /\ Nibble(n) = 13 => ServerExtension(n)[1] = n - 13
           /\ Nibble(n) # 13 => Nibble(n) = n
<1>1. CASE n < 13
    <2>1. Nibble(n) = n /\ ServerExtension(n) = <<>>
        BY <1>1, ShortExtension
    <2> QED
        BY <1>1, <2>1, EmptySeq
<1>2. CASE n >= 13
    <2>1. Nibble(n) = 13 /\ ServerExtension(n) = <<n - 13>> /\ n - 13 \in Nat
        BY <1>2, ShortExtension
    <2> QED
        BY <1>2, <2>1
<1> QED
    BY <1>1, <1>2

\* What is at the places of two sequences put together.
LEMMA ConcatPlaces ==
    ASSUME NEW S, NEW s \in Seq(S), NEW t \in Seq(S)
    PROVE  /\ s \o t \in Seq(S) /\ Len(s \o t) = Len(s) + Len(t)
           /\ Len(s) \in Nat /\ Len(t) \in Nat
           /\ \A i \in 1..Len(s) : (s \o t)[i] = s[i]
           /\ \A i \in 1..Len(t) : (s \o t)[Len(s) + i] = t[i]
<1>1. Len(s) \in Nat /\ Len(t) \in Nat
    OBVIOUS
<1>2. \A i \in 1..(Len(s) + Len(t)) : (s \o t)[i] = IF i <= Len(s) THEN s[i] ELSE t[i - Len(s)]
    BY ConcatProperties
<1>3. ASSUME NEW i \in 1..Len(s) PROVE (s \o t)[i] = s[i]
    <2>1. i \in 1..(Len(s) + Len(t)) /\ i <= Len(s)
        BY <1>1
    <2> QED
        BY <1>2, <2>1
<1>4. ASSUME NEW i \in 1..Len(t) PROVE (s \o t)[Len(s) + i] = t[i]
    <2>1. Len(s) + i \in 1..(Len(s) + Len(t)) /\ ~ (Len(s) + i <= Len(s)) /\ (Len(s) + i) - Len(s) = i
        BY <1>1
    <2> QED
        BY <1>2, <2>1
<1> QED
    BY <1>1, <1>3, <1>4, ConcatProperties

\* The layout of an option of a frame: delta d, then the length of the value.
Written(part, d, value) ==
    part = <<16 * Nibble(d) + Nibble(Len(value))>> \o ServerExtension(d) \o ServerExtension(Len(value)) \o value

LEMMA WrittenPlaces ==
    ASSUME NEW d \in Nat, d <= 268, NEW value \in Seq(Byte), Len(value) <= 268,
           NEW part, Written(part, d, value)
    PROVE  LET x == Len(ServerExtension(d))
               y == Len(ServerExtension(Len(value)))
           IN /\ part \in Seq(Nat) /\ x \in Nat /\ y \in Nat
              /\ Len(part) = 1 + x + y + Len(value)
              /\ part[1] = 16 * Nibble(d) + Nibble(Len(value))
              /\ Nibble(d) = 13 => x = 1 /\ part[2] = d - 13
              /\ Nibble(Len(value)) = 13 => y = 1 /\ part[2 + x] = Len(value) - 13
              /\ \A j \in 1..Len(value) : part[1 + x + y + j] = value[j]
<1> DEFINE length == Len(value)
           h == 16 * Nibble(d) + Nibble(length)
           ed == ServerExtension(d)
           el == ServerExtension(length)
           mark == <<h>>
           a == mark \o ed
           b == a \o el
<1>1. length \in Nat /\ length <= 268 /\ value \in Seq(Nat)
    <2>1. Byte \subseteq Nat
        BY DEF Byte
    <2>2. value \in Seq(Nat)
        BY <2>1, SeqMonotonic
    <2>3. Len(value) \in Nat
        BY LenProperties
    <2> QED
        BY <2>2, <2>3
<1>2. part = b \o value
    BY DEF Written
<1>3. /\ ed \in Seq(Nat) /\ el \in Seq(Nat) /\ Nibble(d) \in 0..13 /\ Nibble(length) \in 0..13
      /\ Nibble(d) = 13 => Len(ed) = 1 /\ ed[1] = d - 13
      /\ Nibble(length) = 13 => Len(el) = 1 /\ el[1] = length - 13
    <2> HIDE DEF length
    <2> QED
        BY <1>1, ExtensionType
<1>4. h \in Nat
    <2>1. Nibble(d) \in Nat /\ Nibble(length) \in Nat
        BY <1>3
    <2> QED
        BY <2>1
<1> HIDE DEF length, h, ed, el
<1>5. mark \in Seq(Nat) /\ Len(mark) = 1 /\ mark[1] = h
    BY <1>4
<1> HIDE DEF mark
<1>6. /\ a \in Seq(Nat) /\ Len(a) = 1 + Len(ed) /\ a[1] = h /\ Len(ed) \in Nat
      /\ \A i \in 1..Len(ed) : a[1 + i] = ed[i]
    <2>0. mark \in Seq(Nat) /\ ed \in Seq(Nat)
        BY <1>3, <1>5
    <2>1. /\ mark \o ed \in Seq(Nat) /\ Len(mark \o ed) = Len(mark) + Len(ed) /\ Len(ed) \in Nat
          /\ \A i \in 1..Len(mark) : (mark \o ed)[i] = mark[i]
          /\ \A i \in 1..Len(ed) : (mark \o ed)[Len(mark) + i] = ed[i]
        BY <2>0, ConcatPlaces
    <2> QED
        BY <1>5, <2>1
<1> HIDE DEF a
<1>7. /\ b \in Seq(Nat) /\ Len(b) = 1 + Len(ed) + Len(el) /\ Len(el) \in Nat
      /\ \A i \in 1..(1 + Len(ed)) : b[i] = a[i]
      /\ \A i \in 1..Len(el) : b[1 + Len(ed) + i] = el[i]
    <2>0. a \in Seq(Nat) /\ el \in Seq(Nat)
        BY <1>3, <1>6
    <2>1. /\ a \o el \in Seq(Nat) /\ Len(a \o el) = Len(a) + Len(el) /\ Len(el) \in Nat
          /\ \A i \in 1..Len(a) : (a \o el)[i] = a[i]
          /\ \A i \in 1..Len(el) : (a \o el)[Len(a) + i] = el[i]
        BY <2>0, ConcatPlaces
    <2> QED
        BY <1>6, <2>1
<1> HIDE DEF b
<1>8. /\ part \in Seq(Nat) /\ Len(part) = 1 + Len(ed) + Len(el) + length
      /\ \A i \in 1..(1 + Len(ed) + Len(el)) : part[i] = b[i]
      /\ \A i \in 1..length : part[1 + Len(ed) + Len(el) + i] = value[i]
    <2>0. b \in Seq(Nat) /\ value \in Seq(Nat)
        BY <1>1, <1>7
    <2>1. /\ b \o value \in Seq(Nat) /\ Len(b \o value) = Len(b) + Len(value) /\ Len(value) \in Nat
          /\ \A i \in 1..Len(b) : (b \o value)[i] = b[i]
          /\ \A i \in 1..Len(value) : (b \o value)[Len(b) + i] = value[i]
        BY <2>0, ConcatPlaces
    <2> QED
        BY <1>2, <1>7, <2>1 DEF length
<1>9. part[1] = h
    <2>1. 1 \in 1..(1 + Len(ed)) /\ 1 \in 1..(1 + Len(ed) + Len(el))
        BY <1>6, <1>7
    <2> QED
        BY <1>6, <1>7, <1>8, <2>1
<1>10. ASSUME Nibble(d) = 13 PROVE part[2] = d - 13
    <2>1. Len(ed) = 1 /\ ed[1] = d - 13
        BY <1>3, <1>10
    <2>2. 2 \in 1..(1 + Len(ed)) /\ 2 \in 1..(1 + Len(ed) + Len(el)) /\ 1 \in 1..Len(ed)
        BY <1>7, <2>1
    <2>3. a[1 + 1] = ed[1]
        BY <1>6, <2>2
    <2> QED
        BY <1>7, <1>8, <2>1, <2>2, <2>3
<1>11. ASSUME Nibble(length) = 13 PROVE part[2 + Len(ed)] = length - 13
    <2>1. Len(el) = 1 /\ el[1] = length - 13
        BY <1>3, <1>11
    <2>2. 1 \in 1..Len(el) /\ 1 + Len(ed) + 1 = 2 + Len(ed) /\ 2 + Len(ed) \in 1..(1 + Len(ed) + Len(el))
        BY <1>6, <2>1
    <2>3. b[1 + Len(ed) + 1] = el[1]
        BY <1>7, <2>2
    <2> QED
        BY <1>8, <2>1, <2>2, <2>3
<1> QED
    BY <1>3, <1>6, <1>7, <1>8, <1>9, <1>10, <1>11 DEF length, h, ed, el

\* A part of a frame from byte "at" on.
LiesAt(part, bytes, at) == \A j \in 1..Len(part) : bytes[at + j - 1] = part[j]

ReadAs(bytes, at, previous, name, value, next) ==
    OptionAt(bytes, at, previous) = [option |-> [name |-> name, value |-> value], next |-> next]

\* createFromFrame reads an option as it is written.
LEMMA OptionRead ==
    ASSUME NEW d \in Nat, d <= 268, NEW value \in Seq(Byte), Len(value) <= 268,
           NEW part, Written(part, d, value), NEW bytes, NEW at \in Nat,
           LiesAt(part, bytes, at), NEW previous \in Nat
    PROVE  /\ ReadAs(bytes, at, previous, previous + d, value, at + Len(part))
           /\ bytes[at] # 255 /\ Len(part) \in Nat /\ Len(part) >= 1
<1> DEFINE x == Len(ServerExtension(d))
           y == Len(ServerExtension(Len(value)))
           dn == Nibble(d)
           ln == Nibble(Len(value))
<1>0. \A j \in 1..Len(part) : bytes[at + j - 1] = part[j]
    BY DEF LiesAt
<1>1. /\ part \in Seq(Nat) /\ x \in Nat /\ y \in Nat
      /\ Len(part) = 1 + x + y + Len(value)
      /\ part[1] = 16 * dn + ln
      /\ dn = 13 => x = 1 /\ part[2] = d - 13
      /\ ln = 13 => y = 1 /\ part[2 + x] = Len(value) - 13
      /\ \A j \in 1..Len(value) : part[1 + x + y + j] = value[j]
    BY WrittenPlaces
<1>2. Len(value) \in Nat
    BY LenProperties
<1>3. /\ dn \in 0..13 /\ (dn # 13 => dn = d) /\ x = (IF dn = 13 THEN 1 ELSE 0)
      /\ ln \in 0..13 /\ (ln # 13 => ln = Len(value)) /\ y = (IF ln = 13 THEN 1 ELSE 0)
    BY <1>2, ExtensionType
<1> HIDE DEF x, y, dn, ln
<1>4. /\ dn \in Nat /\ ln \in Nat /\ dn <= 13 /\ ln <= 13
      /\ (16 * dn + ln) \div 16 = dn /\ (16 * dn + ln) % 16 = ln /\ 16 * dn + ln # 255
    BY <1>3
<1>5. bytes[at] = 16 * dn + ln
    <2>1. 1 \in 1..Len(part) /\ at + 1 - 1 = at
        BY <1>1, <1>2
    <2> QED
        BY <1>0, <1>1, <2>1
<1> DEFINE afterDelta == IF dn \in {13, 14} THEN at + 1 ELSE at
           afterLength == IF ln \in {13, 14} THEN afterDelta + 1 ELSE afterDelta
           size == Extended(ln, bytes[afterLength])
           delta == Extended(dn, bytes[afterDelta])
<1>6. afterDelta = at + x /\ afterLength = at + x + y
    BY <1>1, <1>3, <1>4
<1>7. delta = d
    <2>1. CASE dn = 13
        <3>1. 2 \in 1..Len(part) /\ at + 2 - 1 = at + 1 /\ afterDelta = at + 1
            BY <1>1, <1>2, <2>1
        <3>2. bytes[at + 1] = d - 13
            BY <1>0, <1>1, <2>1, <3>1
        <3>3. delta = (d - 13) + 13
            BY <2>1, <3>1, <3>2 DEF Extended
        <3> QED
            BY <3>3
    <2>2. CASE dn # 13
        <3>1. dn # 14 /\ dn = d
            BY <1>3, <1>4, <2>2
        <3> QED
            BY <2>2, <3>1 DEF Extended
    <2> QED
        BY <2>1, <2>2
<1>8. size = Len(value)
    <2>1. CASE ln = 13
        <3>1. y = 1 /\ 2 + x \in 1..Len(part) /\ at + (2 + x) - 1 = afterLength
            BY <1>1, <1>2, <1>6, <2>1
        <3>2. bytes[afterLength] = Len(value) - 13
            <4> HIDE DEF afterLength
            <4> QED
                BY <1>0, <1>1, <2>1, <3>1
        <3>3. size = (Len(value) - 13) + 13
            BY <2>1, <3>2 DEF Extended
        <3> QED
            BY <1>2, <3>3
    <2>2. CASE ln # 13
        <3>1. ln # 14 /\ ln = Len(value)
            BY <1>3, <1>4, <2>2
        <3> QED
            BY <2>2, <3>1 DEF Extended
    <2> QED
        BY <2>1, <2>2
<1>9. OptionAt(bytes, at, previous)
        = [option |-> [name |-> previous + delta, value |-> SubSeq(bytes, afterLength + 1, afterLength + size)],
           next |-> afterLength + size + 1]
    <2>1. bytes[at] \div 16 = dn /\ bytes[at] % 16 = ln
        BY <1>4, <1>5
    <2> DEFINE div == bytes[at] \div 16
               mod == bytes[at] % 16
               place == IF div \in {13, 14} THEN at + 1 ELSE at
               after == IF mod \in {13, 14} THEN place + 1 ELSE place
               long == Extended(mod, bytes[after])
    <2>2. OptionAt(bytes, at, previous)
            = [option |-> [name |-> previous + Extended(div, bytes[place]),
                           value |-> SubSeq(bytes, after + 1, after + long)],
               next |-> after + long + 1]
        BY DEF OptionAt
    <2>3. div = dn /\ mod = ln
        BY <2>1
    <2> HIDE DEF div, mod
    <2>4. place = afterDelta /\ after = afterLength
        BY <2>3
    <2> HIDE DEF place, after, afterDelta, afterLength
    <2> QED
        BY <2>2, <2>3, <2>4
<1> HIDE DEF afterDelta, afterLength, size, delta
<1>10. SubSeq(bytes, afterLength + 1, afterLength + size) = value
    <2> DEFINE m == afterLength + 1
               n == afterLength + size
    <2>1. m \in Int /\ n \in Int /\ n - m + 1 = Len(value) /\ afterLength \in Nat
        BY <1>1, <1>2, <1>6, <1>8
    <2>2. ASSUME NEW j \in 1..Len(value) PROVE bytes[m + j - 1] = value[j]
        <3>1. 1 + x + y + j \in 1..Len(part) /\ at + (1 + x + y + j) - 1 = m + j - 1
            BY <1>1, <1>2, <1>6
        <3> QED
            BY <1>0, <1>1, <3>1
    <2>3. \A i \in m..n : bytes[i] \in Byte
        <3> TAKE i \in m..n
        <3>1. i - m + 1 \in 1..Len(value) /\ m + (i - m + 1) - 1 = i
            BY <2>1
        <3>2. bytes[i] = value[i - m + 1]
            BY <2>2, <3>1
        <3> QED
            BY <3>1, <3>2, ElementOfSeq
    <2> HIDE DEF m, n
    <2>4. /\ SubSeq(bytes, m, n) \in Seq(Byte)
          /\ Len(SubSeq(bytes, m, n)) = IF m <= n THEN n - m + 1 ELSE 0
          /\ \A j \in 1..(n - m + 1) : SubSeq(bytes, m, n)[j] = bytes[m + j - 1]
        BY <2>1, <2>3, SubSeqProperties
    <2>5. Len(SubSeq(bytes, m, n)) = Len(value)
        BY <1>2, <2>1, <2>4
    <2>6. \A j \in 1..Len(SubSeq(bytes, m, n)) : SubSeq(bytes, m, n)[j] = value[j]
        BY <2>1, <2>2, <2>4, <2>5
    <2>7. SubSeq(bytes, m, n) = value
        BY <2>4, <2>5, <2>6, SeqEqual
    <2> QED
        BY <2>7 DEF m, n
<1>11. afterLength + size + 1 = at + Len(part)
    BY <1>1, <1>2, <1>6, <1>8
<1>12. Len(part) \in Nat /\ Len(part) >= 1
    BY <1>1, <1>2
<1> QED
    BY <1>4, <1>5, <1>7, <1>9, <1>10, <1>11, <1>12 DEF ReadAs

\* The options of a frame that starts with "head" and closes with "ending": option k ends
\* L[k] bytes after the head.
Frame(o, head, ending) == head \o FlattenSeq(Parts(o)) \o ending
Layout(o, head, ending, L) ==
    /\ L \in [0..Len(o) -> Nat] /\ L[0] = 0
    /\ \A k \in 0..Len(o) : L[k] >= k /\ L[k] <= L[Len(o)]
    /\ \A k \in 1..Len(o) :
          /\ L[k] = L[k - 1] + Len(PartOf(o, k))
          /\ \A j \in 1..Len(PartOf(o, k)) :
                Frame(o, head, ending)[Len(head) + L[k - 1] + j] = PartOf(o, k)[j]
    /\ Frame(o, head, ending) \in Seq(Nat)
    /\ Len(Frame(o, head, ending)) = Len(head) + L[Len(o)] + Len(ending)
    /\ \A j \in 1..Len(head) : Frame(o, head, ending)[j] = head[j]
    /\ \A j \in 1..Len(ending) : Frame(o, head, ending)[Len(head) + L[Len(o)] + j] = ending[j]

LEMMA PartWritten ==
    ASSUME NEW o \in Seq(ShortOptions), Sorted(o), NEW i \in 1..Len(o)
    PROVE  /\ DeltaAt(o, i) \in Nat /\ DeltaAt(o, i) <= 268
           /\ o[i].value \in Seq(Byte) /\ Len(o[i].value) <= 268
           /\ Written(PartOf(o, i), DeltaAt(o, i), o[i].value)
           /\ PartOf(o, i) \in Seq(Nat) /\ Len(PartOf(o, i)) \in Nat /\ Len(PartOf(o, i)) >= 1
<1>1. /\ DeltaAt(o, i) \in Int /\ DeltaAt(o, i) <= 268 /\ o[i].name \in Nat
      /\ o[i].value \in Seq(Byte) /\ Len(o[i].value) <= 268 /\ Len(o[i].value) \in Nat
    BY ShortNumbers
<1>2. DeltaAt(o, i) \in Nat
    <2>1. CASE i = 1
        <3>1. DeltaAt(o, i) = o[i].name - 0
            BY <2>1 DEF DeltaAt
        <3> QED
            BY <1>1, <3>1
    <2>2. CASE i # 1
        <3>1. i - 1 \in 1..Len(o) /\ i - 1 < i
            BY <2>2
        <3>2. o[i - 1].name <= o[i].name
            BY <3>1 DEF Sorted
        <3>3. o[i - 1].name \in Nat
            BY <3>1, ShortNumbers
        <3>4. DeltaAt(o, i) = o[i].name - o[i - 1].name
            BY <2>2 DEF DeltaAt
        <3> QED
            BY <1>1, <3>2, <3>3, <3>4
    <2> QED
        BY <2>1, <2>2
<1>3. Written(PartOf(o, i), DeltaAt(o, i), o[i].value)
    BY DEF Written, PartOf
<1> DEFINE part == PartOf(o, i)
           d == DeltaAt(o, i)
           value == o[i].value
           x == Len(ServerExtension(d))
           y == Len(ServerExtension(Len(value)))
<1>4. part \in Seq(Nat) /\ x \in Nat /\ y \in Nat /\ Len(part) = 1 + x + y + Len(value)
    <2> HIDE DEF part, d, value
    <2>1. d \in Nat /\ d <= 268 /\ value \in Seq(Byte) /\ Len(value) <= 268 /\ Written(part, d, value)
        BY <1>1, <1>2, <1>3 DEF part, d, value
    <2> QED
        BY <2>1, WrittenPlaces
<1> HIDE DEF x, y
<1>5. Len(part) \in Nat /\ Len(part) >= 1
    <2>1. Len(value) \in Nat
        BY <1>1
    <2> HIDE DEF part, value
    <2> QED
        BY <1>4, <2>1
<1> QED
    BY <1>1, <1>2, <1>3, <1>4, <1>5

LEMMA FrameLayout ==
    ASSUME NEW o \in Seq(ShortOptions), Sorted(o), NEW head \in Seq(Nat), NEW ending \in Seq(Nat)
    PROVE  \E L : Layout(o, head, ending, L)
<1> DEFINE N == Len(o)
           seqs == Parts(o)
           all == FlattenSeq(seqs)
           bytes == Frame(o, head, ending)
<1>1. N \in Nat /\ DOMAIN o = 1..N
    OBVIOUS
<1>2. /\ \A i \in 1..N : /\ PartOf(o, i) \in Seq(Nat) /\ Len(PartOf(o, i)) \in Nat
                         /\ Len(PartOf(o, i)) >= 1
    BY PartWritten
<1>3. /\ seqs \in Seq(Seq(Nat)) /\ Len(seqs) = N
      /\ \A i \in 1..N : seqs[i] = PartOf(o, i)
    <2>1. seqs \in [1..N -> Seq(Nat)]
        BY <1>1, <1>2 DEF Parts
    <2>2. seqs \in Seq(Seq(Nat))
        BY <1>1, <2>1, SeqDef
    <2>3. \A i \in 1..N : seqs[i] = PartOf(o, i)
        BY <1>1 DEF Parts
    <2> HIDE DEF seqs
    <2>4. Len(seqs) = N
        BY <1>1, <2>1, <2>2
    <2> QED
        BY <2>2, <2>3, <2>4
<1> HIDE DEF N, seqs
<1>4. PICK F : Flattened(Nat, seqs, all, F)
    BY <1>3, FlattenSteps
<1> DEFINE L == [k \in 0..N |-> Len(F[k])]
<1>5. /\ \A k \in 0..N : F[k] \in Seq(Nat) /\ L[k] = Len(F[k]) /\ L[k] \in Nat
      /\ F[0] = <<>> /\ F[N] = all /\ L \in [0..N -> Nat]
    <2>1. \A k \in 0..N : F[k] \in Seq(Nat)
        BY <1>3, <1>4 DEF Flattened
    <2> QED
        BY <1>3, <1>4, <2>1 DEF Flattened
<1> HIDE DEF L
<1>6. ASSUME NEW k \in 1..N
      PROVE  /\ k - 1 \in 0..N /\ k \in 0..N
             /\ L[k] = L[k - 1] + Len(PartOf(o, k))
             /\ \A j \in 1..L[k - 1] : F[k][j] = F[k - 1][j]
             /\ \A j \in 1..Len(PartOf(o, k)) : F[k][L[k - 1] + j] = PartOf(o, k)[j]
    <2>1. k - 1 \in 0..N /\ k \in 0..N
        BY <1>1
    <2>2. F[k] = F[k - 1] \o PartOf(o, k)
        BY <1>3, <1>4 DEF Flattened
    <2> DEFINE f == F[k - 1]
               g == PartOf(o, k)
    <2>3. f \in Seq(Nat) /\ g \in Seq(Nat) /\ L[k - 1] = Len(f) /\ L[k] = Len(F[k])
        BY <1>2, <1>5, <2>1
    <2> HIDE DEF f, g
    <2>4. /\ Len(f \o g) = Len(f) + Len(g)
          /\ \A j \in 1..Len(f) : (f \o g)[j] = f[j]
          /\ \A j \in 1..Len(g) : (f \o g)[Len(f) + j] = g[j]
        BY <2>3, ConcatPlaces
    <2> QED
        BY <2>1, <2>2, <2>3, <2>4 DEF f, g
\* What is there after k options stays in its place.
<1> DEFINE P == {d \in Nat : d <= N => \A j \in 1..L[N - d] : all[j] = F[N - d][j]}
<1>7. 0 \in P
    BY <1>1, <1>5
<1>8. ASSUME NEW d \in P PROVE d + 1 \in P
    <2> SUFFICES ASSUME d + 1 <= N, NEW j \in 1..L[N - (d + 1)]
                 PROVE  all[j] = F[N - (d + 1)][j]
        OBVIOUS
    <2> DEFINE k == N - d
    <2>1. k \in 1..N /\ k - 1 = N - (d + 1) /\ d <= N
        BY <1>1
    <2>2. \A i \in 1..L[k] : all[i] = F[k][i]
        BY <2>1
    <2> HIDE DEF k
    <2>3. L[k - 1] \in Nat /\ Len(PartOf(o, k)) \in Nat /\ L[k] = L[k - 1] + Len(PartOf(o, k))
        BY <1>2, <1>5, <1>6, <2>1
    <2>4. j \in 1..L[k - 1]
        BY <2>1
    <2>5. j \in 1..L[k]
        BY <2>3, <2>4
    <2> QED
        BY <1>6, <2>1, <2>2, <2>4, <2>5
<1>9. P = Nat
    <2> HIDE DEF P
    <2>1. P \in SUBSET Nat
        BY DEF P
    <2> QED
        BY <1>7, <1>8, <2>1, Induction
<1>10. ASSUME NEW k \in 0..N, NEW j \in 1..L[k] PROVE all[j] = F[k][j]
    <2> DEFINE d == N - k
    <2>1. d \in Nat /\ d <= N /\ N - d = k
        BY <1>1
    <2>2. d \in P
        <3> HIDE DEF P, d
        <3> QED
            BY <1>9, <2>1
    <2> HIDE DEF d
    <2> QED
        BY <2>1, <2>2
<1> HIDE DEF P
<1>11. ASSUME NEW k \in 1..N, NEW j \in 1..Len(PartOf(o, k))
       PROVE  L[k - 1] + j \in 1..L[k] /\ all[L[k - 1] + j] = PartOf(o, k)[j]
    <2>1. L[k - 1] \in Nat /\ Len(PartOf(o, k)) \in Nat /\ L[k] = L[k - 1] + Len(PartOf(o, k)) /\ k \in 0..N
        BY <1>2, <1>5, <1>6
    <2>2. L[k - 1] + j \in 1..L[k]
        BY <2>1
    <2> QED
        BY <1>6, <1>10, <2>1, <2>2
<1> DEFINE R == {k \in Nat : k <= N => L[k] >= k}
<1>12. \A k \in 0..N : L[k] >= k
    <2>1. 0 \in R
        BY <1>1, <1>5
    <2>2. ASSUME NEW k \in R PROVE k + 1 \in R
        <3> SUFFICES ASSUME k + 1 <= N PROVE L[k + 1] >= k + 1
            OBVIOUS
        <3>1. k + 1 \in 1..N /\ (k + 1) - 1 = k /\ k \in 0..N /\ L[k] >= k
            BY <1>1
        <3>2. L[k + 1] = L[k] + Len(PartOf(o, k + 1)) /\ L[k] \in Nat
            BY <1>5, <1>6, <3>1
        <3>3. Len(PartOf(o, k + 1)) \in Nat /\ Len(PartOf(o, k + 1)) >= 1
            BY <1>2, <3>1
        <3> QED
            BY <3>1, <3>2, <3>3
    <2> HIDE DEF R
    <2>3. R \in SUBSET Nat
        BY DEF R
    <2>4. R = Nat
        BY <2>1, <2>2, <2>3, Induction
    <2> QED
        BY <2>4 DEF R
\* Every option lies within all of them.
<1>13. ASSUME NEW k \in 0..N PROVE L[k] <= L[N]
    <2> DEFINE D == {d \in Nat : k + d <= N => L[k] <= L[k + d]}
    <2>1. 0 \in D
        BY <1>5
    <2>2. ASSUME NEW d \in D PROVE d + 1 \in D
        <3> SUFFICES ASSUME k + (d + 1) <= N PROVE L[k] <= L[k + (d + 1)]
            OBVIOUS
        <3>1. k + (d + 1) \in 1..N /\ (k + (d + 1)) - 1 = k + d /\ L[k] <= L[k + d]
            BY <1>1
        <3>2. /\ L[k + (d + 1)] = L[k + d] + Len(PartOf(o, k + (d + 1)))
              /\ k + d \in 0..N /\ Len(PartOf(o, k + (d + 1))) \in Nat
            BY <1>2, <1>6, <3>1
        <3>3. L[k + d] \in Nat /\ L[k] \in Nat
            BY <1>5, <3>2
        <3> QED
            BY <3>1, <3>2, <3>3
    <2>3. D = Nat
        <3> HIDE DEF D
        <3>1. D \in SUBSET Nat
            BY DEF D
        <3> QED
            BY <2>1, <2>2, <3>1, Induction
    <2> DEFINE d == N - k
    <2>4. d \in Nat /\ k + d = N
        BY <1>1
    <2>5. d \in D
        <3> HIDE DEF D, d
        <3> QED
            BY <2>3, <2>4
    <2> HIDE DEF d
    <2>6. k + d <= N
        BY <1>1, <2>4
    <2> QED
        BY <2>4, <2>5, <2>6
\* The frame.
<1> DEFINE most == head \o all
<1>14. all \in Seq(Nat) /\ Len(all) = L[N] /\ L[N] \in Nat /\ Len(head) \in Nat /\ Len(ending) \in Nat
    <2>1. N \in 0..N
        BY <1>1
    <2> QED
        BY <1>5, <2>1, LenProperties
<1>15. bytes = most \o ending
    BY DEF Frame, seqs
<1> HIDE DEF all, bytes
<1>16. /\ most \in Seq(Nat) /\ Len(most) = Len(head) + L[N]
       /\ \A j \in 1..Len(head) : most[j] = head[j]
       /\ \A j \in 1..L[N] : most[Len(head) + j] = all[j]
    <2>0. head \in Seq(Nat) /\ all \in Seq(Nat)
        BY <1>14
    <2>1. /\ head \o all \in Seq(Nat) /\ Len(head \o all) = Len(head) + Len(all)
          /\ \A i \in 1..Len(head) : (head \o all)[i] = head[i]
          /\ \A i \in 1..Len(all) : (head \o all)[Len(head) + i] = all[i]
        BY <2>0, ConcatPlaces
    <2> QED
        BY <1>14, <2>1
<1> HIDE DEF most
<1>17. /\ bytes \in Seq(Nat) /\ Len(bytes) = Len(head) + L[N] + Len(ending)
       /\ \A j \in 1..(Len(head) + L[N]) : bytes[j] = most[j]
       /\ \A j \in 1..Len(ending) : bytes[Len(head) + L[N] + j] = ending[j]
    <2>0. most \in Seq(Nat) /\ ending \in Seq(Nat)
        BY <1>16
    <2>1. /\ most \o ending \in Seq(Nat) /\ Len(most \o ending) = Len(most) + Len(ending)
          /\ \A i \in 1..Len(most) : (most \o ending)[i] = most[i]
          /\ \A i \in 1..Len(ending) : (most \o ending)[Len(most) + i] = ending[i]
        BY <2>0, ConcatPlaces
    <2> QED
        BY <1>15, <1>16, <2>1
<1>18. ASSUME NEW k \in 1..N, NEW j \in 1..Len(PartOf(o, k))
       PROVE  bytes[Len(head) + L[k - 1] + j] = PartOf(o, k)[j]
    <2> DEFINE i == L[k - 1] + j
    <2>0. L[k - 1] \in Nat /\ L[k] \in Nat /\ L[k] <= L[N] /\ i \in 1..L[k] /\ all[i] = PartOf(o, k)[j]
        BY <1>5, <1>6, <1>11, <1>13
    <2>1. i \in 1..L[N] /\ all[i] = PartOf(o, k)[j] /\ L[k - 1] \in Nat
        <3> DEFINE p == L[k]
                   q == L[N]
        <3>1. p \in Nat /\ q \in Nat /\ p <= q /\ i \in 1..p
            BY <1>14, <2>0
        <3>2. i \in 1..q
            <4> HIDE DEF i, p, q
            <4> QED
                BY <3>1
        <3> QED
            BY <2>0, <3>2
    <2>2. Len(head) + L[k - 1] + j = Len(head) + i
        BY <1>14, <2>1
    <2> HIDE DEF i
    <2>3. Len(head) + i \in 1..(Len(head) + L[N])
        BY <1>14, <2>1
    <2> QED
        BY <1>16, <1>17, <2>1, <2>2, <2>3
<1>19. \A j \in 1..Len(head) : bytes[j] = head[j]
    <2> TAKE j \in 1..Len(head)
    <2>1. j \in 1..(Len(head) + L[N])
        BY <1>14
    <2> QED
        BY <1>16, <1>17, <2>1
<1>20. L[0] = 0
    <2>1. 0 \in 0..N
        BY <1>1
    <2> QED
        BY <1>5, <2>1, EmptySeq
<1>21. \A k \in 1..N : L[k] = L[k - 1] + Len(PartOf(o, k))
    BY <1>6
<1> QED
    BY <1>5, <1>12, <1>13, <1>17, <1>18, <1>19, <1>20, <1>21 DEF Layout, N, bytes

\* One turn of the loop over the options.
Advanced(bytes, s) ==
    IF s.at > Len(bytes) \/ bytes[s.at] = 255 THEN s
    ELSE LET read == OptionAt(bytes, s.at, s.previous)
         IN [at |-> read.next, previous |-> read.option.name, options |-> AddOption(s.options, read.option)]

\* The loop is over after option N if the states up to N follow one another and N stays.
LEMMA LoopEnds ==
    ASSUME NEW bytes, NEW start, NEW M \in Nat, M = Len(bytes), NEW N \in 0..M, NEW State,
           State[0] = [at |-> start, previous |-> 0, options |-> <<>>],
           \A k \in 1..N : Advanced(bytes, State[k - 1]) = State[k],
           Advanced(bytes, State[N]) = State[N]
    PROVE  DecodedFrom(bytes, start)
              = [options |-> State[N].options, payload |-> SubSeq(bytes, State[N].at + 1, Len(bytes))]
<1> DEFINE base == [at |-> start, previous |-> 0, options |-> <<>>]
           Eq(R) == [k \in 0..Len(bytes) |-> IF k = 0 THEN base ELSE Advanced(bytes, R[k - 1])]
           R == CHOOSE H : H = Eq(H)
           T == [k \in 0..Len(bytes) |-> State[IF k <= N THEN k ELSE N]]
<1>1. DecodedFrom(bytes, start)
        = [options |-> R[Len(bytes)].options, payload |-> SubSeq(bytes, R[Len(bytes)].at + 1, Len(bytes))]
    BY Zenon DEF DecodedFrom, Advanced
<1>2. ASSUME NEW k \in 0..M PROVE T[k] = IF k = 0 THEN base ELSE Advanced(bytes, T[k - 1])
    <2>1. CASE k = 0
        BY <2>1
    <2>2. CASE k # 0 /\ k <= N
        <3>1. k \in 1..N /\ k - 1 <= N /\ k - 1 \in 0..M
            BY <2>2
        <3>2. T[k] = State[k] /\ T[k - 1] = State[k - 1]
            BY <2>2, <3>1
        <3> HIDE DEF T
        <3> QED
            BY <2>2, <3>1, <3>2
    <2>3. CASE k # 0 /\ ~ (k <= N)
        <3>1. k - 1 \in 0..M /\ (k - 1 <= N => k - 1 = N)
            BY <2>3
        <3>2. T[k] = State[N] /\ T[k - 1] = State[N]
            BY <2>3, <3>1
        <3> HIDE DEF T
        <3> QED
            BY <2>3, <3>2
    <2> QED
        BY <2>1, <2>2, <2>3
<1>3. T = [k \in 0..M |-> T[k]] /\ T[M] = State[N]
    OBVIOUS
<1> HIDE DEF T
<1>4. T = Eq(T)
    <2>1. Eq(T) = [k \in 0..M |-> IF k = 0 THEN base ELSE Advanced(bytes, T[k - 1])]
        OBVIOUS
    <2> HIDE DEF Eq, base
    <2> QED
        BY <1>2, <1>3, <2>1
<1>5. R = Eq(R)
    <2> HIDE DEF Eq
    <2> QED
        BY <1>4
<1> HIDE DEF R
<1>6. \A k \in 0..M : R[k] = IF k = 0 THEN base ELSE Advanced(bytes, R[k - 1])
    BY <1>5
<1> HIDE DEF Eq, base
<1> DEFINE P == {k \in Nat : k <= M => R[k] = T[k]}
<1>7. 0 \in P
    BY <1>2, <1>6
<1>8. ASSUME NEW k \in P PROVE k + 1 \in P
    <2> SUFFICES ASSUME k + 1 <= M PROVE R[k + 1] = T[k + 1]
        OBVIOUS
    <2>1. k \in Nat /\ k + 1 \in 0..M /\ k + 1 # 0 /\ (k + 1) - 1 = k /\ R[k] = T[k]
        OBVIOUS
    <2>2. R[k + 1] = Advanced(bytes, R[k]) /\ T[k + 1] = Advanced(bytes, T[k])
        BY <1>2, <1>6, <2>1
    <2> QED
        BY <2>1, <2>2
<1>9. P = Nat
    <2> HIDE DEF P
    <2>1. P \in SUBSET Nat
        BY DEF P
    <2> QED
        BY <1>7, <1>8, <2>1, Induction
<1>10. R[M] = State[N]
    BY <1>3, <1>9
<1> QED
    BY <1>1, <1>10

\* createFromFrame: the options of a frame and the payload after them.
LEMMA OptionsDecoded ==
    ASSUME NEW o \in Seq(ShortOptions), Sorted(o), NEW head \in Seq(Nat), NEW payload \in Seq(Byte)
    PROVE  LET ending == IF payload = <<>> THEN <<>> ELSE <<255>> \o payload
           IN DecodedFrom(Frame(o, head, ending), Len(head) + 1) = [options |-> o, payload |-> payload]
<1> DEFINE ending == IF payload = <<>> THEN <<>> ELSE <<255>> \o payload
           bytes == Frame(o, head, ending)
           N == Len(o)
           M == Len(bytes)
           start == Len(head) + 1
<1>1. /\ ending \in Seq(Nat) /\ Len(payload) \in Nat
      /\ Len(ending) = (IF payload = <<>> THEN 0 ELSE 1 + Len(payload))
      /\ payload # <<>> => /\ ending[1] = 255
                           /\ \A j \in 1..Len(payload) : ending[1 + j] = payload[j]
    <2>1. CASE payload = <<>>
        BY <2>1, EmptySeq
    <2>2. CASE payload # <<>>
        <3> DEFINE mark == <<255>>
        <3>1. mark \in Seq(Nat) /\ Len(mark) = 1 /\ mark[1] = 255
            OBVIOUS
        <3>2. payload \in Seq(Nat) /\ Len(payload) \in Nat
            <4>1. Byte \subseteq Nat
                BY DEF Byte
            <4>2. payload \in Seq(Nat)
                BY <4>1, SeqMonotonic
            <4> QED
                BY <4>2, LenProperties
        <3>3. ending = mark \o payload
            BY <2>2
        <3> HIDE DEF mark, ending
        <3>0. mark \in Seq(Nat) /\ payload \in Seq(Nat)
            BY <3>1, <3>2
        <3>4. /\ mark \o payload \in Seq(Nat) /\ Len(mark \o payload) = Len(mark) + Len(payload)
              /\ \A i \in 1..Len(mark) : (mark \o payload)[i] = mark[i]
              /\ \A i \in 1..Len(payload) : (mark \o payload)[Len(mark) + i] = payload[i]
            BY <3>0, ConcatPlaces
        <3> QED
            BY <2>2, <3>1, <3>2, <3>3, <3>4
    <2> QED
        BY <2>1, <2>2
<1> HIDE DEF ending
<1>2. PICK L : Layout(o, head, ending, L)
    BY <1>1, FrameLayout
<1>3. /\ N \in Nat /\ Len(head) \in Nat /\ L \in [0..N -> Nat] /\ L[0] = 0 /\ L[N] \in Nat /\ N <= L[N]
      /\ bytes \in Seq(Nat) /\ M = Len(head) + L[N] + Len(ending)
    <2>1. N \in Nat /\ Len(head) \in Nat
        BY LenProperties
    <2>2. N \in 0..N
        BY <2>1
    <2> QED
        BY <1>2, <2>1, <2>2 DEF Layout
<1>4. M \in Nat /\ N \in 0..M /\ Len(ending) \in Nat
    <2>1. Len(ending) \in Nat
        BY <1>1, LenProperties
    <2> HIDE DEF M, N
    <2> QED
        BY <1>3, <2>1
<1>5. o \in Seq(CoapOptions) /\ \A k \in 1..N : o[k] \in ShortOptions
    <2>1. ShortOptions \subseteq CoapOptions
        BY DEF ShortOptions
    <2>2. o \in Seq(CoapOptions)
        BY <2>1, SeqMonotonic
    <2> QED
        BY <2>2, ElementOfSeq
<1> DEFINE State == [k \in 0..N |-> [at |-> start + L[k], previous |-> IF k = 0 THEN 0 ELSE o[k].name,
                                     options |-> SubSeq(o, 1, k)]]
<1>6. ASSUME NEW k \in 0..N
      PROVE  /\ State[k] = [at |-> start + L[k], previous |-> IF k = 0 THEN 0 ELSE o[k].name,
                            options |-> SubSeq(o, 1, k)]
             /\ L[k] \in Nat
    BY <1>3
<1>7. State[0] = [at |-> start, previous |-> 0, options |-> <<>>]
    <2>1. 0 \in 0..N /\ start + 0 = start
        BY <1>3
    <2>2. SubSeq(o, 1, 0) = <<>>
        BY SubSeqEmpty
    <2> HIDE DEF State, start
    <2> QED
        BY <1>3, <1>6, <2>1, <2>2
<1> HIDE DEF State, bytes, N
<1> DEFINE h == Len(head)
           last == L[N]
           e == Len(ending)
<1>0. /\ h \in Nat /\ start = h + 1 /\ M = h + last + e
      /\ last \in Nat /\ e \in Nat /\ start \in Nat /\ M \in Nat
    <2>1. h \in Nat /\ start = h + 1 /\ M = h + last + e /\ last \in Nat /\ e \in Nat
        BY <1>3, <1>4
    <2> HIDE DEF h, last, e, start, M
    <2> QED
        BY <2>1
<1> HIDE DEF h, last, e, start, M
<1>8. ASSUME NEW k \in 1..N PROVE Advanced(bytes, State[k - 1]) = State[k]
    <2> DEFINE s == State[k - 1]
               part == PartOf(o, k)
               d == DeltaAt(o, k)
               value == o[k].value
               at == start + L[k - 1]
               previous == IF k - 1 = 0 THEN 0 ELSE o[k - 1].name
    <2>1. /\ k - 1 \in 0..N /\ k \in 0..N /\ k # 0
        BY <1>3
    <2>2. /\ d \in Nat /\ d <= 268 /\ value \in Seq(Byte) /\ Len(value) <= 268 /\ Written(part, d, value)
          /\ part \in Seq(Nat) /\ Len(part) \in Nat /\ Len(part) >= 1
        BY PartWritten DEF N
    <2>3. s = [at |-> at, previous |-> previous, options |-> SubSeq(o, 1, k - 1)] /\ L[k - 1] \in Nat
        BY <1>6, <2>1
    <2>4. at \in Nat
        BY <1>0, <2>3
    <2>5. L[k] = L[k - 1] + Len(part) /\ L[k] \in Nat
        BY <1>2, <1>6, <2>1 DEF Layout, N
    <2>6. ASSUME NEW j \in 1..Len(part) PROVE bytes[at + j - 1] = part[j]
        <3>1. at + j - 1 = h + L[k - 1] + j
            <4> DEFINE q == L[k - 1]
            <4>1. q \in Nat /\ at = start + q
                BY <2>3
            <4> HIDE DEF q, at
            <4>2. at + j - 1 = h + q + j
                BY <1>0, <2>2, <4>1
            <4> QED
                BY <4>2 DEF q
        <3>2. bytes[h + L[k - 1] + j] = part[j]
            BY <1>2 DEF Layout, bytes, h, N
        <3> QED
            BY <3>1, <3>2
    <2>7. o[k].name = previous + d
        <3>1. o[k].name \in Nat /\ (k # 1 => o[k - 1].name \in Nat)
            BY <1>5, NumbersOfOptions DEF N
        <3>2. CASE k = 1
            <4>1. d = o[k].name - 0 /\ previous = 0
                BY <3>2 DEF DeltaAt
            <4> QED
                BY <3>1, <4>1
        <3>3. CASE k # 1
            <4>1. d = o[k].name - o[k - 1].name /\ previous = o[k - 1].name
                BY <2>1, <3>3 DEF DeltaAt
            <4> HIDE DEF d, previous
            <4> QED
                BY <3>1, <3>3, <4>1
        <3> QED
            BY <3>2, <3>3
    <2>8. o[k] = [name |-> o[k].name, value |-> value]
        BY <1>5 DEF ShortOptions, CoapOptions
    <2>14. previous \in Nat
        BY <1>5, <2>1, NumbersOfOptions DEF N
    <2> HIDE DEF s, part, d, value, at, previous
    <2>9. /\ ReadAs(bytes, at, previous, previous + d, value, at + Len(part))
          /\ bytes[at] # 255
        <3>1. LiesAt(part, bytes, at)
            BY <2>6 DEF LiesAt
        <3>2. d \in Nat /\ d <= 268 /\ value \in Seq(Byte) /\ Len(value) <= 268 /\ Written(part, d, value)
            BY <2>2
        <3> QED
            BY <2>4, <2>14, <3>1, <3>2, OptionRead
    <2>10. ~ (at > M)
        <3> DEFINE q == L[k - 1]
                   p == Len(part)
        <3>1. q + p <= last
            BY <1>2, <2>1, <2>5 DEF Layout, N, last
        <3>2. q \in Nat /\ p \in Nat /\ p >= 1 /\ at = start + q
            BY <2>2, <2>3 DEF at
        <3> HIDE DEF p, q
        <3> QED
            BY <1>0, <3>1, <3>2
    <2>11. Advanced(bytes, s) = [at |-> at + Len(part), previous |-> o[k].name,
                                 options |-> AddOption(SubSeq(o, 1, k - 1), o[k])]
        <3>1. s.at = at /\ s.previous = previous /\ s.options = SubSeq(o, 1, k - 1)
            BY <2>3
        <3>2. [name |-> previous + d, value |-> value] = o[k]
            BY <2>7, <2>8
        <3>3. OptionAt(bytes, at, previous) = [option |-> o[k], next |-> at + Len(part)]
            BY <2>9, <3>2 DEF ReadAs
        <3> QED
            BY <2>9, <2>10, <3>1, <3>3 DEF Advanced, M
    <2>12. AddOption(SubSeq(o, 1, k - 1), o[k]) = SubSeq(o, 1, k)
        BY <1>5, AddLast DEF N
    <2>13. at + Len(part) = start + L[k]
        BY <1>0, <2>2, <2>3, <2>5 DEF at
    <2> QED
        BY <1>6, <2>1, <2>11, <2>12, <2>13 DEF s
\* After the last option comes the end of the frame, or the mark of the payload.
<1>9. /\ Advanced(bytes, State[N]) = State[N]
      /\ State[N].options = o
      /\ SubSeq(bytes, State[N].at + 1, M) = payload
    <2> DEFINE at == start + last
    <2>1. N \in 0..N /\ State[N].at = at /\ State[N].options = SubSeq(o, 1, N)
        <3>1. N \in 0..N
            BY <1>3
        <3>2. State[N] = [at |-> start + L[N], previous |-> IF N = 0 THEN 0 ELSE o[N].name,
                          options |-> SubSeq(o, 1, N)]
            BY <1>6, <3>1
        <3> QED
            BY <3>1, <3>2 DEF last
    <2>2. SubSeq(o, 1, N) = o
        <3>1. \A i \in 1..N : o[i] \in CoapOptions
            BY <1>5, ElementOfSeq DEF N
        <3>2. /\ SubSeq(o, 1, N) \in Seq(CoapOptions) /\ Len(SubSeq(o, 1, N)) = N
              /\ \A i \in 1..N : SubSeq(o, 1, N)[i] = o[i]
            BY <1>3, <3>1, SubSeqProperties
        <3> QED
            BY <1>5, <3>2, SeqEqual DEF N
    <2>3. CASE payload = <<>>
        <3>1. e = 0
            BY <1>1, <2>3 DEF e
        <3>2. at > M /\ M < at + 1 /\ at + 1 \in Int /\ M \in Int
            BY <1>0, <1>4, <3>1
        <3> HIDE DEF at
        <3>3. SubSeq(bytes, at + 1, M) = <<>>
            BY <3>2, SubSeqEmpty
        <3>4. Advanced(bytes, State[N]) = State[N]
            BY <2>1, <3>2 DEF Advanced, M
        <3> QED
            BY <2>1, <2>2, <2>3, <3>3, <3>4
    <2>4. CASE payload # <<>>
        <3>1. /\ e = 1 + Len(payload) /\ ending[1] = 255 /\ Len(payload) \in Nat
              /\ \A j \in 1..Len(payload) : ending[1 + j] = payload[j]
            BY <1>1, <2>4 DEF e
        <3>2. \A j \in 1..e : bytes[h + last + j] = ending[j]
            BY <1>2 DEF Layout, bytes, h, N, last, e
        <3>3. at = h + last + 1 /\ at + 1 \in Int /\ M \in Int /\ M - (at + 1) + 1 = Len(payload)
            BY <1>0, <1>4, <3>1
        <3>4. bytes[at] = 255
            <4>1. 1 \in 1..e
                BY <3>1
            <4> QED
                BY <3>1, <3>2, <3>3, <4>1
        <3>5. Advanced(bytes, State[N]) = State[N]
            BY <2>1, <3>4 DEF Advanced
        <3> DEFINE m == at + 1
        <3>6. ASSUME NEW j \in 1..Len(payload) PROVE bytes[m + j - 1] = payload[j]
            <4>1. 1 + j \in 1..e /\ m + j - 1 = h + last + (1 + j)
                BY <1>0, <3>1, <3>3
            <4>2. bytes[h + last + (1 + j)] = ending[1 + j] /\ ending[1 + j] = payload[j]
                BY <3>1, <3>2, <4>1
            <4> HIDE DEF m
            <4> QED
                BY <4>1, <4>2
        <3> HIDE DEF m
        <3>7. m \in Int /\ M \in Int /\ M - m + 1 = Len(payload)
            BY <3>3 DEF m
        <3>8. \A i \in m..M : bytes[i] \in Byte
            <4> TAKE i \in m..M
            <4>1. i - m + 1 \in 1..Len(payload) /\ m + (i - m + 1) - 1 = i
                BY <3>1, <3>7
            <4>2. bytes[i] = payload[i - m + 1]
                BY <3>6, <4>1
            <4> QED
                BY <4>1, <4>2, ElementOfSeq
        <3>9. /\ SubSeq(bytes, m, M) \in Seq(Byte)
              /\ Len(SubSeq(bytes, m, M)) = IF m <= M THEN M - m + 1 ELSE 0
              /\ \A j \in 1..(M - m + 1) : SubSeq(bytes, m, M)[j] = bytes[m + j - 1]
            BY <3>7, <3>8, SubSeqProperties
        <3>10. Len(SubSeq(bytes, m, M)) = Len(payload)
            BY <3>1, <3>7, <3>9
        <3>11. \A j \in 1..Len(SubSeq(bytes, m, M)) : SubSeq(bytes, m, M)[j] = payload[j]
            BY <3>6, <3>7, <3>9, <3>10
        <3>12. SubSeq(bytes, m, M) = payload
            BY <3>9, <3>10, <3>11, SeqEqual
        <3> QED
            BY <2>1, <2>2, <3>5, <3>12 DEF m
    <2> QED
        BY <2>3, <2>4
<1>10. DecodedFrom(bytes, start)
         = [options |-> State[N].options, payload |-> SubSeq(bytes, State[N].at + 1, Len(bytes))]
    <2>1. M = Len(bytes)
        BY DEF M
    <2> QED
        BY <1>4, <1>7, <1>8, <1>9, <2>1, LoopEnds
<1> QED
    BY <1>9, <1>10 DEF M, bytes, start, ending

\* A message that its frame can carry: options in order, and everything within its field.
Carried(m) ==
    /\ m \in Messages /\ m.version \in 0..3 /\ Len(m.token) <= 15
    /\ m.options \in Seq(ShortOptions) /\ Sorted(m.options)

LEMMA HeaderNumbers ==
    ASSUME NEW v \in Nat, NEW t \in 0..3, NEW l \in Nat, l < 16
    PROVE  /\ 64 * v + 16 * t + l \in Nat
           /\ (64 * v + 16 * t + l) \div 64 = v
           /\ ((64 * v + 16 * t + l) \div 16) % 4 = t
           /\ (64 * v + 16 * t + l) % 16 = l
<1>1. (64 * v + 16 * t + l) \div 16 = 4 * v + t
    OBVIOUS
<1> QED
    BY <1>1

\* createFromFrame reads every frame the other end writes as the message it was made of: for any
\* number of options, in any lengths up to 268, and any payload.
THEOREM FramesReadBack ==
    ASSUME NEW m, Carried(m)
    PROVE  CreateFromFrame(ServerFrame(m)) = m
<1> DEFINE o == m.options
           h == Header(m)
           head == h \o m.token
           ending == IF m.payload = <<>> THEN <<>> ELSE <<255>> \o m.payload
           bytes == Frame(o, head, ending)
           length == Len(m.token)
           first == 64 * m.version + 16 * m.type + length
<1>1. /\ m.version \in 0..3 /\ m.type \in 0..3 /\ m.code \in Byte /\ m.messageId \in UInt16
      /\ m.token \in Seq(Byte) /\ m.payload \in Seq(Byte)
      /\ o \in Seq(ShortOptions) /\ Sorted(o) /\ length <= 15
    BY DEF Carried, Messages
<1>2. m = [version |-> m.version, type |-> m.type, code |-> m.code, messageId |-> m.messageId,
           token |-> m.token, options |-> m.options, payload |-> m.payload]
    BY DEF Carried, Messages
<1>3. length \in Nat /\ m.token \in Seq(Nat) /\ m.code \in Nat /\ m.messageId \in Nat
    <2>1. Byte \subseteq Nat /\ UInt16 \subseteq Nat
        BY DEF Byte, UInt16
    <2>2. m.token \in Seq(Nat)
        BY <1>1, <2>1, SeqMonotonic
    <2>3. length \in Nat
        BY <2>2, LenProperties
    <2> QED
        BY <1>1, <2>1, <2>2, <2>3
<1>4. /\ first \in Nat /\ first \div 64 = m.version /\ (first \div 16) % 4 = m.type
      /\ first % 16 = length
    <2> DEFINE v == m.version
               t == m.type
    <2>1. v \in 0..3 /\ t \in 0..3 /\ length \in Nat /\ length <= 15
        BY <1>1, <1>3
    <2> HIDE DEF v, t, length
    <2>2. v \in Nat /\ t \in 0..3 /\ length \in Nat /\ length < 16
        BY <2>1
    <2>3. /\ 64 * v + 16 * t + length \in Nat
          /\ (64 * v + 16 * t + length) \div 64 = v
          /\ ((64 * v + 16 * t + length) \div 16) % 4 = t
          /\ (64 * v + 16 * t + length) % 16 = length
        BY <2>2, HeaderNumbers
    <2> QED
        BY <2>3 DEF v, t
<1>5. ServerFrame(m) = bytes
    BY ServerFrameParts DEF Frame, Ending
<1> DEFINE high == m.messageId \div 256
           low == m.messageId % 256
<1>6. high \in Nat /\ low \in Nat /\ 256 * high + low = m.messageId
    BY <1>3
<1>7. h = <<first, m.code, high, low>>
    BY DEF Header
<1> HIDE DEF first, high, low, h, length
<1>8. h \in Seq(Nat) /\ Len(h) = 4 /\ h[1] = first /\ h[2] = m.code /\ h[3] = high /\ h[4] = low
    BY <1>3, <1>4, <1>6, <1>7
<1>9. /\ head \in Seq(Nat) /\ Len(head) = 4 + length
      /\ \A i \in 1..4 : head[i] = h[i]
      /\ \A i \in 1..length : head[4 + i] = m.token[i]
    <2>0. h \in Seq(Nat) /\ m.token \in Seq(Nat)
        BY <1>3, <1>8
    <2>1. /\ h \o m.token \in Seq(Nat) /\ Len(h \o m.token) = Len(h) + Len(m.token)
          /\ \A i \in 1..Len(h) : (h \o m.token)[i] = h[i]
          /\ \A i \in 1..Len(m.token) : (h \o m.token)[Len(h) + i] = m.token[i]
        BY <2>0, ConcatPlaces
    <2> QED
        BY <1>8, <2>1 DEF length
<1> HIDE DEF head
<1>10. DecodedFrom(bytes, 5 + length) = [options |-> o, payload |-> m.payload]
    <2>1. DecodedFrom(bytes, Len(head) + 1) = [options |-> o, payload |-> m.payload]
        <3> HIDE DEF o
        <3> QED
            BY <1>1, <1>9, OptionsDecoded
    <2>2. Len(head) + 1 = 5 + length
        BY <1>3, <1>9
    <2> QED
        BY <2>1, <2>2
<1>11. \A j \in 1..Len(head) : bytes[j] = head[j]
    <2>1. ending \in Seq(Nat)
        <3>1. m.payload \in Seq(Nat)
            <4>1. Byte \subseteq Nat
                BY DEF Byte
            <4> QED
                BY <1>1, <4>1, SeqMonotonic
        <3>2. <<255>> \in Seq(Nat)
            OBVIOUS
        <3> QED
            BY <3>1, <3>2, EmptySeq, ConcatProperties
    <2> HIDE DEF o, ending
    <2>2. PICK L : Layout(o, head, ending, L)
        BY <1>1, <1>9, <2>1, FrameLayout
    <2> QED
        BY <2>2 DEF Layout
<1> HIDE DEF bytes, o
<1>12. bytes[1] = first /\ bytes[2] = m.code /\ bytes[3] = high /\ bytes[4] = low
    <2>1. /\ 1 \in 1..Len(head) /\ 2 \in 1..Len(head) /\ 3 \in 1..Len(head) /\ 4 \in 1..Len(head)
        BY <1>3, <1>9
    <2> QED
        BY <1>8, <1>9, <1>11, <2>1
<1>13. SubSeq(bytes, 5, 4 + length) = m.token
    <2> DEFINE n == 4 + length
    <2>1. ASSUME NEW j \in 1..length PROVE bytes[4 + j] = m.token[j]
        <3>1. length \in Nat /\ Len(head) = 4 + length
            BY <1>3, <1>9
        <3>2. 4 + j \in 1..(4 + length)
            BY <3>1
        <3> QED
            BY <1>9, <1>11, <3>1, <3>2
    <2>2. 5 \in Int /\ n \in Int /\ n - 5 + 1 = length
        BY <1>3
    <2>3. \A i \in 5..n : bytes[i] \in Nat
        <3> TAKE i \in 5..n
        <3>1. i - 4 \in 1..length /\ 4 + (i - 4) = i
            BY <1>3, <2>2
        <3>2. bytes[i] = m.token[i - 4]
            BY <2>1, <3>1
        <3> QED
            BY <1>3, <3>1, <3>2, ElementOfSeq DEF length
    <2> HIDE DEF n
    <2>4. /\ SubSeq(bytes, 5, n) \in Seq(Nat)
          /\ Len(SubSeq(bytes, 5, n)) = IF 5 <= n THEN n - 5 + 1 ELSE 0
          /\ \A i \in 1..(n - 5 + 1) : SubSeq(bytes, 5, n)[i] = bytes[5 + i - 1]
        BY <2>2, <2>3, SubSeqProperties
    <2>5. Len(SubSeq(bytes, 5, n)) = length
        BY <1>3, <2>2, <2>4
    <2>6. ASSUME NEW i \in 1..length PROVE SubSeq(bytes, 5, n)[i] = m.token[i]
        <3>1. 5 + i - 1 = 4 + i
            BY <1>3
        <3> QED
            BY <2>1, <2>2, <2>4, <3>1
    <2>7. SubSeq(bytes, 5, n) = m.token
        BY <1>3, <2>4, <2>5, <2>6, SeqEqual DEF length
    <2> QED
        BY <2>7 DEF n
<1>14. CreateFromFrame(bytes)
         = [version |-> bytes[1] \div 64, type |-> (bytes[1] \div 16) % 4, code |-> bytes[2],
            messageId |-> 256 * bytes[3] + bytes[4],
            token |-> SubSeq(bytes, 5, 4 + (bytes[1] % 16)),
            options |-> DecodedFrom(bytes, 5 + (bytes[1] % 16)).options,
            payload |-> DecodedFrom(bytes, 5 + (bytes[1] % 16)).payload]
    BY DEF CreateFromFrame
<1>15. /\ bytes[1] \div 64 = m.version /\ (bytes[1] \div 16) % 4 = m.type
       /\ bytes[1] % 16 = length /\ 256 * bytes[3] + bytes[4] = m.messageId
    BY <1>4, <1>6, <1>12
<1>16. /\ DecodedFrom(bytes, 5 + (bytes[1] % 16)).options = m.options
       /\ DecodedFrom(bytes, 5 + (bytes[1] % 16)).payload = m.payload
       /\ SubSeq(bytes, 5, 4 + (bytes[1] % 16)) = m.token
    BY <1>10, <1>13, <1>15 DEF o
<1>17. CreateFromFrame(bytes) = m
    BY <1>2, <1>12, <1>14, <1>15, <1>16
<1> QED
    BY <1>5, <1>17

(***************************************************************************)
(* Lists of short options.                                                 *)
(***************************************************************************)

ShortLists == Seq(ShortOptions)

LEMMA EntriesIn ==
    ASSUME NEW S, NEW T, NEW s \in Seq(S), \A i \in 1..Len(s) : s[i] \in T
    PROVE  s \in Seq(T)
<1>1. Len(s) \in Nat /\ s \in [1..Len(s) -> S]
    BY LenProperties
<1>2. s \in [1..Len(s) -> T]
    BY <1>1
<1> QED
    BY <1>1, <1>2, SeqDef

LEMMA AddIn ==
    ASSUME NEW T, T \subseteq CoapOptions, NEW options \in Seq(T), NEW option \in T
    PROVE  AddOption(options, option) \in Seq(T)
<1> DEFINE all == AddOption(options, option)
<1>1. options \in Seq(CoapOptions) /\ option \in CoapOptions
    BY SeqMonotonic
<1>2. PICK p \in 1..(Len(options) + 1) : Inserted(all, options, option, p)
    BY <1>1, AddedAt
<1> HIDE DEF all
<1>3. Len(options) \in Nat /\ \A j \in 1..Len(options) : options[j] \in T
    BY ElementOfSeq, LenProperties
<1>4. /\ all \in Seq(CoapOptions) /\ Len(all) = Len(options) + 1
      /\ \A i \in 1..(Len(options) + 1) :
            all[i] = IF i < p THEN options[i] ELSE IF i = p THEN option ELSE options[i - 1]
    BY <1>2 DEF Inserted
<1>5. ASSUME NEW i \in 1..Len(all) PROVE all[i] \in T
    <2>1. i \in 1..(Len(options) + 1) /\ p \in 1..(Len(options) + 1)
        BY <1>4
    <2>2. CASE i < p
        <3>1. i \in 1..Len(options)
            BY <1>3, <2>1, <2>2
        <3> QED
            BY <1>3, <1>4, <2>1, <2>2, <3>1
    <2>3. CASE i = p
        BY <1>4, <2>1, <2>3
    <2>4. CASE i > p
        <3>1. i - 1 \in 1..Len(options) /\ ~ (i < p) /\ i # p
            BY <1>3, <2>1, <2>4
        <3> QED
            BY <1>3, <1>4, <2>1, <3>1
    <2> QED
        BY <1>3, <2>1, <2>2, <2>3, <2>4
<1>6. all \in Seq(T)
    BY <1>4, <1>5, EntriesIn
<1> QED
    BY <1>6 DEF all

LEMMA FromIn ==
    ASSUME NEW T, NEW list \in Seq(CoapOptions), NEW options \in Seq(T), From(list, options)
    PROVE  list \in Seq(T)
<1>1. \A j \in 1..Len(options) : options[j] \in T
    BY ElementOfSeq
<1>2. \A i \in 1..Len(list) : list[i] \in T
    BY <1>1 DEF From
<1> QED
    BY <1>2, EntriesIn

LEMMA ShortIsTyped == ShortOptions \subseteq CoapOptions /\ ShortLists \subseteq Seq(CoapOptions)
<1>1. ShortOptions \subseteq CoapOptions
    BY DEF ShortOptions
<1> QED
    BY <1>1, SeqMonotonic DEF ShortLists

LEMMA ShortEmpty == <<>> \in ShortLists
    BY EmptySeq DEF ShortLists

LEMMA ShortFrom ==
    ASSUME NEW list \in Seq(CoapOptions), NEW options \in ShortLists, From(list, options)
    PROVE  list \in ShortLists
BY FromIn DEF ShortLists

LEMMA ShortAdd ==
    ASSUME NEW options \in ShortLists, NEW option \in ShortOptions
    PROVE  AddOption(options, option) \in ShortLists
BY AddIn, ShortIsTyped DEF ShortLists

LEMMA ShortAddAll ==
    ASSUME NEW options \in ShortLists, NEW more \in ShortLists
    PROVE  AddOptions(options, more) \in ShortLists
<1>1. \A v \in ShortLists, i \in 1..Len(more) : AddOption(v, more[i]) \in ShortLists
    <2> TAKE v \in ShortLists, i \in 1..Len(more)
    <2>1. more[i] \in ShortOptions
        BY ElementOfSeq DEF ShortLists
    <2> QED
        BY <2>1, ShortAdd
<1>2. more \in Seq(CoapOptions)
    BY ShortIsTyped
<1>3. PICK F : Added(ShortLists, options, more, AddOptions(options, more), F)
    BY <1>1, <1>2, AddOptionsSteps
<1>4. Len(more) \in Nat
    BY <1>2, LenProperties
<1> QED
    BY <1>3, <1>4 DEF Added

LEMMA ShortOption ==
    ASSUME NEW name \in {"UriHost", "UriPort", "UriPath", "UriQuery", "ProxyUri", "Observe"},
           NEW value \in Seq(Byte), Len(value) <= 268
    PROVE  Option(name, value) \in ShortOptions
<1>1. OptionNumber[name] <= 268
    BY DEF OptionNumber
<1>2. Option(name, value) \in CoapOptions
    BY OptionType
<1>3. Option(name, value).name = OptionNumber[name] /\ Option(name, value).value = value
    BY DEF Option
<1> QED
    BY <1>1, <1>2, <1>3 DEF ShortOptions

\* A number of 16 bits takes at most two bytes.
LEMMA UintOf16Bits ==
    ASSUME NEW n \in UInt16
    PROVE  UintBytes(n) \in Seq(Byte) /\ Len(UintBytes(n)) <= 2
<1>1. n \in Nat /\ n <= 256 * 256 - 1
    BY DEF UInt16
<1> DEFINE a == n \div 256
           b == a \div 256
<1>2. a \in Nat /\ a <= 255
    BY <1>1
<1>3. b = 0
    BY <1>2
<1>4. n % 256 \in Byte /\ a % 256 \in Byte
    BY <1>1, <1>2 DEF Byte
<1>5. \A s \in Seq(Byte), x \in Byte : Len(<<x>> \o s) = 1 + Len(s)
    <2> TAKE s \in Seq(Byte), x \in Byte
    <2>1. <<x>> \in Seq(Byte) /\ Len(<<x>>) = 1
        OBVIOUS
    <2> QED
        BY <2>1, ConcatProperties
<1>6. UintBytes(0) = <<>>
    BY UintBytesType
<1>7. UintBytes(a) \in Seq(Byte) /\ Len(UintBytes(a)) <= 1
    <2> HIDE DEF a
    <2>1. UintBytes(a) \in Seq(Byte) /\ UintBytes(a) = IF a = 0 THEN <<>> ELSE <<a % 256>> \o UintBytes(b)
        BY <1>2, UintBytesType
    <2>2. Len(<<>>) = 0 /\ <<>> \in Seq(Byte)
        BY EmptySeq
    <2>3. Len(<<a % 256>> \o <<>>) = 1
        BY <1>4, <1>5, <2>2
    <2>4. UintBytes(b) = <<>>
        BY <1>3, <1>6
    <2>5. CASE a = 0
        BY <2>1, <2>2, <2>5
    <2>6. CASE a # 0
        <3>1. UintBytes(a) = <<a % 256>> \o <<>>
            BY <2>1, <2>4, <2>6
        <3> QED
            BY <2>1, <2>3, <3>1
    <2> QED
        BY <2>5, <2>6
<1> HIDE DEF b
<1>8. UintBytes(n) \in Seq(Byte) /\ UintBytes(n) = IF n = 0 THEN <<>> ELSE <<n % 256>> \o UintBytes(a)
    BY <1>1, UintBytesType
<1> HIDE DEF a
<1>9. Len(<<n % 256>> \o UintBytes(a)) = 1 + Len(UintBytes(a)) /\ Len(UintBytes(a)) \in Nat
    BY <1>4, <1>5, <1>7, LenProperties
<1>10. Len(<<>>) = 0
    BY EmptySeq
<1> QED
    BY <1>7, <1>8, <1>9, <1>10

LEMMA ShortOne == \A option \in ShortOptions : <<option>> \in ShortLists
    BY DEF ShortLists

LEMMA ShortConcat == \A a, b \in ShortLists : a \o b \in ShortLists
    BY ConcatProperties DEF ShortLists

(***************************************************************************)
(* The options of one name.                                                *)
(***************************************************************************)

\* One step of OptionsNamed.
WithNamed(named, o, name) == IF o.name = OptionNumber[name] THEN Append(named, o) ELSE named

\* OptionsNamed goes through the options.
Selected(V, name, options, all, F) ==
    /\ F \in [0..Len(options) -> V] /\ F[0] = <<>> /\ F[Len(options)] = all
    /\ \A k \in 1..Len(options) : F[k] = WithNamed(F[k - 1], options[k], name)

LEMMA OptionsNamedSteps ==
    ASSUME NEW V, NEW name, NEW options \in Seq(CoapOptions),
           <<>> \in V,
           \A v \in V, i \in 1..Len(options) : WithNamed(v, options[i], name) \in V
    PROVE  \E F : Selected(V, name, options, OptionsNamed(options, name), F)
<1> DEFINE N == Len(options)
           step == [p \in V \X (1..N) |-> WithNamed(p[1], options[p[2]], name)]
           Fold(G) == [S \in SUBSET (DOMAIN options) |->
                          IF S = {} THEN <<>>
                          ELSE LET x == Max(S) IN WithNamed(G[S \ {x}], options[x], name)]
           G == CHOOSE H : H = Fold(H)
<1>1. N \in Nat
    BY LenProperties
<1>2. DOMAIN options = 1..N
    BY LenProperties
<1>3. /\ step \in [V \X (1..N) -> V]
      /\ \A v \in V, i \in 1..N : step[<<v, i>>] = WithNamed(v, options[i], name)
    OBVIOUS
<1>4. OptionsNamed(options, name) = G[DOMAIN options]
    BY Zenon DEF OptionsNamed, WithNamed, FoldLeft, MapThenFoldSet
<1> HIDE DEF step, N
<1>5. \E H : H = Fold(H)
    <2>1. PICK H : FoldTable(V, <<>>, step, N, H)
        BY <1>1, <1>3, FoldTableExists
    <2>2. ASSUME NEW S \in SUBSET (1..N)
          PROVE  H[S] = IF S = {} THEN <<>> ELSE WithNamed(H[S \ {Max(S)}], options[Max(S)], name)
        <3>1. S # {} => Max(S) \in 1..N /\ H[S \ {Max(S)}] \in V
            BY <1>1, <2>1, MaxOfSome DEF FoldTable
        <3> QED
            BY <1>3, <2>1, <3>1 DEF FoldTable
    <2>3. H = [S \in SUBSET (1..N) |-> H[S]]
        BY <2>1 DEF FoldTable
    <2>4. H = Fold(H)
        BY <1>2, <2>2, <2>3
    <2> QED
        BY <2>4
<1>6. G = Fold(G)
    BY <1>5
<1> HIDE DEF G
<1>7. \A S \in SUBSET (1..N) :
        G[S] = IF S = {} THEN <<>> ELSE WithNamed(G[S \ {Max(S)}], options[Max(S)], name)
    BY <1>2, <1>6
<1> HIDE DEF Fold
<1>8. Folds(V, <<>>, step, N, G)
    <2>1. ASSUME NEW S \in SUBSET (1..N), S # {}, G[S \ {Max(S)}] \in V
          PROVE  G[S] = step[<<G[S \ {Max(S)}], Max(S)>>]
        BY <1>1, <1>3, <1>7, <2>1, MaxOfSome
    <2> QED
        BY <1>7, <2>1 DEF Folds
<1>9. PICK F : Passes(V, <<>>, step, N, G[1..N], F)
    BY <1>1, <1>3, <1>8, FoldPasses
<1>10. ASSUME NEW k \in 1..N PROVE F[k] = WithNamed(F[k - 1], options[k], name)
    <2>1. k - 1 \in 0..N /\ F[k] = step[<<F[k - 1], k>>]
        BY <1>1, <1>9 DEF Passes
    <2>2. F[k - 1] \in V
        BY <1>9, <2>1 DEF Passes
    <2> QED
        BY <1>3, <2>1, <2>2
<1>11. Selected(V, name, options, OptionsNamed(options, name), F)
    BY <1>2, <1>4, <1>9, <1>10 DEF Passes, Selected, N
<1> QED
    BY <1>11

LEMMA PlusOneNat == \A k \in Nat : k + 1 \in Nat
    OBVIOUS

LEMMA NamedPasses ==
    ASSUME NEW name, NEW options \in Seq(CoapOptions)
    PROVE  \E F : Selected(Seq(CoapOptions), name, options, OptionsNamed(options, name), F)
<1>1. ASSUME NEW v \in Seq(CoapOptions), NEW i \in 1..Len(options)
      PROVE  WithNamed(v, options[i], name) \in Seq(CoapOptions)
    <2>1. options[i] \in CoapOptions
        BY ElementOfSeq
    <2>2. Append(v, options[i]) \in Seq(CoapOptions)
        BY <2>1, AppendProperties
    <2> QED
        BY <2>2 DEF WithNamed
<1>2. <<>> \in Seq(CoapOptions)
    BY EmptySeq
<1> QED
    BY <1>1, <1>2, OptionsNamedSteps

Regrouped(s, t, x) == Append(s \o t, x) = s \o Append(t, x)

LEMMA AppendOfConcat == ASSUME NEW S, NEW s \in Seq(S), NEW t \in Seq(S), NEW x \in S PROVE Regrouped(s, t, x)
    BY SMT DEF Regrouped

\* Reading a list is reading one part after the other.
LEMMA NamedConcat ==
    ASSUME NEW name, NEW a \in Seq(CoapOptions), NEW b \in Seq(CoapOptions)
    PROVE  /\ OptionsNamed(a, name) \in Seq(CoapOptions)
           /\ OptionsNamed(a \o b, name) = OptionsNamed(a, name) \o OptionsNamed(b, name)
<1> DEFINE c == a \o b
           V == Seq(CoapOptions)
<1>1. /\ c \in V /\ Len(c) = Len(a) + Len(b) /\ Len(a) \in Nat /\ Len(b) \in Nat
      /\ \A i \in 1..Len(a) : c[i] = a[i]
      /\ \A i \in 1..Len(b) : c[Len(a) + i] = b[i]
    BY ConcatPlaces
<1> HIDE DEF c
<1>2. PICK F : Selected(V, name, a, OptionsNamed(a, name), F)
    BY NamedPasses
<1>3. PICK G : Selected(V, name, b, OptionsNamed(b, name), G)
    BY NamedPasses
<1>4. PICK H : Selected(V, name, c, OptionsNamed(c, name), H)
    BY <1>1, NamedPasses
<1> DEFINE P == {k \in Nat : k <= Len(a) => H[k] = F[k]}
           R(k) == H[Len(a) + k] = F[Len(a)] \o G[k]
           Q == {k \in Nat : k <= Len(b) => R(k)}
<1>5. P = Nat
    <2>1. 0 \in P
        BY <1>1, <1>2, <1>4 DEF Selected
    <2>2. ASSUME NEW k \in P PROVE k + 1 \in P
        <3> SUFFICES ASSUME k + 1 <= Len(a) PROVE H[k + 1] = F[k + 1]
            OBVIOUS
        <3>1. k + 1 \in 1..Len(a) /\ k + 1 \in 1..Len(c) /\ (k + 1) - 1 = k /\ H[k] = F[k]
            BY <1>1
        <3>2. H[k + 1] = WithNamed(H[k], c[k + 1], name) /\ F[k + 1] = WithNamed(F[k], a[k + 1], name)
            BY <1>2, <1>4, <3>1 DEF Selected
        <3> QED
            BY <1>1, <3>1, <3>2
    <2> HIDE DEF P
    <2>3. P \in SUBSET Nat
        BY DEF P
    <2> QED
        BY <2>1, <2>2, <2>3, Induction
<1>6. H[Len(a)] = F[Len(a)] /\ F[Len(a)] \in V /\ F[Len(a)] = OptionsNamed(a, name)
    BY <1>1, <1>2, <1>5 DEF Selected
<1>7. Q = Nat
    <2>1. 0 \in Q
        <3>1. G[0] = <<>>
            BY <1>3 DEF Selected
        <3>2. F[Len(a)] \o <<>> = F[Len(a)]
            BY <1>6, ConcatEmptySeq
        <3>3. Len(a) + 0 = Len(a)
            BY <1>1
        <3>4. R(0)
            BY <1>6, <3>1, <3>2, <3>3
        <3> HIDE DEF R
        <3> QED
            BY <3>4
    <2>2. ASSUME NEW k \in Q PROVE k + 1 \in Q
        <3> HIDE DEF R
        <3> SUFFICES ASSUME k + 1 <= Len(b) PROVE R(k + 1)
            OBVIOUS
        <3> DEFINE m == Len(a) + (k + 1)
        <3>0. /\ k \in Nat /\ k + 1 \in 1..Len(b) /\ m \in 1..Len(c) /\ (k + 1) - 1 = k
              /\ m - 1 = Len(a) + k /\ R(k) /\ k \in 0..Len(b)
            BY <1>1
        <3>1. /\ k \in Nat /\ k + 1 \in 1..Len(b) /\ m \in 1..Len(c) /\ (k + 1) - 1 = k
              /\ m - 1 = Len(a) + k /\ H[m - 1] = F[Len(a)] \o G[k] /\ k \in 0..Len(b)
            BY <3>0, Zenon DEF R
        <3>2. H[m] = WithNamed(H[m - 1], c[m], name) /\ G[k + 1] = WithNamed(G[k], b[k + 1], name) /\ G[k] \in V
            BY <1>3, <1>4, <3>1 DEF Selected
        <3>3. c[m] = b[k + 1] /\ b[k + 1] \in CoapOptions
            BY <1>1, <3>1, ElementOfSeq
        <3> HIDE DEF m
        <3>4. Append(F[Len(a)] \o G[k], b[k + 1]) = F[Len(a)] \o Append(G[k], b[k + 1])
            <4> DEFINE s == F[Len(a)]
                       t == G[k]
                       x == b[k + 1]
            <4>1. s \in V /\ t \in V /\ x \in CoapOptions
                BY <1>6, <3>2, <3>3
            <4> HIDE DEF s, t, x
            <4>2. Regrouped(s, t, x)
                BY <4>1, AppendOfConcat
            <4> QED
                BY <4>2, Zenon DEF s, t, x, Regrouped
        <3>5. H[m] = F[Len(a)] \o G[k + 1]
            BY <3>1, <3>2, <3>3, <3>4 DEF WithNamed
        <3> QED
            BY <3>5, Zenon DEF m, R
    <2> HIDE DEF Q
    <2>3. Q \in SUBSET Nat
        BY DEF Q
    <2> QED
        BY <2>1, <2>2, <2>3, Induction
<1>8. H[Len(a) + Len(b)] = F[Len(a)] \o G[Len(b)]
    <2> HIDE DEF R
    <2>1. R(Len(b))
        BY <1>1, <1>7
    <2> QED
        BY <2>1, Zenon DEF R
<1>9. H[Len(c)] = OptionsNamed(c, name) /\ G[Len(b)] = OptionsNamed(b, name)
    BY <1>3, <1>4 DEF Selected
<1> QED
    BY <1>1, <1>6, <1>8, <1>9 DEF c

\* A list without options of the name, and one with nothing else.
LEMMA NamedNoneOrAll ==
    ASSUME NEW name, NEW options \in Seq(CoapOptions)
    PROVE  /\ (\A i \in 1..Len(options) : options[i].name # OptionNumber[name])
                 => OptionsNamed(options, name) = <<>>
           /\ (\A i \in 1..Len(options) : options[i].name = OptionNumber[name])
                 => OptionsNamed(options, name) = options
<1> DEFINE V == Seq(CoapOptions)
           N == Len(options)
<1>1. PICK F : Selected(V, name, options, OptionsNamed(options, name), F)
    BY NamedPasses
<1>2. N \in Nat
    BY LenProperties
<1>3. ASSUME \A i \in 1..N : options[i].name # OptionNumber[name]
      PROVE  OptionsNamed(options, name) = <<>>
    <2> DEFINE P == {k \in Nat : k <= N => F[k] = <<>>}
    <2>1. 0 \in P
        BY <1>1 DEF Selected
    <2>2. ASSUME NEW k \in P PROVE k + 1 \in P
        <3> SUFFICES ASSUME k + 1 <= N PROVE F[k + 1] = <<>>
            OBVIOUS
        <3>1. k + 1 \in 1..N /\ (k + 1) - 1 = k /\ F[k] = <<>>
            BY <1>2
        <3>2. F[k + 1] = WithNamed(F[k], options[k + 1], name)
            BY <1>1, <3>1 DEF Selected
        <3> QED
            BY <1>3, <3>1, <3>2 DEF WithNamed
    <2> HIDE DEF P
    <2>3. P \in SUBSET Nat
        BY DEF P
    <2>4. N \in P
        BY <1>2, <2>1, <2>2, <2>3, Induction
    <2>5. F[N] = <<>>
        BY <2>4 DEF P
    <2> QED
        BY <1>1, <2>5 DEF Selected
<1>4. ASSUME \A i \in 1..N : options[i].name = OptionNumber[name]
      PROVE  OptionsNamed(options, name) = options
    <2> DEFINE P == {k \in Nat : k <= N => Len(F[k]) = k /\ \A i \in 1..k : F[k][i] = options[i]}
    <2>0. \A k \in 0..N : F[k] \in V
        BY <1>1 DEF Selected
    <2>1. 0 \in P
        <3>1. F[0] = <<>>
            BY <1>1 DEF Selected
        <3> QED
            BY <3>1
    <2>2. ASSUME NEW k \in P PROVE k + 1 \in P
        <3> SUFFICES ASSUME k + 1 <= N
                     PROVE  Len(F[k + 1]) = k + 1 /\ \A i \in 1..(k + 1) : F[k + 1][i] = options[i]
            BY <1>2, Zenon, PlusOneNat
        <3>1. /\ k + 1 \in 1..N /\ (k + 1) - 1 = k /\ Len(F[k]) = k /\ k \in 0..N
              /\ \A i \in 1..k : F[k][i] = options[i]
            BY <1>2
        <3>2. F[k + 1] = WithNamed(F[k], options[k + 1], name)
            BY <1>1, <3>1 DEF Selected
        <3>3. options[k + 1] \in CoapOptions /\ F[k] \in V
            BY <2>0, <3>1, ElementOfSeq
        <3>4. F[k + 1] = Append(F[k], options[k + 1])
            BY <1>4, <3>1, <3>2 DEF WithNamed
        <3> QED
            BY <3>1, <3>3, <3>4
    <2> HIDE DEF P
    <2>3. P \in SUBSET Nat
        BY DEF P
    <2>4. N \in P
        BY <1>2, <2>1, <2>2, <2>3, Induction
    <2>5. Len(F[N]) = N /\ \A i \in 1..N : F[N][i] = options[i]
        BY <1>2, <2>4 DEF P
    <2>6. F[N] \in Seq(CoapOptions) /\ F[N] = OptionsNamed(options, name)
        BY <1>1, <1>2, <2>0 DEF Selected
    <2> QED
        BY <2>5, <2>6, SeqEqual
<1> QED
    BY <1>3, <1>4

\* HasOption finds what OptionsNamed lists.
LEMMA NamedIfHas ==
    ASSUME NEW name, NEW options \in Seq(CoapOptions)
    PROVE  HasOption(options, name) <=> OptionsNamed(options, name) # <<>>
<1> DEFINE N == Len(options)
<1>1. N \in Nat /\ DOMAIN options = 1..N
    BY LenProperties
<1>2. ASSUME ~HasOption(options, name) PROVE OptionsNamed(options, name) = <<>>
    <2>1. \A i \in 1..Len(options) : options[i].name # OptionNumber[name]
        BY <1>1, <1>2 DEF HasOption
    <2> QED
        BY <2>1, NamedNoneOrAll
<1>3. ASSUME HasOption(options, name) PROVE OptionsNamed(options, name) # <<>>
    <2>1. PICK m \in 1..N : options[m].name = OptionNumber[name]
        BY <1>1, <1>3 DEF HasOption
    <2>2. PICK F : Selected(Seq(CoapOptions), name, options, OptionsNamed(options, name), F)
        BY NamedPasses
    <2> DEFINE P == {k \in Nat : m + k <= N => F[m + k] # <<>>}
    <2>0. \A k \in 0..N : F[k] \in Seq(CoapOptions)
        BY <2>2 DEF Selected
    <2>3. \A k \in 1..N : F[k] = F[k - 1] \/ F[k] = Append(F[k - 1], options[k])
        BY <2>2 DEF Selected, WithNamed
    <2>4. \A s \in Seq(CoapOptions), x \in CoapOptions : Append(s, x) # <<>>
        OBVIOUS
    <2>5. \A k \in 1..N : options[k] \in CoapOptions
        BY ElementOfSeq
    <2>6. 0 \in P
        <3>1. F[m] = WithNamed(F[m - 1], options[m], name) /\ m - 1 \in 0..N /\ m + 0 = m
            BY <1>1, <2>1, <2>2 DEF Selected
        <3>2. F[m] = Append(F[m - 1], options[m])
            BY <2>1, <3>1 DEF WithNamed
        <3>3. F[m] # <<>>
            BY <2>0, <2>1, <2>4, <2>5, <3>1, <3>2
        <3> QED
            BY <3>1, <3>3
    <2>7. ASSUME NEW k \in P PROVE k + 1 \in P
        <3> SUFFICES ASSUME m + (k + 1) <= N PROVE F[m + (k + 1)] # <<>>
            OBVIOUS
        <3> DEFINE j == m + (k + 1)
        <3>1. j \in 1..N /\ j - 1 = m + k /\ F[m + k] # <<>> /\ m + k \in 0..N
            BY <1>1, <2>1
        <3> HIDE DEF j
        <3>2. F[j] # <<>>
            BY <2>0, <2>3, <2>4, <2>5, <3>1
        <3> QED
            BY <3>2 DEF j
    <2> HIDE DEF P
    <2>8. P \in SUBSET Nat
        BY DEF P
    <2>9. P = Nat
        BY <2>6, <2>7, <2>8, Induction
    <2> DEFINE d == N - m
    <2>10. d \in Nat /\ m + d = N
        BY <1>1, <2>1
    <2> HIDE DEF d
    <2>11. F[m + d] # <<>>
        <3>1. d \in P /\ m + d <= N
            BY <1>1, <2>9, <2>10
        <3> QED
            BY <3>1 DEF P
    <2>12. F[N] # <<>>
        BY <2>10, <2>11
    <2> QED
        BY <2>2, <2>12 DEF Selected
<1> QED
    BY <1>2, <1>3

\* Adding an option adds it to those of its name, at the end, and leaves the others alone.
LEMMA NamedAdded ==
    ASSUME NEW name, NEW options \in SortedLists, NEW option \in CoapOptions
    PROVE  OptionsNamed(AddOption(options, option), name)
              = WithNamed(OptionsNamed(options, name), option, name)
<1> DEFINE N == Len(options)
           p == InsertionPlace(options, option)
           a == SubSeq(options, 1, p - 1)
           b == SubSeq(options, p, N)
           On(s) == OptionsNamed(s, name)
<1>1. options \in Seq(CoapOptions) /\ Sorted(options) /\ N \in Nat /\ DOMAIN options = 1..N
    BY LenProperties DEF SortedLists
<1>2. p \in 1..(N + 1) /\ UpperBound(options, option, p)
    BY <1>1, InsertionPlaceIsUpperBound
<1>3. AddOption(options, option) = a \o <<option>> \o b
    BY DEF AddOption, InsertAt
<1> HIDE DEF p
<1>4. /\ a \in Seq(CoapOptions) /\ Len(a) = p - 1 /\ \A i \in 1..(p - 1) : a[i] = options[i]
      /\ b \in Seq(CoapOptions) /\ Len(b) = N + 1 - p /\ \A i \in 1..(N + 1 - p) : b[i] = options[p - 1 + i]
    BY <1>1, <1>2
<1> HIDE DEF a, b
<1>5. options = a \o b
    <2>1. /\ a \o b \in Seq(CoapOptions) /\ Len(a \o b) = Len(a) + Len(b)
          /\ \A i \in 1..Len(a) : (a \o b)[i] = a[i]
          /\ \A i \in 1..Len(b) : (a \o b)[Len(a) + i] = b[i]
        <3>1. a \in Seq(CoapOptions) /\ b \in Seq(CoapOptions)
            BY <1>4
        <3> QED
            BY <3>1, ConcatPlaces
    <2> DEFINE c == a \o b
    <2> HIDE DEF c
    <2>2. Len(c) = N
        BY <1>1, <1>2, <1>4, <2>1 DEF c
    <2>3. ASSUME NEW i \in 1..N PROVE options[i] = c[i]
        <3>1. CASE i < p
            <4>1. i \in 1..(p - 1) /\ i \in 1..Len(a)
                BY <1>1, <1>2, <1>4, <3>1
            <4> QED
                BY <1>4, <2>1, <4>1 DEF c
        <3>2. CASE i >= p
            <4> DEFINE j == i - (p - 1)
            <4>1. j \in 1..(N + 1 - p) /\ j \in 1..Len(b) /\ i = p - 1 + j /\ i = Len(a) + j
                BY <1>1, <1>2, <1>4, <3>2
            <4> HIDE DEF j
            <4> QED
                BY <1>4, <2>1, <4>1 DEF c
        <3> QED
            BY <1>1, <1>2, <3>1, <3>2
    <2>4. options = c
        BY <1>1, <2>1, <2>2, <2>3, SeqEqual DEF c
    <2> QED
        BY <2>4 DEF c
<1>6. <<option>> \in Seq(CoapOptions)
    OBVIOUS
<1>7. /\ On(a) \in Seq(CoapOptions) /\ On(b) \in Seq(CoapOptions) /\ On(<<option>>) \in Seq(CoapOptions)
      /\ On(options) = On(a) \o On(b)
      /\ On(AddOption(options, option)) = On(a) \o On(<<option>>) \o On(b)
    <2>1. a \o <<option>> \in Seq(CoapOptions)
        BY <1>4, <1>6, ConcatProperties
    <2>2. On(a \o <<option>>) = On(a) \o On(<<option>>)
        BY <1>4, <1>6, NamedConcat
    <2>3. On((a \o <<option>>) \o b) = On(a \o <<option>>) \o On(b)
        BY <1>4, <2>1, NamedConcat
    <2>4. On(a \o b) = On(a) \o On(b)
        BY <1>4, NamedConcat
    <2>5. On(a) \in Seq(CoapOptions) /\ On(b) \in Seq(CoapOptions) /\ On(<<option>>) \in Seq(CoapOptions)
        BY <1>4, <1>6, NamedConcat
    <2> HIDE DEF On
    <2> QED
        BY <1>3, <1>5, <2>2, <2>3, <2>4, <2>5
<1>8. CASE option.name = OptionNumber[name]
    <2>1. On(<<option>>) = <<option>>
        <3>1. \A i \in 1..Len(<<option>>) : <<option>>[i].name = OptionNumber[name]
            BY <1>8
        <3> QED
            BY <1>6, <3>1, NamedNoneOrAll
    <2>2. On(b) = <<>>
        <3>1. ASSUME NEW i \in 1..Len(b) PROVE b[i].name # OptionNumber[name]
            <4>1. i \in 1..(N + 1 - p) /\ p - 1 + i \in 1..N /\ p \in 1..N /\ p <= p - 1 + i
                BY <1>1, <1>2, <1>4
            <4>2. options[p].name > option.name /\ options[p].name <= options[p - 1 + i].name
                <5>1. p < p - 1 + i => options[p].name <= options[p - 1 + i].name
                    BY <1>1, <4>1 DEF Sorted
                <5>2. p = p - 1 + i => options[p].name <= options[p - 1 + i].name
                    BY <1>1, <4>1, NumbersOfOptions
                <5>3. options[p].name > option.name
                    BY <1>2, <4>1 DEF UpperBound
                <5>4. p < p - 1 + i \/ p = p - 1 + i
                    BY <1>1, <4>1
                <5> QED
                    BY <5>1, <5>2, <5>3, <5>4
            <4>3. options[p].name \in Nat /\ options[p - 1 + i].name \in Nat /\ option.name \in Nat
                BY <1>1, <4>1, NumbersOfOptions DEF CoapOptions
            <4>4. b[i] = options[p - 1 + i]
                BY <1>4, <4>1
            <4> QED
                BY <1>8, <4>2, <4>3, <4>4
        <3> QED
            BY <1>4, <3>1, NamedNoneOrAll
    <2> HIDE DEF On
    <2>3. On(a) \o <<option>> = Append(On(a), option)
        BY <1>7
    <2>4. On(options) = On(a)
        BY <1>7, <2>2, ConcatEmptySeq
    <2>5. On(a) \o <<option>> \in Seq(CoapOptions)
        BY <1>6, <1>7, ConcatProperties
    <2>6. On(a) \o <<option>> \o <<>> = On(a) \o <<option>>
        BY <2>5, ConcatEmptySeq
    <2>7. On(AddOption(options, option)) = Append(On(options), option)
        BY <1>7, <2>1, <2>2, <2>3, <2>4, <2>6
    <2> QED
        BY <1>8, <2>7 DEF On, WithNamed
<1>9. CASE option.name # OptionNumber[name]
    <2>1. On(<<option>>) = <<>>
        <3>1. \A i \in 1..Len(<<option>>) : <<option>>[i].name # OptionNumber[name]
            BY <1>9
        <3> QED
            BY <1>6, <3>1, NamedNoneOrAll
    <2> HIDE DEF On
    <2>2. On(a) \o <<>> = On(a)
        BY <1>7, ConcatEmptySeq
    <2>3. On(AddOption(options, option)) = On(options)
        BY <1>7, <2>1, <2>2
    <2> QED
        BY <1>9, <2>3 DEF On, WithNamed
<1> QED
    BY <1>8, <1>9

\* Adding options one by one is, for each name, adding those of the name.
LEMMA NamedAddedAll ==
    ASSUME NEW name, NEW options \in SortedLists, NEW more \in Seq(CoapOptions)
    PROVE  OptionsNamed(AddOptions(options, more), name)
              = OptionsNamed(options, name) \o OptionsNamed(more, name)
<1> DEFINE V == Seq(CoapOptions)
           base == OptionsNamed(options, name)
<1>1. \A v \in SortedLists, i \in 1..Len(more) : AddOption(v, more[i]) \in SortedLists
    BY ElementOfSeq, AddOptionKeepsOrder DEF SortedLists
<1>2. PICK F : Added(SortedLists, options, more, AddOptions(options, more), F)
    BY <1>1, AddOptionsSteps
<1>3. PICK G : Selected(V, name, more, OptionsNamed(more, name), G)
    BY NamedPasses
<1>4. Len(more) \in Nat /\ base \in V
    <2>1. options \in V
        BY DEF SortedLists
    <2> QED
        BY <2>1, LenProperties, NamedConcat
<1> HIDE DEF base
<1> DEFINE R(k) == OptionsNamed(F[k], name) = base \o G[k]
           P == {k \in Nat : k <= Len(more) => R(k)}
<1>5. 0 \in P
    <2>1. F[0] = options /\ G[0] = <<>>
        BY <1>2, <1>3 DEF Added, Selected
    <2>2. R(0)
        BY <1>4, <2>1, ConcatEmptySeq DEF base
    <2> HIDE DEF R
    <2> QED
        BY <2>2
<1>6. ASSUME NEW k \in P PROVE k + 1 \in P
    <2> HIDE DEF R
    <2> SUFFICES ASSUME k + 1 <= Len(more) PROVE R(k + 1)
        OBVIOUS
    <2> DEFINE x == more[k + 1]
               s == G[k]
    <2>1. k \in Nat /\ k + 1 \in 1..Len(more) /\ (k + 1) - 1 = k /\ R(k) /\ k \in 0..Len(more)
        BY <1>4
    <2>2. F[k + 1] = AddOption(F[k], x) /\ F[k] \in SortedLists
        BY <1>2, <2>1 DEF Added
    <2>3. G[k + 1] = WithNamed(s, x, name) /\ s \in V
        BY <1>3, <2>1 DEF Selected
    <2>4. x \in CoapOptions
        BY <2>1, ElementOfSeq
    <2> HIDE DEF x, s
    <2>5. OptionsNamed(F[k + 1], name) = WithNamed(OptionsNamed(F[k], name), x, name)
        BY <2>2, <2>4, NamedAdded
    <2>6. OptionsNamed(F[k], name) = base \o s
        BY <2>1, Zenon DEF R, s
    <2>7. Regrouped(base, s, x)
        BY <1>4, <2>3, <2>4, AppendOfConcat
    <2>8. OptionsNamed(F[k + 1], name) = base \o G[k + 1]
        <3>1. CASE x.name = OptionNumber[name]
            BY <2>3, <2>5, <2>6, <2>7, <3>1, Zenon DEF WithNamed, Regrouped
        <3>2. CASE x.name # OptionNumber[name]
            BY <2>3, <2>5, <2>6, <3>2, Zenon DEF WithNamed
        <3> QED
            BY <3>1, <3>2
    <2> QED
        BY <2>8, Zenon DEF R
<1>7. R(Len(more))
    <2> HIDE DEF P
    <2>1. P \in SUBSET Nat
        BY DEF P
    <2>2. Len(more) \in P
        BY <1>4, <1>5, <1>6, <2>1, Induction
    <2> HIDE DEF R
    <2> QED
        BY <1>4, <2>2 DEF P
<1>8. OptionsNamed(F[Len(more)], name) = base \o G[Len(more)]
    BY <1>7, Zenon DEF R
<1>9. F[Len(more)] = AddOptions(options, more) /\ G[Len(more)] = OptionsNamed(more, name)
    BY <1>2, <1>3 DEF Added, Selected
<1> QED
    BY <1>8, <1>9 DEF base

(***************************************************************************)
(* Numbers in the values of options.                                       *)
(***************************************************************************)

\* UintValue goes through the places of the bytes.
Places(bytes) == [i \in DOMAIN bytes |-> i]
WithByte(n, bytes, i) == n + bytes[i] * 256^(i - 1)

\* The sum of the bytes, each at its place.
Summed(V, option, all, F) ==
    /\ F \in [0..Len(Places(option.value)) -> V] /\ F[0] = 0 /\ F[Len(Places(option.value))] = all
    /\ \A k \in 1..Len(Places(option.value)) : F[k] = WithByte(F[k - 1], option.value, Places(option.value)[k])

LEMMA UintValueSteps ==
    ASSUME NEW V, NEW option, option.value \in Seq(Byte), Places(option.value) \in Seq(Nat),
           0 \in V,
           \A v \in V, i \in 1..Len(Places(option.value)) : WithByte(v, option.value, Places(option.value)[i]) \in V
    PROVE  \E F : Summed(V, option, UintValue(option), F)
<1> DEFINE N == Len(Places(option.value))
           step == [p \in V \X (1..N) |-> WithByte(p[1], option.value, Places(option.value)[p[2]])]
           Fold(G) == [S \in SUBSET (DOMAIN Places(option.value)) |->
                          IF S = {} THEN 0
                          ELSE LET x == Max(S) IN WithByte(G[S \ {x}], option.value, Places(option.value)[x])]
           G == CHOOSE H : H = Fold(H)
<1>1. N \in Nat
    BY LenProperties
<1>2. DOMAIN Places(option.value) = 1..N
    BY LenProperties
<1>3. /\ step \in [V \X (1..N) -> V]
      /\ \A v \in V, i \in 1..N : step[<<v, i>>] = WithByte(v, option.value, Places(option.value)[i])
    OBVIOUS
<1>4. UintValue(option) = G[DOMAIN Places(option.value)]
    BY Zenon DEF UintValue, FoldLeftDomain, Places, WithByte, FoldLeft, MapThenFoldSet
<1> HIDE DEF step, N
<1>5. \E H : H = Fold(H)
    <2>1. PICK H : FoldTable(V, 0, step, N, H)
        BY <1>1, <1>3, FoldTableExists
    <2>2. ASSUME NEW S \in SUBSET (1..N)
          PROVE  H[S] = IF S = {} THEN 0 ELSE WithByte(H[S \ {Max(S)}], option.value, Places(option.value)[Max(S)])
        <3>1. S # {} => Max(S) \in 1..N /\ H[S \ {Max(S)}] \in V
            BY <1>1, <2>1, MaxOfSome DEF FoldTable
        <3> QED
            BY <1>3, <2>1, <3>1 DEF FoldTable
    <2>3. H = [S \in SUBSET (1..N) |-> H[S]]
        BY <2>1 DEF FoldTable
    <2>4. H = Fold(H)
        BY <1>2, <2>2, <2>3
    <2> QED
        BY <2>4
<1>6. G = Fold(G)
    BY <1>5
<1> HIDE DEF G
<1>7. \A S \in SUBSET (1..N) :
        G[S] = IF S = {} THEN 0 ELSE WithByte(G[S \ {Max(S)}], option.value, Places(option.value)[Max(S)])
    BY <1>2, <1>6
<1> HIDE DEF Fold
<1>8. Folds(V, 0, step, N, G)
    <2>1. ASSUME NEW S \in SUBSET (1..N), S # {}, G[S \ {Max(S)}] \in V
          PROVE  G[S] = step[<<G[S \ {Max(S)}], Max(S)>>]
        BY <1>1, <1>3, <1>7, <2>1, MaxOfSome
    <2> QED
        BY <1>7, <2>1 DEF Folds
<1>9. PICK F : Passes(V, 0, step, N, G[1..N], F)
    BY <1>1, <1>3, <1>8, FoldPasses
<1>10. ASSUME NEW k \in 1..N PROVE F[k] = WithByte(F[k - 1], option.value, Places(option.value)[k])
    <2>1. k - 1 \in 0..N /\ F[k] = step[<<F[k - 1], k>>]
        BY <1>1, <1>9 DEF Passes
    <2>2. F[k - 1] \in V
        BY <1>9, <2>1 DEF Passes
    <2> QED
        BY <1>3, <2>1, <2>2
<1>11. Summed(V, option, UintValue(option), F)
    BY <1>2, <1>4, <1>9, <1>10 DEF Passes, Summed, N
<1> QED
    BY <1>11

\* A list made of two.
MadeOf(S, s, t, l) ==
    /\ l \in Seq(S) /\ Len(l) = Len(s) + Len(t) /\ Len(t) \in Nat
    /\ \A i \in 1..Len(s) : l[i] = s[i]
    /\ \A i \in 1..Len(t) : l[Len(s) + i] = t[i]

LEMMA ConcatIs ==
    ASSUME NEW S, NEW s \in Seq(S), NEW t \in Seq(S)
    PROVE  MadeOf(S, s, t, s \o t)
<1> DEFINE c == s \o t
<1>1. /\ c \in Seq(S) /\ Len(c) = Len(s) + Len(t) /\ Len(t) \in Nat
      /\ \A i \in 1..Len(s) : c[i] = s[i]
      /\ \A i \in 1..Len(t) : c[Len(s) + i] = t[i]
    BY ConcatPlaces
<1> HIDE DEF c
<1>2. MadeOf(S, s, t, c)
    BY <1>1, Zenon DEF MadeOf
<1> QED
    BY <1>2 DEF c

\* The number that up to four bytes say, the low one first.
ByteAt(s, i) == IF Len(s) >= i THEN s[i] ELSE 0
Number(s) == ByteAt(s, 1) + 256 * ByteAt(s, 2) + 65536 * ByteAt(s, 3) + 16777216 * ByteAt(s, 4)

LEMMA BytesWeighed ==
    ASSUME NEW v \in Nat, NEW s
    PROVE  /\ s[1] \in Nat => WithByte(v, s, 1) = v + s[1]
           /\ s[2] \in Nat => WithByte(v, s, 2) = v + s[2] * 256
           /\ s[3] \in Nat => WithByte(v, s, 3) = v + s[3] * 65536
           /\ s[4] \in Nat => WithByte(v, s, 4) = v + s[4] * 16777216
<1>1. ASSUME s[1] \in Nat PROVE WithByte(v, s, 1) = v + s[1]
    BY <1>1, SMT DEF WithByte
<1>2. ASSUME s[2] \in Nat PROVE WithByte(v, s, 2) = v + s[2] * 256
    BY <1>2, SMT DEF WithByte
<1>3. ASSUME s[3] \in Nat PROVE WithByte(v, s, 3) = v + s[3] * 65536
    BY <1>3, SMT DEF WithByte
<1>4. ASSUME s[4] \in Nat PROVE WithByte(v, s, 4) = v + s[4] * 16777216
    BY <1>4, SMT DEF WithByte
<1> QED
    BY <1>1, <1>2, <1>3, <1>4

LEMMA ShortBytes ==
    ASSUME NEW s \in Seq(Byte), Len(s) <= 4
    PROVE  Len(s) \in 0..4 /\ DOMAIN s = 1..Len(s) /\ \A i \in 1..Len(s) : s[i] \in Nat
<1>1. Len(s) \in Nat /\ DOMAIN s = 1..Len(s)
    BY LenProperties
<1>2. Len(s) \in 0..4
    BY <1>1
<1>3. \A i \in 1..Len(s) : s[i] \in Byte
    BY ElementOfSeq
<1>4. Byte \subseteq Nat
    BY DEF Byte
<1> QED
    BY <1>1, <1>2, <1>3, <1>4, Zenon

LEMMA UintOfBytes ==
    ASSUME NEW option, option.value \in Seq(Byte), Len(option.value) <= 4
    PROVE  UintValue(option) = Number(option.value)
<1> DEFINE s == option.value
           N == Len(s)
           q == Places(s)
<1>1. N \in 0..4 /\ DOMAIN s = 1..N /\ \A i \in 1..N : s[i] \in Nat
    <2>1. s \in Seq(Byte) /\ Len(s) <= 4
        OBVIOUS
    <2> HIDE DEF s
    <2> QED
        BY <2>1, ShortBytes, Zenon
<1>2. q \in Seq(Nat) /\ Len(q) = N /\ \A i \in 1..N : q[i] = i
    <2>1. q = [i \in 1..N |-> i]
        BY <1>1 DEF Places
    <2>2. N \in Nat /\ \A i \in 1..N : i \in Nat
        BY <1>1
    <2> HIDE DEF q, N
    <2> QED
        BY <2>1, <2>2
<1> HIDE DEF q, N, s
<1>3. ASSUME NEW v \in Nat, NEW i \in 1..N
      PROVE  WithByte(v, s, i) \in Nat
    <2>1. s[i] \in Nat
        BY <1>1
    <2>2. CASE i = 1
        <3>1. WithByte(v, s, 1) = v + s[1] /\ s[1] \in Nat
            BY <2>1, <2>2, BytesWeighed
        <3> QED
            BY <2>2, <3>1
    <2>3. CASE i = 2
        <3>1. WithByte(v, s, 2) = v + s[2] * 256 /\ s[2] \in Nat
            BY <2>1, <2>3, BytesWeighed
        <3> QED
            BY <2>3, <3>1
    <2>4. CASE i = 3
        <3>1. WithByte(v, s, 3) = v + s[3] * 65536 /\ s[3] \in Nat
            BY <2>1, <2>4, BytesWeighed
        <3> QED
            BY <2>4, <3>1
    <2>5. CASE i = 4
        <3>1. WithByte(v, s, 4) = v + s[4] * 16777216 /\ s[4] \in Nat
            BY <2>1, <2>5, BytesWeighed
        <3> QED
            BY <2>5, <3>1
    <2> QED
        BY <1>1, <2>2, <2>3, <2>4, <2>5
<1>4. ASSUME NEW v \in Nat, NEW i \in 1..Len(q) PROVE WithByte(v, s, q[i]) \in Nat
    <2>1. q[i] = i /\ i \in 1..N
        BY <1>2
    <2> QED
        BY <1>3, <2>1
<1>5. PICK F : Summed(Nat, option, UintValue(option), F)
    BY <1>2, <1>4, UintValueSteps DEF q, s
<1>6. /\ F[0] = 0 /\ F[N] = UintValue(option)
      /\ \A k \in 1..N : F[k] = WithByte(F[k - 1], s, k) /\ F[k - 1] \in Nat
    BY <1>1, <1>2, <1>5 DEF Summed, q, s
<1>7. /\ N >= 1 => F[1] = s[1]
      /\ N >= 2 => F[2] = F[1] + s[2] * 256
      /\ N >= 3 => F[3] = F[2] + s[3] * 65536
      /\ N >= 4 => F[4] = F[3] + s[4] * 16777216
    <2>1. ASSUME N >= 1 PROVE F[1] = s[1]
        <3>1. 1 \in 1..N /\ 1 - 1 = 0
            BY <1>1, <2>1
        <3>2. F[1] = WithByte(0, s, 1) /\ s[1] \in Nat /\ 0 \in Nat
            BY <1>1, <1>6, <3>1
        <3>3. F[1] = 0 + s[1]
            BY <3>2, BytesWeighed
        <3> QED
            BY <3>2, <3>3
    <2>2. ASSUME N >= 2 PROVE F[2] = F[1] + s[2] * 256
        <3>1. 2 \in 1..N /\ 2 - 1 = 1 /\ s[2] \in Nat
            BY <1>1, <2>2
        <3>2. F[2] = WithByte(F[1], s, 2) /\ F[1] \in Nat
            BY <1>6, <3>1
        <3> QED
            BY <3>1, <3>2, BytesWeighed
    <2>3. ASSUME N >= 3 PROVE F[3] = F[2] + s[3] * 65536
        <3>1. 3 \in 1..N /\ 3 - 1 = 2 /\ s[3] \in Nat
            BY <1>1, <2>3
        <3>2. F[3] = WithByte(F[2], s, 3) /\ F[2] \in Nat
            BY <1>6, <3>1
        <3> QED
            BY <3>1, <3>2, BytesWeighed
    <2>4. ASSUME N >= 4 PROVE F[4] = F[3] + s[4] * 16777216
        <3>1. 4 \in 1..N /\ 4 - 1 = 3 /\ s[4] \in Nat
            BY <1>1, <2>4
        <3>2. F[4] = WithByte(F[3], s, 4) /\ F[3] \in Nat
            BY <1>6, <3>1
        <3> QED
            BY <3>1, <3>2, BytesWeighed
    <2> QED
        BY <2>1, <2>2, <2>3, <2>4
<1>8. UintValue(option) = Number(s)
    <2>1. N = 0 \/ N = 1 \/ N = 2 \/ N = 3 \/ N = 4
        BY <1>1
    <2>2. \A i \in 1..N : s[i] \in Nat
        BY <1>1
    <2>3. CASE N = 0
        <3>1. Number(s) = 0
            BY <2>3 DEF Number, ByteAt, N
        <3> QED
            BY <1>6, <2>3, <3>1
    <2>4. CASE N = 1
        <3>1. Number(s) = s[1] /\ s[1] \in Nat
            BY <2>2, <2>4 DEF Number, ByteAt, N
        <3> QED
            BY <1>6, <1>7, <2>4, <3>1
    <2>5. CASE N = 2
        <3>1. Number(s) = s[1] + 256 * s[2] /\ s[1] \in Nat /\ s[2] \in Nat
            BY <2>2, <2>5 DEF Number, ByteAt, N
        <3> QED
            BY <1>6, <1>7, <2>5, <3>1
    <2>6. CASE N = 3
        <3>1. Number(s) = s[1] + 256 * s[2] + 65536 * s[3] /\ s[1] \in Nat /\ s[2] \in Nat /\ s[3] \in Nat
            BY <2>2, <2>6 DEF Number, ByteAt, N
        <3> QED
            BY <1>6, <1>7, <2>6, <3>1
    <2>7. CASE N = 4
        <3>1. /\ Number(s) = s[1] + 256 * s[2] + 65536 * s[3] + 16777216 * s[4]
              /\ s[1] \in Nat /\ s[2] \in Nat /\ s[3] \in Nat /\ s[4] \in Nat
            BY <2>2, <2>7 DEF Number, ByteAt, N
        <3> QED
            BY <1>6, <1>7, <2>7, <3>1
    <2> QED
        BY <2>1, <2>3, <2>4, <2>5, <2>6, <2>7
<1> QED
    BY <1>8 DEF s

\* One byte more in front.
LEMMA NumberWithByte ==
    ASSUME NEW b \in Byte, NEW s \in Seq(Byte), Len(s) <= 3
    PROVE  /\ <<b>> \o s \in Seq(Byte) /\ Len(<<b>> \o s) = Len(s) + 1
           /\ Number(<<b>> \o s) = b + 256 * Number(s)
<1>1. <<b>> \in Seq(Byte) /\ Len(<<b>>) = 1 /\ <<b>>[1] = b
    OBVIOUS
<1> DEFINE o == <<b>>
           l == o \o s
<1>2. o \in Seq(Byte) /\ Len(o) = 1 /\ o[1] = b
    BY <1>1
<1> HIDE DEF o
<1>3. /\ l \in Seq(Byte) /\ Len(l) = Len(o) + Len(s) /\ Len(s) \in Nat
      /\ \A i \in 1..Len(o) : l[i] = o[i]
      /\ \A i \in 1..Len(s) : l[Len(o) + i] = s[i]
    <2>1. MadeOf(Byte, o, s, l)
        BY <1>2, ConcatIs
    <2> HIDE DEF l
    <2> QED
        BY <2>1, Zenon DEF MadeOf
<1> HIDE DEF l
<1>4. Len(l) = Len(s) + 1 /\ l[1] = b /\ \A i \in 1..Len(s) : l[1 + i] = s[i]
    BY <1>2, <1>3
<1>5. \A i \in 1..Len(s) : s[i] \in Nat
    <2>1. Len(s) <= 4
        BY <1>3
    <2> QED
        BY <2>1, ShortBytes, Zenon
<1>6. b \in Nat /\ ByteAt(l, 1) = b
    BY <1>3, <1>4 DEF Byte, ByteAt
<1>7. ASSUME NEW i \in 1..3 PROVE ByteAt(l, i + 1) = ByteAt(s, i) /\ ByteAt(s, i) \in Nat
    <2>1. CASE Len(s) >= i
        <3>1. i \in 1..Len(s) /\ Len(l) >= i + 1 /\ i + 1 = 1 + i
            BY <1>3, <1>4, <2>1
        <3>2. l[i + 1] = s[i] /\ s[i] \in Nat
            BY <1>4, <1>5, <3>1
        <3> QED
            BY <2>1, <3>1, <3>2 DEF ByteAt
    <2>2. CASE ~ (Len(s) >= i)
        <3>1. ~ (Len(l) >= i + 1)
            BY <1>3, <1>4, <2>2
        <3> QED
            BY <2>2, <3>1 DEF ByteAt
    <2> QED
        BY <2>1, <2>2
<1>8. ByteAt(s, 4) = 0
    BY <1>3 DEF ByteAt
<1>9. /\ ByteAt(l, 2) = ByteAt(s, 1) /\ ByteAt(l, 3) = ByteAt(s, 2) /\ ByteAt(l, 4) = ByteAt(s, 3)
      /\ ByteAt(s, 1) \in Nat /\ ByteAt(s, 2) \in Nat /\ ByteAt(s, 3) \in Nat
    <2>1. 1 \in 1..3 /\ 2 \in 1..3 /\ 3 \in 1..3 /\ 1 + 1 = 2 /\ 2 + 1 = 3 /\ 3 + 1 = 4
        OBVIOUS
    <2> QED
        BY <1>7, <2>1
<1>10. Number(l) = b + 256 * Number(s)
    <2> DEFINE x == ByteAt(s, 1)
               y == ByteAt(s, 2)
               z == ByteAt(s, 3)
    <2>1. b \in Nat /\ x \in Nat /\ y \in Nat /\ z \in Nat
        BY <1>6, <1>9
    <2>2. Number(l) = b + 256 * x + 65536 * y + 16777216 * z
        BY <1>6, <1>9 DEF Number
    <2>3. Number(s) = x + 256 * y + 65536 * z + 16777216 * 0
        BY <1>8 DEF Number
    <2> HIDE DEF x, y, z
    <2> QED
        BY <2>1, <2>2, <2>3
<1> QED
    BY <1>3, <1>4, <1>10 DEF l, o

\* The bytes of a number are at most k and say it.
BytesSay(m, k) == UintBytes(m) \in Seq(Byte) /\ Len(UintBytes(m)) <= k /\ Number(UintBytes(m)) = m

LEMMA ZeroSaid == \A k \in 0..4 : BytesSay(0, k)
<1>1. UintBytes(0) = <<>>
    BY UintBytesType
<1>2. Number(<<>>) = 0
    BY DEF Number, ByteAt
<1>3. <<>> \in Seq(Byte) /\ Len(<<>>) = 0
    BY EmptySeq
<1> QED
    <2> TAKE k \in 0..4
    <2> DEFINE e == UintBytes(0)
    <2>1. e \in Seq(Byte) /\ Len(e) = 0 /\ Number(e) = 0
        BY <1>1, <1>2, <1>3, Zenon
    <2>2. Len(e) <= k
        <3>1. 0 <= k
            OBVIOUS
        <3> QED
            BY <2>1, <3>1, Zenon
    <2> HIDE DEF e
    <2> QED
        BY <2>1, <2>2, Zenon DEF BytesSay, e

LEMMA OneByteMore ==
    ASSUME NEW k \in 0..3, NEW m \in Nat, m = 0 \/ BytesSay(m \div 256, k)
    PROVE  BytesSay(m, k + 1)
<1>1. CASE m = 0
    <2>1. k + 1 \in 0..4
        OBVIOUS
    <2> QED
        BY <1>1, <2>1, ZeroSaid
<1>2. CASE m # 0
    <2> DEFINE q == m \div 256
               s == UintBytes(q)
               b == m % 256
    <2>1. UintBytes(m) = <<b>> \o s
        BY <1>2, UintBytesType
    <2>2. b \in 0..255 /\ q \in Nat /\ m = b + 256 * q
        OBVIOUS
    <2>3. BytesSay(q, k)
        BY <1>2
    <2> HIDE DEF b, q
    <2>4. s \in Seq(Byte) /\ Len(s) <= k /\ Number(s) = q
        BY <2>3 DEF BytesSay
    <2> HIDE DEF s
    <2>5. Len(s) \in Nat
        BY <2>4, LenProperties
    <2>6. Len(s) <= 3 /\ Len(s) + 1 <= k + 1
        BY <2>4, <2>5
    <2>7. b \in Byte
        BY <2>2 DEF Byte
    <2>8. /\ <<b>> \o s \in Seq(Byte) /\ Len(<<b>> \o s) = Len(s) + 1
          /\ Number(<<b>> \o s) = b + 256 * Number(s)
        BY <2>4, <2>6, <2>7, NumberWithByte
    <2>9. Number(UintBytes(m)) = m
        BY <2>1, <2>2, <2>4, <2>8, Zenon
    <2>10. Len(UintBytes(m)) <= k + 1 /\ UintBytes(m) \in Seq(Byte)
        BY <2>1, <2>6, <2>8, Zenon
    <2> QED
        BY <2>9, <2>10 DEF BytesSay
<1> QED
    BY <1>1, <1>2

LEMMA Quotients ==
    ASSUME NEW n \in Nat, NEW w \in Nat, n < 256 * w
    PROVE  n \div 256 \in Nat /\ n \div 256 < w
    OBVIOUS

\* setValue(quint32) and uintValue(): a number of 32 bits, a port among them, is read back as
\* it was written.
THEOREM UintReadsBack ==
    ASSUME NEW n \in Nat, n < 4294967296, NEW option, option.value = UintBytes(n)
    PROVE  UintValue(option) = n
<1> DEFINE a == n \div 256
           c == a \div 256
           d == c \div 256
           e == d \div 256
<1>1. a \in Nat /\ a < 16777216
    BY Quotients
<1> HIDE DEF a
<1>2. c \in Nat /\ c < 65536
    BY <1>1, Quotients
<1> HIDE DEF c
<1>3. d \in Nat /\ d < 256
    BY <1>2, Quotients
<1> HIDE DEF d
<1>4. e = 0
    <2>1. e \in Nat /\ e < 1
        BY <1>3, Quotients
    <2> HIDE DEF e
    <2> QED
        BY <2>1
<1>5. BytesSay(d, 1)
    <2>1. BytesSay(e, 0) /\ 0 \in 0..3 /\ 0 + 1 = 1 /\ 0 \in 0..4
        BY <1>4, ZeroSaid
    <2> HIDE DEF e
    <2>2. BytesSay(d \div 256, 0)
        BY <2>1 DEF e
    <2>3. BytesSay(d, 0 + 1)
        BY <1>3, <2>1, <2>2, OneByteMore
    <2> QED
        BY <2>1, <2>3
<1> HIDE DEF e
<1>6. BytesSay(c, 2)
    <2>1. 1 \in 0..3 /\ 1 + 1 = 2
        OBVIOUS
    <2>2. BytesSay(c \div 256, 1)
        BY <1>5 DEF d
    <2>3. BytesSay(c, 1 + 1)
        BY <1>2, <2>1, <2>2, OneByteMore
    <2> QED
        BY <2>1, <2>3
<1>7. BytesSay(a, 3)
    <2>1. 2 \in 0..3 /\ 2 + 1 = 3
        OBVIOUS
    <2>2. BytesSay(a \div 256, 2)
        BY <1>6 DEF c
    <2>3. BytesSay(a, 2 + 1)
        BY <1>1, <2>1, <2>2, OneByteMore
    <2> QED
        BY <2>1, <2>3
<1>8. BytesSay(n, 4)
    <2>1. 3 \in 0..3 /\ 3 + 1 = 4
        OBVIOUS
    <2>2. BytesSay(n \div 256, 3)
        BY <1>7 DEF a
    <2>3. BytesSay(n, 3 + 1)
        BY <2>1, <2>2, OneByteMore
    <2> QED
        BY <2>1, <2>3
<1>9. option.value \in Seq(Byte) /\ Len(option.value) <= 4 /\ Number(option.value) = n
    BY <1>8 DEF BytesSay
<1> QED
    BY <1>9, UintOfBytes

(***************************************************************************)
(* The options of a URL, read by their names.                              *)
(***************************************************************************)

\* Options of one name only.
AllNamed(options, name) == \A i \in 1..Len(options) : options[i].name = OptionNumber[name]

LEMMA UriNumbers ==
    /\ OptionNumber["UriHost"] = 3 /\ OptionNumber["UriPort"] = 7
    /\ OptionNumber["UriPath"] = 11 /\ OptionNumber["UriQuery"] = 15
    BY DEF OptionNumber

LEMMA OneName ==
    ASSUME NEW name, NEW other, NEW options \in Seq(CoapOptions), AllNamed(options, name)
    PROVE  /\ OptionsNamed(options, name) = options
           /\ OptionNumber[name] # OptionNumber[other] => OptionsNamed(options, other) = <<>>
<1>1. OptionsNamed(options, name) = options
    BY NamedNoneOrAll DEF AllNamed
<1>2. ASSUME OptionNumber[name] # OptionNumber[other] PROVE OptionsNamed(options, other) = <<>>
    <2>1. \A i \in 1..Len(options) : options[i].name # OptionNumber[other]
        BY <1>2 DEF AllNamed
    <2> QED
        BY <2>1, NamedNoneOrAll
<1> QED
    BY <1>1, <1>2

\* Four parts, one after another.
InParts(h, p, a, q) == h \o p \o a \o q

LEMMA OnePart ==
    ASSUME NEW s \in Seq(CoapOptions)
    PROVE  /\ InParts(s, <<>>, <<>>, <<>>) = s /\ InParts(<<>>, s, <<>>, <<>>) = s
           /\ InParts(<<>>, <<>>, s, <<>>) = s /\ InParts(<<>>, <<>>, <<>>, s) = s
<1>1. s \o <<>> = s /\ <<>> \o s = s
    BY ConcatEmptySeq
<1>2. <<>> \o <<>> = <<>>
    BY EmptySeq, ConcatEmptySeq
<1> QED
    BY <1>1, <1>2, Zenon DEF InParts

\* Each name has its part.
LEMMA NamedInParts ==
    ASSUME NEW h \in Seq(CoapOptions), NEW p \in Seq(CoapOptions), NEW a \in Seq(CoapOptions),
           NEW q \in Seq(CoapOptions),
           AllNamed(h, "UriHost"), AllNamed(p, "UriPort"), AllNamed(a, "UriPath"), AllNamed(q, "UriQuery")
    PROVE  /\ OptionsNamed(InParts(h, p, a, q), "UriHost") = h
           /\ OptionsNamed(InParts(h, p, a, q), "UriPort") = p
           /\ OptionsNamed(InParts(h, p, a, q), "UriPath") = a
           /\ OptionsNamed(InParts(h, p, a, q), "UriQuery") = q
<1> DEFINE u == h \o p
           v == u \o a
           w == v \o q
<1>1. u \in Seq(CoapOptions)
    BY ConcatProperties
<1>2. \A name : OptionsNamed(u, name) = OptionsNamed(h, name) \o OptionsNamed(p, name)
    BY NamedConcat
<1> HIDE DEF u
<1>3. v \in Seq(CoapOptions)
    BY <1>1, ConcatProperties
<1>4. \A name : OptionsNamed(v, name) = OptionsNamed(u, name) \o OptionsNamed(a, name)
    BY <1>1, NamedConcat
<1> HIDE DEF v
<1>5. \A name : OptionsNamed(w, name) = OptionsNamed(v, name) \o OptionsNamed(q, name)
    BY <1>3, NamedConcat
<1>6. w = InParts(h, p, a, q)
    BY Zenon DEF InParts, w, v, u
<1> HIDE DEF w
<1>7. \A name : OptionsNamed(w, name)
        = InParts(OptionsNamed(h, name), OptionsNamed(p, name), OptionsNamed(a, name), OptionsNamed(q, name))
    BY <1>2, <1>4, <1>5, Zenon DEF InParts
<1>8. OptionsNamed(w, "UriHost") = h
    <2>1. OptionsNamed(h, "UriHost") = h
        BY OneName
    <2>2. OptionsNamed(p, "UriHost") = <<>>
        BY OneName, UriNumbers
    <2>3. OptionsNamed(a, "UriHost") = <<>>
        BY OneName, UriNumbers
    <2>4. OptionsNamed(q, "UriHost") = <<>>
        BY OneName, UriNumbers
    <2> QED
        BY <1>7, <2>1, <2>2, <2>3, <2>4, OnePart
<1>9. OptionsNamed(w, "UriPort") = p
    <2>1. OptionsNamed(h, "UriPort") = <<>>
        BY OneName, UriNumbers
    <2>2. OptionsNamed(p, "UriPort") = p
        BY OneName
    <2>3. OptionsNamed(a, "UriPort") = <<>>
        BY OneName, UriNumbers
    <2>4. OptionsNamed(q, "UriPort") = <<>>
        BY OneName, UriNumbers
    <2> QED
        BY <1>7, <2>1, <2>2, <2>3, <2>4, OnePart
<1>10. OptionsNamed(w, "UriPath") = a
    <2>1. OptionsNamed(h, "UriPath") = <<>>
        BY OneName, UriNumbers
    <2>2. OptionsNamed(p, "UriPath") = <<>>
        BY OneName, UriNumbers
    <2>3. OptionsNamed(a, "UriPath") = a
        BY OneName
    <2>4. OptionsNamed(q, "UriPath") = <<>>
        BY OneName, UriNumbers
    <2> QED
        BY <1>7, <2>1, <2>2, <2>3, <2>4, OnePart
<1>11. OptionsNamed(w, "UriQuery") = q
    <2>1. OptionsNamed(h, "UriQuery") = <<>>
        BY OneName, UriNumbers
    <2>2. OptionsNamed(p, "UriQuery") = <<>>
        BY OneName, UriNumbers
    <2>3. OptionsNamed(a, "UriQuery") = <<>>
        BY OneName, UriNumbers
    <2>4. OptionsNamed(q, "UriQuery") = q
        BY OneName
    <2> QED
        BY <1>7, <2>1, <2>2, <2>3, <2>4, OnePart
<1> QED
    BY <1>6, <1>8, <1>9, <1>10, <1>11

LEMMA TextOptionsOneName ==
    ASSUME NEW name \in {"UriPath", "UriQuery"}, NEW texts \in Seq(Texts)
    PROVE  AllNamed(TextOptions(name, texts), name)
<1> DEFINE V == {options \in Seq(CoapOptions) : AllNamed(options, name)}
<1>1. <<>> \in V
    BY EmptySeq DEF AllNamed
<1>2. \A v \in V, i \in 1..Len(texts) : WithText(v, texts[i], name) \in V
    <2> TAKE v \in V, i \in 1..Len(texts)
    <2>1. texts[i] \in Texts
        BY ElementOfSeq
    <2> DEFINE x == Option(name, Utf8[texts[i]])
    <2>2. x \in CoapOptions /\ x.name = OptionNumber[name]
        <3>1. x \in CoapOptions
            BY <2>1, Utf8Type, OptionType
        <3> QED
            BY <3>1 DEF Option
    <2> HIDE DEF x
    <2>3. Append(v, x) \in V
        <3>1. v \in Seq(CoapOptions) /\ Len(v) \in Nat
            BY LenProperties
        <3>2. /\ Append(v, x) \in Seq(CoapOptions) /\ Len(Append(v, x)) = Len(v) + 1
              /\ \A j \in 1..Len(v) : Append(v, x)[j] = v[j]
              /\ Append(v, x)[Len(v) + 1] = x
            BY <2>2, <3>1, AppendProperties
        <3>3. \A j \in 1..Len(v) : v[j].name = OptionNumber[name]
            BY DEF AllNamed
        <3>4. \A j \in 1..Len(Append(v, x)) : j \in 1..Len(v) \/ j = Len(v) + 1
            BY <3>1, <3>2
        <3>5. \A j \in 1..Len(Append(v, x)) : Append(v, x)[j].name = OptionNumber[name]
            BY <2>2, <3>2, <3>3, <3>4
        <3> QED
            BY <3>2, <3>5 DEF AllNamed
    <2> QED
        BY <2>3 DEF WithText, x
<1> HIDE DEF V
<1>3. PICK F : Worded(V, name, texts, TextOptions(name, texts), F)
    BY <1>1, <1>2, TextOptionsSteps
<1> QED
    BY <1>3 DEF Worded, V

\* The port in the options of a URL.
UriPortOption(url) ==
    IF url.port \in {DefaultPort, DefaultSecurePort} THEN <<>>
    ELSE <<Option("UriPort", UintBytes(url.port))>>

\* Each name says its part of the URL.
LEMMA UriOptionsNamed ==
    ASSUME NEW url \in URLs, url.port \in UInt16
    PROVE  /\ OptionsNamed(UriOptions(url), "UriHost") = UriHostOption(url)
           /\ OptionsNamed(UriOptions(url), "UriPort") = UriPortOption(url)
           /\ OptionsNamed(UriOptions(url), "UriPath") = TextOptions("UriPath", url.path)
           /\ OptionsNamed(UriOptions(url), "UriQuery") = TextOptions("UriQuery", url.query)
<1>1. url.host \in Texts /\ url.path \in Seq(Texts) /\ url.query \in Seq(Texts)
    BY DEF URLs
<1> DEFINE h == UriHostOption(url)
           p == UriPortOption(url)
           a == TextOptions("UriPath", url.path)
           q == TextOptions("UriQuery", url.query)
<1>2. \A o \in CoapOptions : <<o>> \in Seq(CoapOptions) /\ \A name : o.name = OptionNumber[name] => AllNamed(<<o>>, name)
    BY DEF AllNamed
<1>3. <<>> \in Seq(CoapOptions) /\ \A name : AllNamed(<<>>, name)
    BY EmptySeq DEF AllNamed
<1>4. h \in Seq(CoapOptions) /\ AllNamed(h, "UriHost")
    <2> DEFINE o == Option("UriHost", Utf8[url.host])
    <2>1. o \in CoapOptions /\ o.name = OptionNumber["UriHost"]
        <3>1. o \in CoapOptions
            BY <1>1, Utf8Type, OptionType
        <3> QED
            BY <3>1 DEF Option
    <2>2. h = <<>> \/ h = <<o>>
        BY DEF UriHostOption
    <2> HIDE DEF o, h
    <2> QED
        BY <1>2, <1>3, <2>1, <2>2
<1>5. p \in Seq(CoapOptions) /\ AllNamed(p, "UriPort")
    <2> DEFINE o == Option("UriPort", UintBytes(url.port))
    <2>1. o \in CoapOptions /\ o.name = OptionNumber["UriPort"]
        <3>1. o \in CoapOptions
            <4>1. UintBytes(url.port) \in Seq(Byte)
                BY UintBytesType, Ports
            <4> QED
                BY <4>1, OptionType
        <3> QED
            BY <3>1 DEF Option
    <2>2. p = <<>> \/ p = <<o>>
        BY DEF UriPortOption
    <2> HIDE DEF o, p
    <2> QED
        BY <1>2, <1>3, <2>1, <2>2
<1>6. a \in Seq(CoapOptions) /\ AllNamed(a, "UriPath")
    BY <1>1, TextOptionsType, TextOptionsOneName
<1>7. q \in Seq(CoapOptions) /\ AllNamed(q, "UriQuery")
    BY <1>1, TextOptionsType, TextOptionsOneName
<1>8. UriOptions(url) = InParts(h, p, a, q)
    BY DEF UriOptions, UriPortOption, InParts
<1> HIDE DEF h, p, a, q
<1>9. /\ OptionsNamed(InParts(h, p, a, q), "UriHost") = h
      /\ OptionsNamed(InParts(h, p, a, q), "UriPort") = p
      /\ OptionsNamed(InParts(h, p, a, q), "UriPath") = a
      /\ OptionsNamed(InParts(h, p, a, q), "UriQuery") = q
    BY <1>4, <1>5, <1>6, <1>7, NamedInParts
<1> QED
    BY <1>8, <1>9 DEF h, p, a, q

\* The port as it is read from the options, or the default.
LEMMA PortReadsBack ==
    ASSUME NEW port \in UInt16
    PROVE  UintValue(Option("UriPort", UintBytes(port))) = port
<1> DEFINE o == Option("UriPort", UintBytes(port))
<1>1. o.value = UintBytes(port)
    BY DEF Option
<1>2. port \in Nat /\ port < 4294967296
    BY DEF UInt16
<1> HIDE DEF o
<1>3. UintValue(o) = port
    BY <1>1, <1>2, UintReadsBack
<1> QED
    BY <1>3 DEF o

\* The segments of a normalized path are among those of the path.
LEMMA NormalizedFrom ==
    ASSUME NEW path \in Seq(Texts), NEW S, path \in Seq(S)
    PROVE  NormalizedPath(path) \in Seq(S)
<1> DEFINE V == Seq(S)
<1>1. <<>> \in V
    BY EmptySeq
<1>2. \A v \in V, i \in 1..Len(path) : WithSegment(v, path[i]) \in V
    <2> TAKE v \in V, i \in 1..Len(path)
    <2>1. path[i] \in S
        BY ElementOfSeq
    <2>2. Append(v, path[i]) \in V
        BY <2>1
    <2>3. Len(v) > 1 => Front(v) \in V
        <3>1. Len(v) \in Nat /\ \A j \in 1..Len(v) : v[j] \in S
            OBVIOUS
        <3>2. SubSeq(v, 1, Len(v) - 1) \in Seq(S)
            BY <3>1, SubSeqProperties
        <3> QED
            BY <3>2 DEF Front
    <2> QED
        BY <2>2, <2>3 DEF WithSegment
<1> HIDE DEF V
<1>3. PICK F : Resolved(V, path, NormalizedPath(path), F)
    BY <1>1, <1>2, NormalizedSteps
<1> QED
    BY <1>3 DEF Resolved, V

LEMMA NormalizedIsAscii ==
    ASSUME NEW url \in URLs, IsAscii(url)
    PROVE  IsAscii(Normalized(url))
<1> DEFINE S == Texts \ NonAscii
           path == NormalizedPath(url.path)
<1>1. url.path \in Seq(Texts) /\ DOMAIN url.path = 1..Len(url.path)
    BY LenProperties DEF URLs
<1>2. url.path \in Seq(S)
    <2>1. \A i \in 1..Len(url.path) : url.path[i] \in S
        <3> TAKE i \in 1..Len(url.path)
        <3>1. url.path[i] \in Texts
            BY <1>1, ElementOfSeq
        <3>2. url.path[i] \notin NonAscii
            BY <1>1 DEF IsAscii
        <3> QED
            BY <3>1, <3>2
    <2>2. Len(url.path) \in Nat /\ url.path = [i \in 1..Len(url.path) |-> url.path[i]]
        BY <1>1, LenProperties
    <2> HIDE DEF S
    <2>3. url.path \in [1..Len(url.path) -> S]
        BY <2>1, <2>2
    <2> QED
        BY <2>2, <2>3, SeqDef
<1>3. path \in Seq(S)
    BY <1>1, <1>2, NormalizedFrom
<1> HIDE DEF path
<1>4. {path[i] : i \in DOMAIN path} \cap NonAscii = {}
    <2>1. DOMAIN path = 1..Len(path)
        BY <1>3, LenProperties
    <2>2. \A i \in 1..Len(path) : path[i] \in S
        BY <1>3, ElementOfSeq
    <2> QED
        BY <2>1, <2>2
<1>5. /\ Normalized(url).path = path /\ Normalized(url).host = url.host
      /\ Normalized(url).query = url.query
    BY DEF Normalized, URLs, path
<1>6. /\ {url.host} \cap NonAscii = {}
      /\ {url.query[i] : i \in DOMAIN url.query} \cap NonAscii = {}
    BY DEF IsAscii
<1> QED
    BY <1>4, <1>5, <1>6 DEF IsAscii
=============================================================================
