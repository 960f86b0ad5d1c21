------------------------------ MODULE Paths_proofs ------------------------------
(***************************************************************************)
(* Theorems about paths and lists.                                         *)
(*                                                                         *)
(* A function that is defined over the elements of a list, one after the   *)
(* other, is reasoned about in two steps: some function satisfies its      *)
(* equations (Iterates), so that the one which CHOOSE picks does; and what *)
(* holds of it in the beginning and from one element to the next holds in  *)
(* the end (Induction).                                                    *)
(***************************************************************************)
EXTENDS Paths, Payloads, SequenceTheorems, FiniteSetTheorems, WellFoundedInduction, TLAPS

-----------------------------------------------------------------------------
(* Natural numbers. *)

\* A non-empty set of natural numbers has a least element.
LEMMA LeastNatural ==
  ASSUME NEW S \in SUBSET Nat, S # {}
  PROVE  \E i \in S : \A j \in S : i <= j
<1>1. IsWellFoundedOn(OpToRel(<, Nat), Nat)
  BY NatLessThanWellFounded
<1>2. PICK x \in S : \A y \in S : ~ (<<y, x>> \in OpToRel(<, Nat))
  BY <1>1, WFMin
<1>3. \A y \in S : ~(y < x)
  BY <1>2 DEF OpToRel
<1>4. QED
  BY <1>3

\* What holds at 0 and goes on from each place to the next holds at all of them; S is the set of
\* the places where it holds.
LEMMA Induction ==
  ASSUME NEW N \in Nat, NEW S, 0 \in S, \A n \in 1..N : n - 1 \in S => n \in S
  PROVE  \A n \in 0..N : n \in S
<1> DEFINE missing == {n \in 0..N : n \notin S}
<1>1. SUFFICES ASSUME missing # {} PROVE FALSE
  OBVIOUS
<1>2. missing \in SUBSET Nat
  OBVIOUS
<1> HIDE DEF missing
<1>3. PICK least \in missing : \A j \in missing : least <= j
  BY <1>1, <1>2, LeastNatural
<1> USE DEF missing
<1>4. least \in 1..N /\ least - 1 \in 0..N /\ ~(least <= least - 1)
  OBVIOUS
<1>5. least - 1 \in S
  BY <1>3, <1>4
<1>6. QED
  BY <1>4, <1>5

\* A step that leads from states to states can be taken N times: g holds the states on the way.
LeadsOn(S, N, step) == \A n \in 1..N : \A s \in S : step[n][s] \in S
IsIteration(S, first, N, step, g) ==
  g \in [0..N -> S] /\ g[0] = first /\ \A n \in 1..N : g[n] = step[n][g[n - 1]]

LEMMA Iterates ==
  ASSUME NEW S, NEW first \in S, NEW N \in Nat, NEW step, LeadsOn(S, N, step)
  PROVE  \E g : IsIteration(S, first, N, step, g)
<1> DEFINE Runs(m) ==
             {g \in [0..m -> S] : g[0] = first /\ \A n \in 1..m : g[n] = step[n][g[n - 1]]}
           reached == {m \in 0..N : Runs(m) # {}}
<1>1. 0 \in reached
  <2> DEFINE g == [n \in 0..0 |-> first]
  <2>1. g \in Runs(0)
    OBVIOUS
  <2>2. QED
    BY <2>1
<1>2. ASSUME NEW m \in 1..N, m - 1 \in reached PROVE m \in reached
  <2>1. PICK g : g \in Runs(m - 1)
    BY <1>2
  <2> DEFINE h == [n \in 0..m |-> IF n = m THEN step[m][g[m - 1]] ELSE g[n]]
  <2>2. g \in [0..(m - 1) -> S] /\ g[0] = first
        /\ \A n \in 1..(m - 1) : g[n] = step[n][g[n - 1]]
    BY <2>1
  <2>3. step[m][g[m - 1]] \in S
    BY <2>2 DEF LeadsOn
  <2>4. h \in [0..m -> S]
    BY <2>2, <2>3
  <2>5. h[0] = first /\ h[m] = step[m][g[m - 1]] /\ \A n \in 0..(m - 1) : h[n] = g[n]
    BY <2>2
  <2> HIDE DEF h
  <2>6. \A n \in 1..m : h[n] = step[n][h[n - 1]]
    <3> TAKE n \in 1..m
    <3>1. CASE n = m
      <4>1. h[m - 1] = g[m - 1]
        BY <2>5
      <4>2. QED
        BY <3>1, <2>5, <4>1
    <3>2. CASE n \in 1..(m - 1)
      <4>1. h[n] = g[n] /\ h[n - 1] = g[n - 1]
        BY <2>5, <3>2
      <4>2. QED
        BY <2>2, <3>2, <4>1
    <3>3. QED
      BY <3>1, <3>2
  <2>7. h \in Runs(m)
    BY <2>4, <2>5, <2>6
  <2>8. QED
    BY <2>7
<1> HIDE DEF reached
<1>3. N \in reached
  <2>1. \A n \in 0..N : n \in reached
    BY <1>1, <1>2, Induction
  <2>2. QED
    BY <2>1
<1>4. PICK g : g \in Runs(N)
  BY <1>3 DEF reached
<1>5. QED
  BY <1>4 DEF IsIteration

IsInterval(places) == places # {} => places = Min(places)..Max(places)

\* What grows along a list has each of its values at places that follow one another.
LEMMA ValuesAreIntervals ==
  ASSUME NEW N \in Nat, NEW g, \A i \in 1..N : g[i] \in Nat,
         \A i, j \in 1..N : i <= j => g[i] <= g[j], NEW v
  PROVE  IsInterval({i \in 1..N : g[i] = v})
<1> DEFINE places == {i \in 1..N : g[i] = v}
<1> SUFFICES ASSUME places # {} PROVE places = Min(places)..Max(places)
  BY DEF IsInterval
<1>1. places \in SUBSET Nat /\ \A i \in places : i \in 1..N
  OBVIOUS
<1> HIDE DEF places
<1>2. Min(places) \in places /\ \A i \in places : Min(places) <= i
  <2>1. PICK x \in places : \A y \in places : x <= y
    BY <1>1, LeastNatural
  <2>2. QED
    BY <2>1 DEF Min
<1>3. Max(places) \in places /\ \A i \in places : i <= Max(places)
  <2> DEFINE below == {N - i : i \in places}
  <2>0. \A i \in places : N - i \in Nat
    BY <1>1
  <2>1. below \in SUBSET Nat /\ below # {} /\ \A i \in places : N - i \in below
    BY <2>0
  <2> HIDE DEF below
  <2>2. PICK y \in below : \A z \in below : y <= z
    BY <2>1, LeastNatural
  <2>3. PICK x \in places : y = N - x
    BY DEF below
  <2>4. \A i \in places : x >= i
    <3> TAKE i \in places
    <3>1. N - x <= N - i
      BY <2>1, <2>2, <2>3
    <3>2. QED
      BY <1>1, <3>1
  <2>5. Max(places) \in places /\ \A i \in places : Max(places) >= i
    BY <2>4 DEF Max
  <2>6. QED
    BY <1>1, <2>5
<1> DEFINE low  == Min(places)
           high == Max(places)
<1>4. low \in places /\ high \in places /\ \A i \in places : low <= i /\ i <= high
  BY <1>2, <1>3
<1> HIDE DEF low, high
<1>5. low \in 1..N /\ high \in 1..N
  BY <1>1, <1>4
<1>6. ASSUME NEW i \in low..high PROVE i \in places
  <2>1. i \in 1..N /\ low <= i /\ i <= high
    BY <1>5
  <2>2. g[low] = v /\ g[high] = v
    BY <1>4 DEF places
  <2>3. g[low] <= g[i] /\ g[i] <= g[high] /\ g[i] \in Nat /\ g[low] \in Nat
    BY <1>5, <2>1
  <2>4. g[i] = v
    BY <2>2, <2>3
  <2>5. QED
    BY <2>1, <2>4 DEF places
<1>7. places \subseteq low..high
  BY <1>1, <1>4
<1>8. places = low..high
  BY <1>6, <1>7
<1>9. QED
  BY <1>8 DEF low, high

-----------------------------------------------------------------------------
(* Lists, whatever they are lists of. *)

LEMMA IsListOf ==
  ASSUME NEW T, NEW list \in Seq(T)
  PROVE  IsList(list)
BY DEF IsList, Range

LEMMA ListElements ==
  ASSUME NEW list, IsList(list)
  PROVE  /\ Len(list) \in Nat /\ DOMAIN list = 1..Len(list)
         /\ \A i \in DOMAIN list : list[i] \in Range(list)
BY DEF IsList, Range

-----------------------------------------------------------------------------
(* The bytes of a list. *)

\* A list of elements whose sizes are known.
Sized(lines) == IsList(lines) /\ \A i \in DOMAIN lines : lines[i].bytes \in Nat

Sums(lines, upTo) ==
  upTo = [n \in 0..Len(lines) |-> IF n = 0 THEN 0 ELSE upTo[n - 1] + lines[n].bytes]

LEMMA SumIsSums ==
  ASSUME NEW lines, NEW some, Sums(lines, some)
  PROVE  \E upTo : Sums(lines, upTo) /\ BytesOf(lines) = upTo[Len(lines)]
BY DEF Sums, BytesOf

LEMMA BytesRun ==
  ASSUME NEW lines, Sized(lines)
  PROVE  \E upTo : /\ upTo[0] = 0 /\ upTo[Len(lines)] = BytesOf(lines)
                   /\ \A n \in 1..Len(lines) :
                        upTo[n] = upTo[n - 1] + lines[n].bytes /\ upTo[n - 1] \in Nat
<1> DEFINE N == Len(lines)
           step == [n \in 1..N |-> [s \in Nat |-> s + lines[n].bytes]]
<1>1. N \in Nat /\ \A n \in 1..N : lines[n].bytes \in Nat
  BY ListElements DEF Sized
<1>2. \A n \in 1..N, s \in Nat : step[n][s] = s + lines[n].bytes
  OBVIOUS
<1>3. LeadsOn(Nat, N, step)
  BY <1>1, <1>2 DEF LeadsOn
<1> HIDE DEF N, step
<1>4. PICK g : IsIteration(Nat, 0, N, step, g)
  BY <1>1, <1>3, Iterates
<1>5. \A n \in 1..N : n - 1 \in 0..N /\ n \in 0..N /\ n # 0
  BY <1>1
<1>6. \A n \in 1..N : g[n] = g[n - 1] + lines[n].bytes
  BY <1>2, <1>4, <1>5 DEF IsIteration
<1>7. g = [n \in 0..N |-> IF n = 0 THEN 0 ELSE g[n - 1] + lines[n].bytes]
  <2>1. g = [n \in 0..N |-> g[n]] /\ g[0] = 0
    BY <1>4 DEF IsIteration
  <2>2. \A n \in 0..N : n # 0 => n \in 1..N
    BY <1>1
  <2>3. QED
    BY <1>6, <2>1, <2>2
<1>8. PICK upTo : Sums(lines, upTo) /\ BytesOf(lines) = upTo[N]
  BY <1>7, SumIsSums DEF Sums, N
<1>9. upTo[0] = 0 /\ \A n \in 1..N : upTo[n] = upTo[n - 1] + lines[n].bytes
  <2>1. \A n \in 0..N : upTo[n] = IF n = 0 THEN 0 ELSE upTo[n - 1] + lines[n].bytes
    BY <1>8, Zenon DEF Sums, N
  <2>2. 0 \in 0..N
    BY <1>1
  <2>3. QED
    BY <1>5, <2>1, <2>2
<1> DEFINE S == {n \in 0..N : upTo[n] \in Nat}
<1>10. 0 \in S
  BY <1>1, <1>9
<1>11. \A n \in 1..N : n - 1 \in S => n \in S
  BY <1>1, <1>5, <1>9
<1> HIDE DEF S
<1>12. \A n \in 0..N : n \in S
  BY <1>1, <1>10, <1>11, Induction
<1>13. \A n \in 1..N : upTo[n - 1] \in Nat
  BY <1>5, <1>12 DEF S
<1>14. QED
  BY <1>8, <1>9, <1>13 DEF N

LEMMA BytesAreNatural ==
  ASSUME NEW lines, Sized(lines)
  PROVE  BytesOf(lines) \in Nat
<1> DEFINE N == Len(lines)
<1>1. N \in Nat /\ \A n \in 1..N : lines[n].bytes \in Nat
  BY ListElements DEF Sized
<1>2. PICK upTo : /\ upTo[0] = 0 /\ upTo[N] = BytesOf(lines)
                  /\ \A n \in 1..N : upTo[n] = upTo[n - 1] + lines[n].bytes /\ upTo[n - 1] \in Nat
  BY BytesRun
<1> HIDE DEF N
<1>3. CASE N = 0
  BY <1>2, <1>3
<1>4. CASE N # 0
  <2>1. N \in 1..N
    BY <1>1, <1>4
  <2>2. upTo[N] = upTo[N - 1] + lines[N].bytes /\ upTo[N - 1] \in Nat /\ lines[N].bytes \in Nat
    BY <1>1, <1>2, <2>1
  <2>3. QED
    BY <1>2, <2>2
<1>5. QED
  BY <1>3, <1>4

\* One element more.
LEMMA BytesAppend ==
  ASSUME NEW T, \A c \in T : c.bytes \in Nat, NEW list \in Seq(T), NEW c \in T
  PROVE  /\ BytesOf(list) \in Nat
         /\ BytesOf(Append(list, c)) = BytesOf(list) + c.bytes
<1> DEFINE N    == Len(list)
           more == Append(list, c)
<1>1. /\ N \in Nat /\ more \in Seq(T) /\ Len(more) = N + 1 /\ more[N + 1] = c
      /\ \A n \in 1..N : more[n] = list[n] /\ list[n] \in T
  BY AppendProperties
<1>2. \A s \in Seq(T) : Sized(s)
  <2> SUFFICES ASSUME NEW s \in Seq(T) PROVE Sized(s)
    OBVIOUS
  <2>1. IsList(s) /\ \A i \in DOMAIN s : s[i] \in T
    BY IsListOf
  <2>2. QED
    BY <2>1 DEF Sized
<1>3. PICK f : /\ f[0] = 0 /\ f[N] = BytesOf(list)
               /\ \A n \in 1..N : f[n] = f[n - 1] + list[n].bytes /\ f[n - 1] \in Nat
  BY <1>2, BytesRun
<1> HIDE DEF more
<1>4. PICK g : /\ g[0] = 0 /\ g[N + 1] = BytesOf(more)
               /\ \A n \in 1..(N + 1) : g[n] = g[n - 1] + more[n].bytes /\ g[n - 1] \in Nat
  BY <1>1, <1>2, BytesRun
<1> DEFINE S == {n \in 0..N : f[n] = g[n]}
<1>5. 0 \in S
  BY <1>1, <1>3, <1>4
<1>6. ASSUME NEW n \in 1..N, n - 1 \in S PROVE n \in S
  <2>1. n \in 1..(N + 1) /\ n \in 0..N
    BY <1>1
  <2>2. f[n] = f[n - 1] + list[n].bytes /\ g[n] = g[n - 1] + more[n].bytes /\ more[n] = list[n]
    BY <1>1, <1>3, <1>4, <2>1
  <2>3. QED
    BY <1>6, <2>1, <2>2
<1> HIDE DEF S, N
<1>7. \A n \in 0..N : n \in S
  BY <1>1, <1>5, <1>6, Induction
<1>8. N \in 0..N /\ N + 1 \in 1..(N + 1) /\ N + 1 - 1 = N
  BY <1>1
<1>9. f[N] = g[N]
  BY <1>7, <1>8 DEF S
<1>10. g[N + 1] = g[N] + c.bytes /\ g[N] \in Nat
  BY <1>1, <1>4, <1>8
<1>11. QED
  BY <1>3, <1>4, <1>9, <1>10 DEF more

-----------------------------------------------------------------------------
(* Lists. *)

Picks(list, places, upTo) ==
  upTo = [n \in 0..Len(list) |->
           IF n = 0 THEN <<>>
           ELSE IF n \in places THEN Append(upTo[n - 1], list[n])
           ELSE upTo[n - 1]]

LEMMA PickedIsPicks ==
  ASSUME NEW list, NEW places, NEW some, Picks(list, places, some)
  PROVE  \E upTo : Picks(list, places, upTo) /\ Picked(list, places) = upTo[Len(list)]
BY DEF Picks, Picked

LEMMA PickExists ==
  ASSUME NEW T, NEW list \in Seq(T), NEW places
  PROVE  \E upTo : Picks(list, places, upTo)
<1> DEFINE N == Len(list)
           step == [n \in 1..N |-> [s \in Seq(T) |->
                     IF n \in places THEN Append(s, list[n]) ELSE s]]
<1>1. N \in Nat /\ <<>> \in Seq(T) /\ \A n \in 1..N : list[n] \in T
  OBVIOUS
<1>2. \A n \in 1..N, s \in Seq(T) :
        step[n][s] = IF n \in places THEN Append(s, list[n]) ELSE s
  OBVIOUS
<1>3. LeadsOn(Seq(T), N, step)
  BY <1>1, <1>2, AppendProperties DEF LeadsOn
<1> HIDE DEF N, step
<1>4. PICK g : IsIteration(Seq(T), <<>>, N, step, g)
  BY <1>1, <1>3, Iterates, Zenon
<1>5. \A n \in 1..N : g[n] = IF n \in places THEN Append(g[n - 1], list[n]) ELSE g[n - 1]
  <2> TAKE n \in 1..N
  <2>1. n - 1 \in 0..N
    BY <1>1
  <2>2. QED
    BY <1>2, <1>4, <2>1 DEF IsIteration
<1>6. \A n \in 0..N : n # 0 => n \in 1..N
  BY <1>1
<1>7. g = [n \in 0..N |-> IF n = 0 THEN <<>>
                         ELSE IF n \in places THEN Append(g[n - 1], list[n]) ELSE g[n - 1]]
  BY <1>4, <1>5, <1>6 DEF IsIteration
<1>8. QED
  BY <1>7 DEF Picks, N

\* What is picked, one element after the other.
LEMMA PickedRuns ==
  ASSUME NEW T, NEW list \in Seq(T), NEW places
  PROVE  \E upTo :
           /\ Picked(list, places) = upTo[Len(list)] /\ upTo[0] = <<>>
           /\ \A n \in 1..Len(list) :
                upTo[n] = IF n \in places THEN Append(upTo[n - 1], list[n]) ELSE upTo[n - 1]
<1> DEFINE N == Len(list)
<1>1. PICK upTo : Picks(list, places, upTo) /\ Picked(list, places) = upTo[N]
  BY PickExists, PickedIsPicks
<1>2. upTo = [n \in 0..N |->
               IF n = 0 THEN <<>>
               ELSE IF n \in places THEN Append(upTo[n - 1], list[n]) ELSE upTo[n - 1]]
  BY <1>1, Zenon DEF Picks
<1>3. N \in Nat /\ 0 \in 0..N /\ \A n \in 1..N : n \in 0..N /\ n # 0
  OBVIOUS
<1>4. QED
  BY <1>1, <1>2, <1>3

\* What is picked depends on the places alone, and no place is picked twice.
LEMMA PickedPlaces ==
  ASSUME NEW T, NEW list \in Seq(T), NEW places
  PROVE  LET ids == Picked([i \in 1..Len(list) |-> i], places)
         IN  /\ ids \in Seq(1..Len(list))
             /\ \A k \in DOMAIN ids : ids[k] \in places
             /\ \A j, k \in DOMAIN ids : ids[j] = ids[k] => j = k
             /\ DOMAIN Picked(list, places) = DOMAIN ids
             /\ \A k \in DOMAIN ids : Picked(list, places)[k] = list[ids[k]]
<1> DEFINE N   == Len(list)
           D   == 1..N
           all == [i \in D |-> i]
           Holds(n, s, t) ==
             /\ s \in Seq(D) /\ t \in Seq(T) /\ Len(t) = Len(s)
             /\ \A k \in 1..Len(s) : s[k] \in places /\ s[k] <= n /\ t[k] = list[s[k]]
             /\ \A j, k \in 1..Len(s) : s[j] = s[k] => j = k
<1>1. /\ N \in Nat /\ all \in Seq(D) /\ Len(all) = N /\ \A i \in D : all[i] = i
      /\ \A n \in D : list[n] \in T
  OBVIOUS
<1> HIDE DEF all
<1>2. PICK id : /\ Picked(all, places) = id[N] /\ id[0] = <<>>
                /\ \A n \in 1..N : id[n] = IF n \in places THEN Append(id[n - 1], n) ELSE id[n - 1]
  <2>1. PICK id : /\ Picked(all, places) = id[Len(all)] /\ id[0] = <<>>
                  /\ \A n \in 1..Len(all) :
                       id[n] = IF n \in places THEN Append(id[n - 1], all[n]) ELSE id[n - 1]
    <3>1. all \in Seq(D)
      BY <1>1
    <3> HIDE DEF D
    <3>2. QED
      BY <3>1, PickedRuns
  <2>2. Len(all) = N /\ \A n \in 1..N : all[n] = n
    BY <1>1
  <2> HIDE DEF N
  <2>3. QED
    BY <2>1, <2>2
<1>3. PICK upTo : /\ Picked(list, places) = upTo[N] /\ upTo[0] = <<>>
                  /\ \A n \in 1..N :
                       upTo[n] = IF n \in places THEN Append(upTo[n - 1], list[n]) ELSE upTo[n - 1]
  BY PickedRuns
<1> DEFINE S == {n \in 0..N : Holds(n, id[n], upTo[n])}
<1>4. 0 \in S
  <2>1. Holds(0, <<>>, <<>>)
    <3>1. Len(<<>>) = 0 /\ 1..0 = {} /\ <<>> \in Seq(T)
      OBVIOUS
    <3>2. <<>> \in Seq(D)
      OBVIOUS
    <3> HIDE DEF D
    <3>3. QED
      BY <3>1, <3>2
  <2> HIDE DEF Holds
  <2>2. Holds(0, id[0], upTo[0])
    BY <1>2, <1>3, <2>1, Zenon
  <2>3. 0 \in 0..N
    BY <1>1
  <2>4. QED
    BY <2>2, <2>3
<1>5. ASSUME NEW n \in 1..N, n - 1 \in S PROVE n \in S
  <2> DEFINE s == id[n - 1]
             t == upTo[n - 1]
  <2>1. Holds(n - 1, s, t)
    BY <1>5
  <2>2. n \in 0..N /\ n \in D /\ n \in Int
    BY <1>1
  <2>3. list[n] \in T
    BY <1>1
  <2>4. CASE n \in places
    <3>1. id[n] = Append(s, n) /\ upTo[n] = Append(t, list[n])
      BY <1>2, <1>3, <2>4
    <3> HIDE DEF s, t, N
    <3>2. Holds(n, Append(s, n), Append(t, list[n]))
      <4> DEFINE u == Append(s, n)
                 v == Append(t, list[n])
      <4>1. s \in Seq(D) /\ t \in Seq(T) /\ Len(t) = Len(s)
        BY <2>1
      <4>2. /\ u \in Seq(D) /\ Len(u) = Len(s) + 1 /\ u[Len(s) + 1] = n
            /\ \A k \in 1..Len(s) : u[k] = s[k]
        <5> HIDE DEF D
        <5>1. QED
          BY <2>2, <4>1, AppendProperties
      <4>3. /\ v \in Seq(T) /\ Len(v) = Len(s) + 1 /\ v[Len(s) + 1] = list[n]
            /\ \A k \in 1..Len(s) : v[k] = t[k]
        BY <2>3, <4>1, AppendProperties
      <4>4. Len(s) \in Nat /\ \A k \in 1..Len(s) : s[k] \in Int
        BY <1>1, <4>1
      <4>5. \A k \in 1..Len(s) : s[k] \in places /\ s[k] <= n - 1 /\ t[k] = list[s[k]]
        BY <2>1
      <4>6. \A j, k \in 1..Len(s) : s[j] = s[k] => j = k
        BY <2>1
      <4> HIDE DEF u, v
      <4>7. \A k \in 1..Len(u) : u[k] \in places /\ u[k] <= n /\ v[k] = list[u[k]]
        <5> TAKE k \in 1..Len(u)
        <5>1. CASE k = Len(s) + 1
          BY <2>2, <2>4, <4>2, <4>3, <5>1
        <5>2. CASE k \in 1..Len(s)
          BY <2>2, <4>2, <4>3, <4>4, <4>5, <5>2
        <5>3. QED
          BY <4>2, <4>4, <5>1, <5>2
      <4>8. \A j, k \in 1..Len(u) : u[j] = u[k] => j = k
        <5>1. \A k \in 1..Len(u) : k = Len(s) + 1 \/ k \in 1..Len(s)
          BY <4>2, <4>4
        <5>2. \A k \in 1..Len(s) : u[k] # n
          BY <2>2, <4>2, <4>4, <4>5
        <5>3. QED
          BY <4>2, <4>6, <5>1, <5>2
      <4>9. QED
        BY <4>2, <4>3, <4>7, <4>8 DEF u, v
    <3>3. Holds(n, id[n], upTo[n])
      <4> HIDE DEF Holds
      <4>1. QED
        BY <3>1, <3>2
    <3> HIDE DEF Holds
    <3>4. QED
      BY <2>2, <3>3
  <2>5. CASE n \notin places
    <3>1. id[n] = s /\ upTo[n] = t
      BY <1>2, <1>3, <2>5
    <3> HIDE DEF s, t, N
    <3>2. Holds(n, s, t)
      <4>1. \A k \in 1..Len(s) : s[k] <= n
        <5>1. \A k \in 1..Len(s) : s[k] <= n - 1 /\ s[k] \in Int
          BY <1>1, <2>1
        <5>2. QED
          BY <2>2, <5>1
      <4>2. QED
        BY <2>1, <4>1
    <3> HIDE DEF Holds
    <3>3. QED
      BY <2>2, <3>1, <3>2
  <2>6. QED
    BY <2>4, <2>5
<1>6. N \in S
  <2> HIDE DEF N, S
  <2>1. N \in 0..N
    BY <1>1
  <2>2. QED
    BY <1>1, <1>4, <1>5, <2>1, Induction
<1> DEFINE ids == Picked(all, places)
           some == Picked(list, places)
<1>7. Holds(N, ids, some)
  BY <1>2, <1>3, <1>6
<1>8. DOMAIN ids = 1..Len(ids) /\ DOMAIN some = 1..Len(ids)
  <2> HIDE DEF ids, some
  <2>1. QED
    BY <1>7
<1> HIDE DEF ids, some
<1>9. QED
  BY <1>7, <1>8 DEF ids, some, all

\* What is picked is a list of the elements at these places.
LEMMA PickedProperties ==
  ASSUME NEW T, NEW list \in Seq(T), NEW places
  PROVE  /\ Picked(list, places) \in Seq(T)
         /\ \A x : x \in Range(Picked(list, places)) <=>
                    \E i \in places \cap DOMAIN list : x = list[i]
<1> DEFINE N == Len(list)
           Holds(n, s) ==
             /\ s \in Seq(T)
             /\ \A x : x \in Range(s) <=> \E i \in places \cap (1..n) : x = list[i]
<1>1. PICK upTo : Picks(list, places, upTo) /\ Picked(list, places) = upTo[N]
  BY PickExists, PickedIsPicks
<1>2. N \in Nat /\ DOMAIN list = 1..N /\ \A n \in 1..N : list[n] \in T
  OBVIOUS
<1>3. /\ upTo[0] = <<>>
      /\ \A n \in 1..N : upTo[n] = IF n \in places THEN Append(upTo[n - 1], list[n]) ELSE upTo[n - 1]
  <2>1. upTo = [n \in 0..N |->
                 IF n = 0 THEN <<>>
                 ELSE IF n \in places THEN Append(upTo[n - 1], list[n]) ELSE upTo[n - 1]]
    BY <1>1, Zenon DEF Picks
  <2>2. 0 \in 0..N /\ \A n \in 1..N : n \in 0..N /\ n # 0
    BY <1>2
  <2>3. QED
    BY <2>1, <2>2
<1> DEFINE S == {n \in 0..N : Holds(n, upTo[n])}
<1>4. 0 \in S
  <2>1. Range(<<>>) = {} /\ <<>> \in Seq(T) /\ 1..0 = {}
    BY DEF Range
  <2>2. Holds(0, <<>>)
    BY <2>1
  <2>3. Holds(0, upTo[0])
    BY <1>3, <2>2, Zenon
  <2>4. 0 \in 0..N
    BY <1>2
  <2> HIDE DEF Holds
  <2>5. QED
    BY <2>3, <2>4
<1>5. ASSUME NEW n \in 1..N, n - 1 \in S PROVE n \in S
  <2> DEFINE s == upTo[n - 1]
  <2>1. s \in Seq(T) /\ \A x : x \in Range(s) <=> \E i \in places \cap (1..(n - 1)) : x = list[i]
    BY <1>5
  <2>2. 1..n = (1..(n - 1)) \cup {n} /\ n \in 0..N
    BY <1>2
  <2> HIDE DEF N
  <2>3. CASE n \in places
    <3>1. upTo[n] = Append(s, list[n])
      BY <1>3, <2>3
    <3>2. upTo[n] \in Seq(T)
      BY <1>2, <2>1, <3>1, AppendProperties
    <3>3. Range(upTo[n]) = Range(s) \cup {list[n]}
      <4>1. list[n] \in T
        BY <1>2
      <4> HIDE DEF s
      <4>2. QED
        BY <2>1, <3>1, <4>1, AppendProperties DEF Range
    <3>4. places \cap (1..n) = (places \cap (1..(n - 1))) \cup {n}
      BY <2>2, <2>3
    <3> HIDE DEF s
    <3>5. Holds(n, upTo[n])
      BY <2>1, <3>2, <3>3, <3>4
    <3>6. QED
      BY <2>2, <3>5
  <2>4. CASE n \notin places
    <3>1. upTo[n] = s
      BY <1>3, <2>4
    <3>2. places \cap (1..n) = places \cap (1..(n - 1))
      BY <2>2, <2>4
    <3> HIDE DEF s
    <3>3. Holds(n, upTo[n])
      BY <2>1, <3>1, <3>2
    <3>4. QED
      BY <2>2, <3>3
  <2>5. QED
    BY <2>3, <2>4
<1> HIDE DEF S
<1>6. N \in S
  <2>1. \A n \in 0..N : n \in S
    <3> HIDE DEF N
    <3>1. QED
      BY <1>2, <1>4, <1>5, Induction
  <2>2. QED
    BY <1>2, <2>1
<1>7. Holds(N, upTo[N])
  BY <1>6 DEF S
<1>8. QED
  BY <1>1, <1>2, <1>7

\* What is picked, by the places it is picked from.
PickedFrom(list, places, picked, ids) ==
  /\ Len(picked) = Len(ids) /\ DOMAIN ids = 1..Len(ids) /\ Len(ids) \in Nat
  /\ \A k \in 1..Len(ids) : ids[k] \in places /\ picked[k] = list[ids[k]]
  /\ \A j, k \in 1..Len(ids) : ids[j] = ids[k] => j = k
  /\ \A i \in places : \E k \in 1..Len(ids) : ids[k] = i

PlacesIn(list, places) == Picked([i \in 1..Len(list) |-> i], places)

LEMMA PlacesInProperties ==
  ASSUME NEW T, NEW list \in Seq(T), NEW places
  PROVE  /\ PlacesIn(list, places) \in Seq(1..Len(list))
         /\ \A k \in DOMAIN PlacesIn(list, places) : PlacesIn(list, places)[k] \in places
         /\ \A j, k \in DOMAIN PlacesIn(list, places) :
              PlacesIn(list, places)[j] = PlacesIn(list, places)[k] => j = k
         /\ DOMAIN Picked(list, places) = DOMAIN PlacesIn(list, places)
         /\ \A k \in DOMAIN PlacesIn(list, places) :
              Picked(list, places)[k] = list[PlacesIn(list, places)[k]]
<1> DEFINE ids == PlacesIn(list, places)
<1>1. /\ ids \in Seq(1..Len(list)) /\ \A k \in DOMAIN ids : ids[k] \in places
      /\ \A j, k \in DOMAIN ids : ids[j] = ids[k] => j = k
  BY PickedPlaces DEF PlacesIn
<1>2. LET some == Picked([i \in 1..Len(list) |-> i], places)
      IN  /\ DOMAIN Picked(list, places) = DOMAIN some
          /\ \A k \in DOMAIN some : Picked(list, places)[k] = list[some[k]]
  BY PickedPlaces
<1>3. QED
  BY <1>1, <1>2 DEF PlacesIn

LEMMA PickedByPlace ==
  ASSUME NEW T, NEW list \in Seq(T), NEW places \in SUBSET (1..Len(list))
  PROVE  Picked(list, places) \in Seq(T) /\ \E ids : PickedFrom(list, places, Picked(list, places), ids)
<1> DEFINE D   == 1..Len(list)
           all == [i \in D |-> i]
           ids == PlacesIn(list, places)
           picked == Picked(list, places)
<1>1. all \in Seq(D) /\ DOMAIN all = D /\ \A i \in D : all[i] = i
  OBVIOUS
<1>2. picked \in Seq(T)
  BY PickedProperties
<1>3. /\ ids \in Seq(D)
      /\ \A k \in DOMAIN ids : ids[k] \in places
      /\ \A j, k \in DOMAIN ids : ids[j] = ids[k] => j = k
      /\ DOMAIN picked = DOMAIN ids
      /\ \A k \in DOMAIN ids : picked[k] = list[ids[k]]
  BY PlacesInProperties
<1>4. \A x : x \in Range(ids) <=> \E i \in places \cap DOMAIN all : x = all[i]
  <2>1. ids = Picked(all, places)
    BY DEF PlacesIn
  <2> HIDE DEF all, ids
  <2>2. QED
    BY <1>1, <2>1, PickedProperties
<1> HIDE DEF all
<1> HIDE DEF ids, picked, D
<1>5. DOMAIN ids = 1..Len(ids) /\ Len(ids) \in Nat /\ Len(picked) \in Nat /\ DOMAIN picked = 1..Len(picked)
  BY <1>2, <1>3
<1>6. Len(picked) = Len(ids)
  BY <1>3, <1>5
<1>7. ASSUME NEW i \in places PROVE \E k \in 1..Len(ids) : ids[k] = i
  <2>1. i \in D /\ all[i] = i
    BY <1>1 DEF D
  <2>2. i \in Range(ids)
    BY <1>1, <1>4, <2>1
  <2>3. QED
    BY <1>5, <2>2 DEF Range
<1>8. PickedFrom(list, places, picked, ids)
  BY <1>3, <1>5, <1>6, <1>7 DEF PickedFrom
<1>9. QED
  BY <1>2, <1>8 DEF picked

Flattens(lists, flatten) ==
  flatten = [i \in 1..Len(lists) |-> IF i = 1 THEN lists[i] ELSE flatten[i - 1] \o lists[i]]

LEMMA FlattenIsFlattens ==
  ASSUME NEW lists, Len(lists) # 0, NEW some, Flattens(lists, some)
  PROVE  \E flatten : Flattens(lists, flatten) /\ FlattenSeq(lists) = flatten[Len(lists)]
BY DEF Flattens, FlattenSeq

LEMMA FlattenExists ==
  ASSUME NEW T, NEW lists \in Seq(Seq(T))
  PROVE  \E flatten : Flattens(lists, flatten)
<1> DEFINE N == Len(lists)
           step == [n \in 1..N |-> [s \in Seq(T) |-> s \o lists[n]]]
<1>1. N \in Nat /\ <<>> \in Seq(T) /\ \A n \in 1..N : lists[n] \in Seq(T)
  OBVIOUS
<1>2. \A n \in 1..N, s \in Seq(T) : step[n][s] = s \o lists[n]
  OBVIOUS
<1>3. LeadsOn(Seq(T), N, step)
  BY <1>1, <1>2 DEF LeadsOn
<1> HIDE DEF N, step
<1>4. PICK g : IsIteration(Seq(T), <<>>, N, step, g)
  BY <1>1, <1>3, Iterates, Zenon
<1> DEFINE f == [i \in 1..N |-> g[i]]
<1>5. \A n \in 1..N : g[n] = g[n - 1] \o lists[n]
  <2> TAKE n \in 1..N
  <2>1. n - 1 \in 0..N
    BY <1>1
  <2>2. QED
    BY <1>2, <1>4, <2>1 DEF IsIteration
<1>6. \A i \in 1..N : f[i] = IF i = 1 THEN lists[i] ELSE f[i - 1] \o lists[i]
  <2> TAKE i \in 1..N
  <2>1. CASE i = 1
    <3>0. g[0] = <<>> /\ 1 \in 1..N /\ 1 - 1 = 0
      BY <1>4, <2>1 DEF IsIteration
    <3>1. g[1] = <<>> \o lists[1]
      BY <1>5, <3>0
    <3>2. QED
      BY <1>1, <2>1, <3>1
  <2>2. CASE i # 1
    <3>1. i - 1 \in 1..N
      BY <1>1, <2>2
    <3>2. QED
      BY <1>5, <2>2, <3>1
  <2>3. QED
    BY <2>1, <2>2
<1> HIDE DEF f
<1>7. f = [i \in 1..N |-> f[i]]
  BY DEF f
<1>8. f = [i \in 1..N |-> IF i = 1 THEN lists[i] ELSE f[i - 1] \o lists[i]]
  BY <1>6, <1>7
<1>9. QED
  BY <1>8 DEF Flattens, N

\* The lists one after the other: what is in one of them, and for a single list itself.
LEMMA FlattenProperties ==
  ASSUME NEW T, NEW lists \in Seq(Seq(T))
  PROVE  /\ FlattenSeq(lists) \in Seq(T)
         /\ \A x : x \in Range(FlattenSeq(lists)) <=> \E k \in DOMAIN lists : x \in Range(lists[k])
         /\ Len(lists) = 1 => FlattenSeq(lists) = lists[1]
<1> DEFINE N == Len(lists)
           Holds(n, s) ==
             /\ s \in Seq(T)
             /\ \A x : x \in Range(s) <=> \E k \in 1..n : x \in Range(lists[k])
<1>1. N \in Nat /\ DOMAIN lists = 1..N /\ \A n \in 1..N : lists[n] \in Seq(T)
  OBVIOUS
<1>2. CASE N = 0
  <2>1. FlattenSeq(lists) = lists /\ lists = <<>>
    BY <1>2 DEF FlattenSeq
  <2>2. QED
    BY <1>1, <1>2, <2>1 DEF Range
<1>3. CASE N # 0
  <2>1. PICK f : Flattens(lists, f) /\ FlattenSeq(lists) = f[N]
    BY <1>3, FlattenExists, FlattenIsFlattens
  <2>2. \A i \in 1..N : f[i] = IF i = 1 THEN lists[i] ELSE f[i - 1] \o lists[i]
    BY <2>1, Zenon DEF Flattens
  <2>3. 1 \in 1..N /\ N \in 1..N
    BY <1>1, <1>3
  <2> DEFINE S == {n \in 0..N : n = 0 \/ Holds(n, f[n])}
  <2>4. 0 \in S
    BY <1>1
  <2>5. ASSUME NEW n \in 1..N, n - 1 \in S PROVE n \in S
    <3>1. CASE n = 1
      <4>1. f[n] = lists[1] /\ lists[1] \in Seq(T) /\ 1..1 = {1}
        BY <1>1, <2>2, <2>3, <3>1
      <4>2. Holds(n, f[n])
        BY <3>1, <4>1
      <4>3. n \in 0..N
        BY <1>1
      <4> HIDE DEF Holds
      <4>4. QED
        BY <4>2, <4>3
    <3>2. CASE n # 1
      <4> DEFINE s == f[n - 1]
      <4>1. s \in Seq(T) /\ \A x : x \in Range(s) <=> \E k \in 1..(n - 1) : x \in Range(lists[k])
        BY <2>5, <3>2
      <4>2. f[n] = s \o lists[n] /\ lists[n] \in Seq(T)
        BY <1>1, <2>2, <3>2
      <4> HIDE DEF s
      <4>3. f[n] \in Seq(T) /\ Range(f[n]) = Range(s) \cup Range(lists[n])
        BY <4>1, <4>2, ConcatProperties, RangeConcatenation
      <4>4. 1..n = (1..(n - 1)) \cup {n} /\ n \in 0..N
        BY <1>1
      <4>5. Holds(n, f[n])
        BY <4>1, <4>3, <4>4
      <4> HIDE DEF Holds
      <4>6. QED
        BY <4>4, <4>5
    <3>3. QED
      BY <3>1, <3>2
  <2> HIDE DEF S
  <2>6. N \in S
    <3>1. N \in Nat
      BY <1>1
    <3>2. N \in 0..N
      BY <1>1
    <3> HIDE DEF N
    <3>3. \A n \in 0..N : n \in S
      BY <2>4, <2>5, <3>1, Induction
    <3>4. QED
      BY <3>2, <3>3
  <2>7. Holds(N, f[N])
    BY <1>3, <2>6 DEF S
  <2>8. N = 1 => f[N] = lists[1]
    BY <2>2, <2>3
  <2>9. QED
    BY <1>1, <2>1, <2>7, <2>8
<1>4. QED
  BY <1>2, <1>3

\* Where the elements of the lists are when these are put one after the other: at[k] elements are
\* those of the first k lists.
Offsets(lists, flat, at) ==
  /\ at \in [0..Len(lists) -> Nat] /\ at[0] = 0 /\ at[Len(lists)] = Len(flat)
  /\ \A k \in 1..Len(lists) :
       /\ at[k] = at[k - 1] + Len(lists[k]) /\ at[k] <= Len(flat)
       /\ \A j \in 1..Len(lists[k]) : flat[at[k - 1] + j] = lists[k][j]

LEMMA ConcatPlaces ==
  ASSUME NEW T, NEW s \in Seq(T), NEW t \in Seq(T)
  PROVE  /\ s \o t \in Seq(T) /\ Len(s \o t) = Len(s) + Len(t)
         /\ \A i \in 1..Len(s) : (s \o t)[i] = s[i]
         /\ \A j \in 1..Len(t) : (s \o t)[Len(s) + j] = t[j]
<1>1. /\ s \o t \in Seq(T) /\ Len(s \o t) = Len(s) + Len(t)
      /\ \A i \in 1..Len(s) + Len(t) : (s \o t)[i] = IF i <= Len(s) THEN s[i] ELSE t[i - Len(s)]
  BY ConcatProperties
<1>2. Len(s) \in Nat /\ Len(t) \in Nat
  OBVIOUS
<1>3. \A m, n \in Nat : /\ \A i \in 1..m : i \in 1..m + n /\ i <= m
                        /\ \A j \in 1..n : m + j \in 1..m + n /\ ~(m + j <= m) /\ m + j - m = j
  OBVIOUS
<1>4. QED
  BY <1>1, <1>2, <1>3

LEMMA FlattenPlaces ==
  ASSUME NEW T, NEW lists \in Seq(Seq(T))
  PROVE  FlattenSeq(lists) \in Seq(T) /\ \E at : Offsets(lists, FlattenSeq(lists), at)
<1> DEFINE N    == Len(lists)
           flat == FlattenSeq(lists)
<1>1. N \in Nat /\ \A n \in 1..N : lists[n] \in Seq(T)
  OBVIOUS
<1>2. PICK g : /\ g[0] = <<>> /\ g[N] = flat
               /\ \A n \in 1..N : g[n] = g[n - 1] \o lists[n]
  <2>1. CASE N = 0
    <3>1. flat = <<>>
      BY <2>1 DEF FlattenSeq
    <3> DEFINE g == [n \in {0} |-> <<>>]
    <3>2. g[0] = <<>> /\ g[N] = flat /\ 1..N = {}
      BY <2>1, <3>1
    <3>3. QED
      BY <3>2
  <2>2. CASE N # 0
    <3>1. PICK f : Flattens(lists, f) /\ flat = f[N]
      BY <2>2, FlattenExists, FlattenIsFlattens
    <3>2. \A i \in 1..N : f[i] = IF i = 1 THEN lists[i] ELSE f[i - 1] \o lists[i]
      BY <3>1, Zenon DEF Flattens
    <3> DEFINE g == [n \in 0..N |-> IF n = 0 THEN <<>> ELSE f[n]]
    <3> HIDE DEF N, flat
    <3>3. g[0] = <<>> /\ \A n \in 1..N : g[n] = f[n]
      BY <1>1
    <3> HIDE DEF g
    <3>4. \A n \in 1..N : g[n] = g[n - 1] \o lists[n]
      <4> TAKE n \in 1..N
      <4>1. CASE n = 1
        <5>1. g[n] = lists[n] /\ g[n - 1] = <<>>
          BY <3>2, <3>3, <4>1
        <5>2. <<>> \o lists[n] = lists[n]
          BY <1>1
        <5>3. QED
          BY <5>1, <5>2
      <4>2. CASE n # 1
        <5>1. n - 1 \in 1..N
          BY <1>1, <4>2
        <5>2. QED
          BY <3>2, <3>3, <4>2, <5>1
      <4>3. QED
        BY <4>1, <4>2
    <3>5. g[N] = flat
      <4>1. N \in 1..N
        BY <1>1, <2>2
      <4>2. QED
        BY <3>1, <3>3, <4>1
    <3>6. QED
      BY <3>3, <3>4, <3>5
  <2>3. QED
    BY <2>1, <2>2
<1> HIDE DEF N, flat
<1> DEFINE at == [n \in 0..N |-> Len(g[n])]
           Holds(n) ==
             /\ g[n] \in Seq(T)
             /\ \A k \in 1..n :
                  /\ Len(g[k]) \in Nat /\ Len(g[k - 1]) \in Nat /\ Len(g[k]) = Len(g[k - 1]) + Len(lists[k])
                  /\ Len(g[k]) <= Len(g[n])
                  /\ \A j \in 1..Len(lists[k]) : g[n][Len(g[k - 1]) + j] = lists[k][j]
           S == {n \in 0..N : Holds(n)}
<1>3. 0 \in S
  <2>1. <<>> \in Seq(T) /\ 1..0 = {} /\ 0 \in 0..N
    BY <1>1
  <2>2. QED
    BY <1>2, <2>1
<1>4. ASSUME NEW n \in 1..N, n - 1 \in S PROVE n \in S
  <2> DEFINE s == g[n - 1]
             t == lists[n]
  <2>1. Holds(n - 1)
    BY <1>4
  <2>2. n \in Nat /\ n \in 0..N
    BY <1>1
  <2>3. s \in Seq(T) /\ t \in Seq(T)
    BY <1>1, <2>1
  <2>4. g[n] = s \o t
    BY <1>2
  <2>5. /\ g[n] \in Seq(T) /\ Len(g[n]) = Len(s) + Len(t) /\ Len(s) \in Nat /\ Len(t) \in Nat
        /\ \A i \in 1..Len(s) : g[n][i] = s[i]
        /\ \A j \in 1..Len(t) : g[n][Len(s) + j] = t[j]
    <3> HIDE DEF s, t
    <3>1. QED
      BY <2>3, <2>4, ConcatPlaces
  <2>6. ASSUME NEW k \in 1..n
        PROVE  /\ Len(g[k]) \in Nat /\ Len(g[k - 1]) \in Nat /\ Len(g[k]) = Len(g[k - 1]) + Len(lists[k])
               /\ Len(g[k]) <= Len(g[n])
               /\ \A j \in 1..Len(lists[k]) : g[n][Len(g[k - 1]) + j] = lists[k][j]
    <3>1. CASE k = n
      <4> HIDE DEF s, t
      <4>1. Len(g[n]) \in Nat /\ Len(g[n]) <= Len(g[n])
        BY <2>5
      <4>2. Len(s) = Len(g[k - 1]) /\ Len(t) = Len(lists[k]) /\ t = lists[k]
        BY <3>1 DEF s, t
      <4>3. QED
        BY <2>5, <3>1, <4>1, <4>2
    <3>2. CASE k \in 1..(n - 1)
      <4> DEFINE before == Len(g[k - 1])
                 own    == Len(lists[k])
      <4>1. /\ Len(g[k]) \in Nat /\ before \in Nat /\ Len(g[k]) = before + own
            /\ Len(g[k]) <= Len(s)
            /\ \A j \in 1..own : s[before + j] = lists[k][j]
        BY <2>1, <3>2
      <4>2. own \in Nat
        <5>1. k \in 1..N
          BY <1>1, <2>2, <3>2
        <5>2. QED
          BY <1>1, <5>1
      <4> HIDE DEF before, own, s, t
      <4>3. \A j \in 1..own : before + j \in 1..Len(s)
        BY <2>5, <4>1, <4>2
      <4>4. Len(g[k]) <= Len(g[n])
        BY <2>5, <4>1
      <4>5. QED
        BY <2>5, <4>1, <4>3, <4>4 DEF before, own
    <3>3. k = n \/ k \in 1..(n - 1)
      BY <2>2
    <3>4. QED
      BY <3>1, <3>2, <3>3, Zenon
  <2>7. Holds(n)
    BY <2>5, <2>6
  <2> HIDE DEF Holds
  <2>8. QED
    BY <2>2, <2>7
<1>5. \A n \in 0..N : n \in S
  <2> HIDE DEF S
  <2>1. QED
    BY <1>1, <1>3, <1>4, Induction
<1>6. Holds(N)
  <2>1. N \in 0..N
    BY <1>1
  <2> HIDE DEF Holds
  <2>2. QED
    BY <1>5, <2>1
<1>7. at \in [0..N -> Nat] /\ at[0] = 0 /\ at[N] = Len(flat) /\ \A k \in 1..N : at[k] = Len(g[k]) /\ at[k - 1] = Len(g[k - 1])
  <2>1. \A n \in 0..N : Len(g[n]) \in Nat
    BY <1>5
  <2>2. 0 \in 0..N /\ N \in 0..N /\ \A k \in 1..N : k \in 0..N /\ k - 1 \in 0..N
    BY <1>1
  <2>3. Len(<<>>) = 0
    OBVIOUS
  <2>4. QED
    BY <1>2, <2>1, <2>2, <2>3
<1> HIDE DEF at
<1>8. Offsets(lists, flat, at)
  BY <1>2, <1>6, <1>7 DEF Offsets, N
<1>9. flat \in Seq(T)
  BY <1>2, <1>6
<1>10. QED
  BY <1>8, <1>9 DEF flat

\* A list of checks that finds nothing has failed none of them.
LEMMA NoneFails ==
  ASSUME NEW checks, DOMAIN checks \in SUBSET Nat,
         \A i \in DOMAIN checks : checks[i][1] => checks[i][2] # NoText,
         FirstFailure(checks) = NoText
  PROVE  \A i \in DOMAIN checks : ~checks[i][1]
<1> DEFINE failed == {i \in DOMAIN checks : checks[i][1]}
<1>1. ASSUME failed # {} PROVE FALSE
  <2>1. failed \in SUBSET Nat
    OBVIOUS
  <2> HIDE DEF failed
  <2>2. Min(failed) \in failed
    BY <1>1, <2>1, LeastNatural DEF Min
  <2>3. FirstFailure(checks) = checks[Min(failed)][2]
    BY <1>1 DEF FirstFailure, failed
  <2>4. Min(failed) \in DOMAIN checks /\ checks[Min(failed)][1]
    BY <2>2 DEF failed
  <2>5. QED
    BY <2>3, <2>4
<1>2. QED
  BY <1>1

-----------------------------------------------------------------------------
(* Where cuts leave a place. *)

Cuts(K, at) == at \in [0..K -> Nat] /\ at[0] = 0 /\ \A k \in 1..K : at[k - 1] <= at[k]

LEMMA CutsAreOrdered ==
  ASSUME NEW K \in Nat, NEW at, Cuts(K, at)
  PROVE  \A j, k \in 0..K : j <= k => at[j] <= at[k]
<1> SUFFICES ASSUME NEW j \in 0..K PROVE \A k \in 0..K : j <= k => at[j] <= at[k]
  OBVIOUS
<1> DEFINE S == {k \in 0..K : j <= k => at[j] <= at[k]}
<1>1. \A k \in 0..K : at[k] \in Nat
  BY DEF Cuts
<1>2. 0 \in S
  BY <1>1
<1>3. ASSUME NEW k \in 1..K, k - 1 \in S PROVE k \in S
  <2>1. at[k - 1] <= at[k] /\ k \in 0..K /\ k - 1 \in 0..K
    BY DEF Cuts
  <2>2. CASE j = k
    BY <1>1, <2>1, <2>2
  <2>3. CASE j # k
    <3>1. j <= k => j <= k - 1
      BY <2>3
    <3>2. QED
      BY <1>1, <1>3, <2>1, <3>1
  <2>4. QED
    BY <2>2, <2>3
<1> HIDE DEF S
<1>4. \A k \in 0..K : k \in S
  BY <1>2, <1>3, Induction
<1>5. QED
  BY <1>4 DEF S

\* Each place is behind one cut and not behind the next.
LEMMA CutsPlace ==
  ASSUME NEW K \in Nat, NEW at, Cuts(K, at)
  PROVE  /\ \A i \in 1..at[K] : \E k \in 1..K : at[k - 1] < i /\ i <= at[k]
         /\ \A i \in Nat : \A j, k \in 1..K :
              at[j - 1] < i /\ i <= at[j] /\ at[k - 1] < i /\ i <= at[k] => j = k
<1>1. \A k \in 0..K : at[k] \in Nat
  BY DEF Cuts
<1>2. ASSUME NEW i \in 1..at[K] PROVE \E k \in 1..K : at[k - 1] < i /\ i <= at[k]
  <2> DEFINE S == {k \in 0..K : i <= at[k]}
  <2>1. S \in SUBSET Nat /\ K \in S
    BY <1>1
  <2> HIDE DEF S
  <2>2. PICK k \in S : \A j \in S : k <= j
    BY <2>1, LeastNatural
  <2> USE DEF S
  <2>3. k # 0
    BY DEF Cuts
  <2>4. k \in 1..K /\ k - 1 \in 0..K /\ ~(k <= k - 1)
    BY <2>3
  <2>5. ~(i <= at[k - 1])
    BY <2>2, <2>4
  <2>6. QED
    BY <1>1, <2>4, <2>5
<1>3. ASSUME NEW i \in Nat, NEW j \in 1..K, NEW k \in 1..K,
             at[j - 1] < i, i <= at[j], at[k - 1] < i, i <= at[k]
      PROVE  j = k
  <2>1. j \in 0..K /\ k \in 0..K /\ j - 1 \in 0..K /\ k - 1 \in 0..K
    OBVIOUS
  <2>2. ~(j <= k - 1)
    BY <1>1, <1>3, <2>1, CutsAreOrdered
  <2>3. ~(k <= j - 1)
    BY <1>1, <1>3, <2>1, CutsAreOrdered
  <2>4. QED
    BY <2>2, <2>3
<1>4. QED
  BY <1>2, <1>3

\* Each place of lists that are put one after the other is that of an element of one of them.
Owners(lists, flat, of, ix) ==
  /\ \A i \in 1..Len(flat) : /\ of[i] \in 1..Len(lists) /\ ix[i] \in 1..Len(lists[of[i]])
                             /\ flat[i] = lists[of[i]][ix[i]]
  /\ \A i, j \in 1..Len(flat) : i < j => of[i] < of[j] \/ (of[i] = of[j] /\ ix[i] < ix[j])
  /\ \A k \in 1..Len(lists) : \A j \in 1..Len(lists[k]) :
       \E i \in 1..Len(flat) : of[i] = k /\ ix[i] = j

LEMMA FlattenOwners ==
  ASSUME NEW T, NEW lists \in Seq(Seq(T))
  PROVE  FlattenSeq(lists) \in Seq(T) /\ \E of, ix : Owners(lists, FlattenSeq(lists), of, ix)
<1> DEFINE K    == Len(lists)
           flat == FlattenSeq(lists)
           N    == Len(flat)
           L    == [k \in 1..K |-> Len(lists[k])]
<1>1. K \in Nat /\ \A k \in 1..K : L[k] = Len(lists[k]) /\ L[k] \in Nat
  OBVIOUS
<1>2. flat \in Seq(T) /\ \E at : Offsets(lists, flat, at)
  BY FlattenPlaces
<1>3. PICK at : Offsets(lists, flat, at)
  BY <1>2
<1> HIDE DEF K, flat, N, L
<1>4. /\ at \in [0..K -> Nat] /\ at[0] = 0 /\ at[K] = N
      /\ \A k \in 1..K : at[k] = at[k - 1] + L[k] /\ at[k] <= N
      /\ \A k \in 1..K : \A j \in 1..L[k] : flat[at[k - 1] + j] = lists[k][j]
  BY <1>1, <1>3 DEF Offsets, K, N
<1>5. N \in Nat
  BY <1>2 DEF N
<1>6. \A k \in 1..K : k - 1 \in 0..K /\ k \in 0..K /\ at[k - 1] \in Nat /\ at[k] \in Nat
  BY <1>1, <1>4
<1>7. Cuts(K, at)
  <2>1. ASSUME NEW k \in 1..K PROVE at[k - 1] <= at[k]
    <3>1. at[k] = at[k - 1] + L[k] /\ at[k - 1] \in Nat /\ L[k] \in Nat
      BY <1>1, <1>4, <1>6
    <3>2. QED
      BY <3>1
  <2>2. QED
    BY <1>4, <2>1 DEF Cuts
<1> DEFINE Is(i, k) == at[k - 1] < i /\ i <= at[k]
           of == [i \in 1..N |-> CHOOSE k \in 1..K : Is(i, k)]
           ix == [i \in 1..N |-> i - at[of[i] - 1]]
<1>8. \A i \in 1..N : of[i] \in 1..K /\ Is(i, of[i])
  BY <1>1, <1>4, <1>7, CutsPlace
<1>9. \A i \in 1..N : ix[i] = i - at[of[i] - 1]
  OBVIOUS
<1> HIDE DEF of, ix
<1>10. ASSUME NEW i \in 1..N
       PROVE  of[i] \in 1..K /\ ix[i] \in 1..L[of[i]] /\ flat[i] = lists[of[i]][ix[i]]
  <2> DEFINE k == of[i]
  <2>1. k \in 1..K /\ Is(i, k) /\ ix[i] = i - at[k - 1]
    BY <1>8, <1>9
  <2> HIDE DEF k
  <2>2. ix[i] \in 1..L[k] /\ at[k - 1] + ix[i] = i
    BY <1>1, <1>4, <1>5, <1>6, <2>1
  <2>3. flat[i] = lists[k][ix[i]]
    BY <1>4, <2>1, <2>2
  <2>4. QED
    BY <2>1, <2>2, <2>3 DEF k
<1>11. ASSUME NEW i \in 1..N, NEW j \in 1..N, i < j
       PROVE  of[i] < of[j] \/ (of[i] = of[j] /\ ix[i] < ix[j])
  <2>1. of[i] \in 1..K /\ of[j] \in 1..K /\ Is(i, of[i]) /\ Is(j, of[j])
        /\ ix[i] = i - at[of[i] - 1] /\ ix[j] = j - at[of[j] - 1]
    BY <1>8, <1>9
  <2>2. CASE of[i] = of[j]
    BY <1>5, <1>6, <1>11, <2>1, <2>2
  <2>3. CASE of[j] < of[i]
    <3>1. of[j] <= of[i] - 1 /\ of[j] \in 0..K /\ of[i] - 1 \in 0..K
      BY <1>1, <2>1, <2>3
    <3>2. at[of[j]] <= at[of[i] - 1]
      BY <1>1, <1>7, <3>1, CutsAreOrdered
    <3>3. at[of[j]] \in Nat /\ at[of[i] - 1] \in Nat
      BY <1>4, <3>1
    <3>4. j <= at[of[j]] /\ at[of[i] - 1] < i
      BY <2>1
    <3>5. QED
      BY <1>5, <1>11, <3>2, <3>3, <3>4
  <2>4. QED
    BY <2>1, <2>2, <2>3
<1>12. ASSUME NEW k \in 1..K, NEW j \in 1..L[k]
       PROVE  \E i \in 1..N : of[i] = k /\ ix[i] = j
  <2> DEFINE i == at[k - 1] + j
  <2>0. /\ at[k] = at[k - 1] + L[k] /\ at[k - 1] \in Nat /\ L[k] \in Nat /\ at[k] <= N
        /\ j \in 1..L[k]
    BY <1>1, <1>4, <1>6
  <2>1. Is(i, k) /\ i \in 1..N
    BY <1>5, <2>0
  <2> HIDE DEF i
  <2>2. of[i] = k
    BY <1>1, <1>7, <1>8, <2>1, CutsPlace
  <2>3. ix[i] = j
    BY <1>1, <1>6, <1>9, <2>1, <2>2 DEF i
  <2>4. QED
    BY <2>1, <2>2, <2>3
<1>13. Owners(lists, flat, of, ix)
  BY <1>1, <1>10, <1>11, <1>12 DEF Owners, K, N
<1>14. QED
  BY <1>2, <1>13 DEF flat

\* A list that is cut into pieces.
Pieces(list, pieces, cut) ==
  /\ Cuts(Len(pieces), cut) /\ cut[Len(pieces)] = Len(list)
  /\ \A k \in 1..Len(pieces) :
       /\ cut[k] = cut[k - 1] + Len(pieces[k])
       /\ \A j \in 1..Len(pieces[k]) : pieces[k][j] = list[cut[k - 1] + j]

LEMMA PiecesFlatten ==
  ASSUME NEW T, NEW list \in Seq(T), NEW pieces \in Seq(Seq(T)), NEW cut, Pieces(list, pieces, cut)
  PROVE  FlattenSeq(pieces) = list
<1> DEFINE K    == Len(pieces)
           L    == [k \in 1..K |-> Len(pieces[k])]
           N    == Len(list)
           flat == FlattenSeq(pieces)
<1>1. /\ K \in Nat /\ \A k \in 1..K : L[k] = Len(pieces[k]) /\ L[k] \in Nat
      /\ N \in Nat
  OBVIOUS
<1>2. flat \in Seq(T) /\ \E at : Offsets(pieces, flat, at)
  BY FlattenPlaces
<1>3. PICK at : Offsets(pieces, flat, at)
  BY <1>2
<1> HIDE DEF K, L, N, flat
<1>4. /\ at \in [0..K -> Nat] /\ at[0] = 0 /\ at[K] = Len(flat)
      /\ \A k \in 1..K : at[k] = at[k - 1] + L[k]
      /\ \A k \in 1..K : \A j \in 1..L[k] : flat[at[k - 1] + j] = pieces[k][j]
  BY <1>1, <1>3 DEF Offsets, K
<1>5. /\ Cuts(K, cut) /\ cut[K] = N
      /\ \A k \in 1..K : cut[k] = cut[k - 1] + L[k]
      /\ \A k \in 1..K : \A j \in 1..L[k] : pieces[k][j] = list[cut[k - 1] + j]
  BY <1>1 DEF Pieces, K, N
<1>6. cut \in [0..K -> Nat] /\ cut[0] = 0
  BY <1>5 DEF Cuts
<1> DEFINE S == {k \in 0..K : at[k] = cut[k]}
<1>7. 0 \in S
  BY <1>1, <1>4, <1>6
<1>8. \A k \in 1..K : k - 1 \in S => k \in S
  BY <1>1, <1>4, <1>5
<1> HIDE DEF S
<1>9. \A k \in 0..K : k \in S
  BY <1>1, <1>7, <1>8, Induction
<1>10. \A k \in 0..K : at[k] = cut[k]
  BY <1>9 DEF S
<1>11. Len(flat) = N
  <2>1. K \in 0..K
    BY <1>1
  <2>2. QED
    BY <1>4, <1>5, <1>10, <2>1
<1>12. ASSUME NEW i \in 1..N PROVE flat[i] = list[i]
  <2>1. PICK k \in 1..K : cut[k - 1] < i /\ i <= cut[k]
    BY <1>1, <1>5, CutsPlace
  <2>2. k - 1 \in 0..K /\ cut[k - 1] \in Nat /\ cut[k] = cut[k - 1] + L[k] /\ L[k] \in Nat
    BY <1>1, <1>5, <1>6
  <2> DEFINE j == i - cut[k - 1]
  <2>3. j \in 1..L[k] /\ cut[k - 1] + j = i /\ at[k - 1] = cut[k - 1]
    BY <1>1, <1>10, <2>1, <2>2
  <2> HIDE DEF j
  <2>4. flat[at[k - 1] + j] = pieces[k][j] /\ pieces[k][j] = list[cut[k - 1] + j]
    BY <1>4, <1>5, <2>3
  <2>5. QED
    BY <2>3, <2>4
<1>13. flat = list
  <2>1. Len(flat) = Len(list) /\ \A i \in 1..Len(flat) : flat[i] = list[i]
    BY <1>11, <1>12 DEF N
  <2>2. QED
    BY <1>2, <2>1, SeqEqual
<1>14. QED
  BY <1>13 DEF flat

-----------------------------------------------------------------------------
(* What a pattern matches. *)

\* matchSegments, from one segment of the pattern, given what the later ones match from.
FromHere(pattern, path, i, later) ==
  IF i > Len(pattern) THEN {Len(path) + 1}
  ELSE IF pattern[i].deep
    THEN IF i = Len(pattern) THEN 1..(Len(path) + 1)
         ELSE {j \in 1..(Len(path) + 1) : \E skip \in j..(Len(path) + 1) : skip \in later}
    ELSE {j \in 1..Len(path) : path[j] \in pattern[i].names /\ j + 1 \in later}

Matching(pattern, path, from) ==
  from = [i \in 1..(Len(pattern) + 1) |-> FromHere(pattern, path, i, from[i + 1])]

LEMMA MatchesGlobIsMatching ==
  ASSUME NEW pattern, NEW path, NEW reached, Matching(pattern, path, reached)
  PROVE  \E from : Matching(pattern, path, from) /\ (MatchesGlob(pattern, path) <=> 1 \in from[1])
BY DEF Matching, FromHere, MatchesGlob

\* There is one such function at most: two could differ only where they agree one segment on.
LEMMA MatchingIsUnique ==
  ASSUME NEW pattern, NEW path, Len(pattern) \in Nat,
         NEW f, Matching(pattern, path, f), NEW g, Matching(pattern, path, g)
  PROVE  f = g
<1> DEFINE n == Len(pattern)
           S == {d \in 0..n : f[n + 1 - d] # g[n + 1 - d]}
<1>1. \A i \in 1..(n + 1) : /\ f[i] = FromHere(pattern, path, i, f[i + 1])
                            /\ g[i] = FromHere(pattern, path, i, g[i + 1])
  BY Zenon DEF Matching
<1>2. S = {}
  <2> SUFFICES ASSUME S # {} PROVE FALSE
    OBVIOUS
  <2>1. PICK d \in S : \A e \in S : d <= e
    <3>1. S \in SUBSET Nat
      OBVIOUS
    <3> HIDE DEF S
    <3>2. QED
      BY <3>1, LeastNatural
  <2>2. d \in 0..n /\ f[n + 1 - d] # g[n + 1 - d]
    OBVIOUS
  <2>3. d = 0 => f[n + 1 - d] = g[n + 1 - d]
    <3>1. n + 1 \in 1..(n + 1) /\ n + 1 > n /\ n + 1 - 0 = n + 1
      OBVIOUS
    <3>2. f[n + 1] = {Len(path) + 1} /\ g[n + 1] = {Len(path) + 1}
      BY <1>1, <3>1 DEF FromHere
    <3>3. QED
      BY <3>1, <3>2
  <2>4. d # 0 => f[n + 1 - (d - 1)] = g[n + 1 - (d - 1)]
    BY <2>1, <2>2
  <2>5. d # 0 => /\ n + 1 - d \in 1..(n + 1)
                 /\ n + 1 - (d - 1) = (n + 1 - d) + 1
    BY <2>2
  <2> HIDE DEF n, S
  <2>6. d # 0 => f[n + 1 - d] = g[n + 1 - d]
    BY <1>1, <2>4, <2>5
  <2>7. QED
    BY <2>2, <2>3, <2>6
<1>3. \A i \in 1..(n + 1) : f[i] = g[i]
  <2> TAKE i \in 1..(n + 1)
  <2>1. n + 1 - i \in 0..n /\ n + 1 - (n + 1 - i) = i
    OBVIOUS
  <2>2. QED
    BY <1>2, <2>1
<1>4. QED
  BY <1>3 DEF Matching

\* A cut at one segment of the pattern, and the rest of the path cut from segment i on.
CutAt(pattern, path, cut, h) ==
  IF pattern[h].deep THEN cut[h - 1] <= cut[h]
  ELSE cut[h] = cut[h - 1] + 1 /\ path[cut[h]] \in pattern[h].names

Fits(pattern, path, i, j) ==
  \E cut \in [(i - 1)..Len(pattern) -> 0..Len(path)] :
    /\ cut[i - 1] = j - 1 /\ cut[Len(pattern)] = Len(path)
    /\ \A h \in i..Len(pattern) : CutAt(pattern, path, cut, h)

Fitting(pattern, path) ==
  [i \in 1..(Len(pattern) + 1) |-> {j \in 1..(Len(path) + 1) : Fits(pattern, path, i, j)}]

LEMMA FitsAtEnd ==
  ASSUME NEW pattern, NEW path, Len(pattern) \in Nat, Len(path) \in Nat,
         NEW j \in 1..(Len(path) + 1)
  PROVE  Fits(pattern, path, Len(pattern) + 1, j) <=> j = Len(path) + 1
<1> DEFINE n == Len(pattern)
<1>1. Fits(pattern, path, n + 1, j) => j = Len(path) + 1
  BY DEF Fits
<1>2. ASSUME j = Len(path) + 1 PROVE Fits(pattern, path, n + 1, j)
  <2> DEFINE cut == [h \in n..n |-> Len(path)]
  <2>1. cut \in [((n + 1) - 1)..n -> 0..Len(path)] /\ cut[(n + 1) - 1] = j - 1 /\ cut[n] = Len(path)
    BY <1>2
  <2>2. \A h \in (n + 1)..n : CutAt(pattern, path, cut, h)
    OBVIOUS
  <2> HIDE DEF cut
  <2>3. QED
    BY <2>1, <2>2 DEF Fits
<1>3. QED
  BY <1>1, <1>2

LEMMA FitsGoesOn ==
  ASSUME NEW pattern, NEW path, Len(pattern) \in Nat, Len(path) \in Nat,
         NEW i \in 1..Len(pattern), NEW j \in 1..(Len(path) + 1)
  PROVE  Fits(pattern, path, i, j) <=>
           IF pattern[i].deep
           THEN \E skip \in j..(Len(path) + 1) : Fits(pattern, path, i + 1, skip)
           ELSE /\ j <= Len(path) /\ path[j] \in pattern[i].names
                /\ Fits(pattern, path, i + 1, j + 1)
<1> DEFINE n == Len(pattern)
           k == Len(path)
<1>1. ASSUME Fits(pattern, path, i, j)
      PROVE  \E skip \in 1..(k + 1) :
               /\ Fits(pattern, path, i + 1, skip)
               /\ IF pattern[i].deep THEN j <= skip
                  ELSE skip = j + 1 /\ j <= k /\ path[j] \in pattern[i].names
  <2>1. PICK cut \in [(i - 1)..n -> 0..k] :
               /\ cut[i - 1] = j - 1 /\ cut[n] = k
               /\ \A h \in i..n : CutAt(pattern, path, cut, h)
    BY <1>1 DEF Fits
  <2> DEFINE rest == [h \in i..n |-> cut[h]]
  <2>2. cut[i] \in 0..k /\ CutAt(pattern, path, cut, i)
    BY <2>1
  <2>3. Fits(pattern, path, i + 1, cut[i] + 1)
    <3>1. rest \in [((i + 1) - 1)..n -> 0..k]
      OBVIOUS
    <3>2. rest[(i + 1) - 1] = (cut[i] + 1) - 1 /\ rest[n] = k
      BY <2>1, <2>2
    <3>3. \A h \in (i + 1)..n : CutAt(pattern, path, rest, h)
      BY <2>1 DEF CutAt
    <3> HIDE DEF rest
    <3>4. QED
      BY <3>1, <3>2, <3>3 DEF Fits
  <2>4. QED
    <3>1. cut[i] + 1 \in 1..(k + 1)
      BY <2>2
    <3>2. IF pattern[i].deep THEN j <= cut[i] + 1
          ELSE cut[i] + 1 = j + 1 /\ j <= k /\ path[j] \in pattern[i].names
      BY <2>1, <2>2 DEF CutAt
    <3>3. QED
      BY <2>3, <3>1, <3>2
<1>2. ASSUME NEW skip \in 1..(k + 1), Fits(pattern, path, i + 1, skip),
             IF pattern[i].deep THEN j <= skip
             ELSE skip = j + 1 /\ j <= k /\ path[j] \in pattern[i].names
      PROVE  Fits(pattern, path, i, j)
  <2>1. PICK rest \in [i..n -> 0..k] :
               /\ rest[i] = skip - 1 /\ rest[n] = k
               /\ \A h \in (i + 1)..n : CutAt(pattern, path, rest, h)
    <3>1. (i + 1) - 1 = i
      OBVIOUS
    <3>2. QED
      BY <1>2, <3>1 DEF Fits
  <2> DEFINE cut == [h \in (i - 1)..n |-> IF h = i - 1 THEN j - 1 ELSE rest[h]]
  <2>2. cut \in [(i - 1)..n -> 0..k]
    OBVIOUS
  <2>3. /\ cut[i - 1] = j - 1 /\ cut[i] = skip - 1
        /\ \A h \in i..n : cut[h] = rest[h]
    BY <2>1
  <2>4. cut[n] = k
    BY <2>1, <2>3
  <2> HIDE DEF cut
  <2>5. CutAt(pattern, path, cut, i)
    BY <1>2, <2>3 DEF CutAt
  <2>6. \A h \in (i + 1)..n : CutAt(pattern, path, cut, h)
    <3> TAKE h \in (i + 1)..n
    <3>1. h \in i..n /\ h - 1 \in i..n
      OBVIOUS
    <3>2. cut[h] = rest[h] /\ cut[h - 1] = rest[h - 1] /\ CutAt(pattern, path, rest, h)
      BY <2>1, <2>3, <3>1
    <3>3. QED
      BY <3>2 DEF CutAt
  <2>7. \A h \in i..n : h = i \/ h \in (i + 1)..n
    OBVIOUS
  <2>8. QED
    BY <2>2, <2>3, <2>4, <2>5, <2>6, <2>7 DEF Fits
<1>3. \A skip \in j..(k + 1) : skip \in 1..(k + 1) /\ j <= skip
  OBVIOUS
<1>4. j <= k => j + 1 \in 1..(k + 1)
  OBVIOUS
<1>5. \A skip \in 1..(k + 1) : j <= skip => skip \in j..(k + 1)
  OBVIOUS
<1> HIDE DEF n, k
<1>6. QED
  BY <1>1, <1>2, <1>3, <1>4, <1>5 DEF k

LEMMA FittingIsMatching ==
  ASSUME NEW pattern, NEW path, Len(pattern) \in Nat, Len(path) \in Nat
  PROVE  Matching(pattern, path, Fitting(pattern, path))
<1> DEFINE n == Len(pattern)
           k == Len(path)
           f == Fitting(pattern, path)
<1>0. \A i \in 1..(n + 1) : f[i] = {j \in 1..(k + 1) : Fits(pattern, path, i, j)}
  BY DEF Fitting
<1>1. ASSUME NEW i \in 1..(n + 1)
      PROVE  f[i] = FromHere(pattern, path, i, f[i + 1])
  <2>1. CASE i = n + 1
    <3>1. f[i] = {k + 1}
      BY <1>0, <2>1, FitsAtEnd
    <3>2. FromHere(pattern, path, i, f[i + 1]) = {k + 1}
      BY <2>1 DEF FromHere
    <3>3. QED
      BY <3>1, <3>2
  <2>2. CASE i \in 1..n
    <3>1. f[i + 1] = {j \in 1..(k + 1) : Fits(pattern, path, i + 1, j)}
      BY <1>0, <2>2
    <3>2. f[i] = {j \in 1..(k + 1) :
                    IF pattern[i].deep
                    THEN \E skip \in j..(k + 1) : Fits(pattern, path, i + 1, skip)
                    ELSE /\ j <= k /\ path[j] \in pattern[i].names
                         /\ Fits(pattern, path, i + 1, j + 1)}
      BY <1>0, <2>2, FitsGoesOn
    <3>3. CASE ~pattern[i].deep
      <4>1. FromHere(pattern, path, i, f[i + 1])
              = {j \in 1..k : path[j] \in pattern[i].names /\ j + 1 \in f[i + 1]}
        BY <2>2, <3>3 DEF FromHere
      <4> HIDE DEF f
      <4>2. QED
        BY <3>1, <3>2, <3>3, <4>1
    <3>4. CASE pattern[i].deep /\ i # n
      <4>1. FromHere(pattern, path, i, f[i + 1])
              = {j \in 1..(k + 1) : \E skip \in j..(k + 1) : skip \in f[i + 1]}
        BY <2>2, <3>4 DEF FromHere
      <4> HIDE DEF f
      <4>2. QED
        BY <3>1, <3>2, <3>4, <4>1
    <3>5. CASE pattern[i].deep /\ i = n
      <4>1. FromHere(pattern, path, i, f[i + 1]) = 1..(k + 1)
        BY <2>2, <3>5 DEF FromHere
      <4>2. Fits(pattern, path, i + 1, k + 1)
        BY <3>5, FitsAtEnd
      <4>3. \A j \in 1..(k + 1) : k + 1 \in j..(k + 1)
        OBVIOUS
      <4> HIDE DEF f
      <4>4. QED
        BY <3>2, <3>5, <4>1, <4>2, <4>3
    <3>6. QED
      BY <3>3, <3>4, <3>5
  <2>3. QED
    BY <2>1, <2>2
<1>2. f = [i \in 1..(n + 1) |-> f[i]]
  BY DEF Fitting
<1> HIDE DEF f
<1>3. f = [i \in 1..(n + 1) |-> FromHere(pattern, path, i, f[i + 1])]
  BY <1>1, <1>2
<1>4. QED
  BY <1>3 DEF Matching, f

\* The recursive matcher agrees with what a pattern means, for every pattern and path: a path
\* matches when it can be cut into one piece per segment, where a `**` takes any piece.
THEOREM GlobsMeanWhatTheySay ==
  ASSUME NEW pattern, NEW path, Len(pattern) \in Nat, Len(path) \in Nat
  PROVE  MatchesGlob(pattern, path) <=> PatternMeans(pattern, path)
<1>1. Matching(pattern, path, Fitting(pattern, path))
  BY FittingIsMatching
<1>2. MatchesGlob(pattern, path) <=> 1 \in Fitting(pattern, path)[1]
  BY <1>1, MatchesGlobIsMatching, MatchingIsUnique
<1>3. 1 \in Fitting(pattern, path)[1] <=> Fits(pattern, path, 1, 1)
  BY DEF Fitting
<1>4. Fits(pattern, path, 1, 1) <=> PatternMeans(pattern, path)
  <2>1. 1 - 1 = 0
    OBVIOUS
  <2>2. QED
    BY <2>1 DEF Fits, CutAt, PatternMeans
<1>5. QED
  BY <1>2, <1>3, <1>4
=============================================================================
