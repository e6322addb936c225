----------------------------- MODULE RenewalProofs -----------------------------
(***************************************************************************)
(* Proofs about Renewal: types; that every window booked lies between the  *)
(* one of issuing and the theoretical one; and that bookings spread over   *)
(* the look-back as evenly as the limit of a scan asks for, by the         *)
(* pigeonhole principle, for the windows of the look-back and for choices  *)
(* that no other choice overlaps; and that healthy rows are renewed before *)
(* they expire, since every scan that does not die leaves fewer of them    *)
(* that are due.                                                           *)
(***************************************************************************)
EXTENDS Renewal, FiniteSetTheorems, FunctionTheorems, TLAPS

(* A run has chosen from the look-back of the present window, in which it  *)
(* will store its choice.                                                  *)
ChoicesLieAhead == \A c \in Busy : run[c].slot \in (now + 1)..(now + Lead + 1)

BookingInv == TypeOK /\ SlotsLieAhead /\ ChoicesLieAhead

(* A look-back that is no longer than the lead begins after the present.   *)
LEMMA PickedSlot ==
  ASSUME now \in Nat, NEW c \in Certs, NEW t0 \in Theoretical, NEW w \in PickSlot(t0, c)
  PROVE  w \in (now + 1)..(now + Lead + 1)
<1> DEFINE seen   == (t0 - Lookback + 1)..t0
           idlest == {v \in seen : \A u \in seen : Occupancy(v, c) <= Occupancy(u, c)}
<1>1. w \in seen
  <2>1. w \in {v \in idlest : \A u \in idlest : u <= v}
    BY DEF PickSlot
  <2> HIDE DEF seen
  <2> QED
    BY <2>1
<1> QED
  BY <1>1, TimeAssumption DEF Theoretical

(* Choosing keeps the booking invariant.                                   *)
LEMMA ChooseKeeps ==
  ASSUME BookingInv, NEW c \in Certs, NEW by \in {"scan", "request"}, Choose(c, by),
         UNCHANGED <<now, table>>
  PROVE  run' \in [Certs -> RunType \cup {NoRun}] /\ SlotsLieAhead' /\ ChoicesLieAhead'
<1> USE DEF BookingInv
<1>0. PICK t0 \in Theoretical : \E w \in PickSlot(t0, c) :
        run' = [run EXCEPT ![c] = [slot |-> w, by |-> by, raced |-> Busy # {}]]
  BY DEF Choose
<1>1. PICK w \in PickSlot(t0, c) :
        run' = [run EXCEPT ![c] = [slot |-> w, by |-> by, raced |-> Busy # {}]]
  BY <1>0
<1>2. w \in (now + 1)..(now + Lead + 1) /\ w \in Nat /\ now \in Nat
  BY <1>1, PickedSlot, TimeAssumption DEF TypeOK
<1>3. [slot |-> w, by |-> by, raced |-> Busy # {}] \in RunType
  BY <1>2 DEF RunType
<1>4. run' \in [Certs -> RunType \cup {NoRun}]
  BY <1>1, <1>3 DEF TypeOK
<1>5. SlotsLieAhead'
  BY DEF SlotsLieAhead, Issued
<1>6. ChoicesLieAhead'
  <2> SUFFICES ASSUME NEW d \in Busy' PROVE run'[d].slot \in (now + 1)..(now + Lead + 1)
    BY DEF ChoicesLieAhead
  <2>1. CASE d = c
    BY <1>1, <1>2, <2>1 DEF TypeOK
  <2>2. CASE d # c
    BY <1>1, <2>2 DEF TypeOK, Busy, ChoicesLieAhead
  <2> QED
    BY <2>1, <2>2
<1> QED
  BY <1>4, <1>5, <1>6

(* Storing keeps it: the run stores in the window in which it chose.       *)
LEMMA StoreKeeps ==
  ASSUME BookingInv, NEW c \in Certs, Store(c)
  PROVE  BookingInv'
<1> USE DEF BookingInv
<1>1. c \in Busy /\ run[c] \in RunType
  BY DEF Store, Busy, TypeOK
<1>2. run[c].slot \in (now + 1)..(now + Lead + 1) /\ run[c].slot \in Nat /\ now \in Nat
  BY <1>1 DEF ChoicesLieAhead, RunType, TypeOK
<1>3. [issued |-> now, slot |-> run[c].slot] \in RowType
  BY <1>2 DEF RowType
<1>4. TypeOK'
  BY <1>1, <1>3 DEF Store, TypeOK
<1>5. SlotsLieAhead'
  <2> SUFFICES ASSUME NEW d \in Issued'
               PROVE  table'[d].slot \in (table'[d].issued + 1)..(table'[d].issued + Lead + 1)
    BY DEF SlotsLieAhead
  <2>1. CASE d = c
    BY <1>2, <2>1 DEF Store, TypeOK
  <2>2. CASE d # c
    BY <2>2 DEF Store, TypeOK, Issued, SlotsLieAhead
  <2> QED
    BY <2>1, <2>2
<1>6. ChoicesLieAhead'
  BY DEF Store, ChoicesLieAhead, Busy, TypeOK
<1> QED
  BY <1>4, <1>5, <1>6

(* The booking invariant holds of every behaviour.                         *)
THEOREM BookingInvariant == Spec => []BookingInv
<1>1. Init => BookingInv
  <2> SUFFICES ASSUME Init PROVE BookingInv
    OBVIOUS
  <2>1. TypeOK
    BY DEF Init, TypeOK
  <2>2. Issued = {} /\ Busy = {}
    BY DEF Init, Issued, Busy
  <2> QED
    BY <2>1, <2>2 DEF BookingInv, SlotsLieAhead, ChoicesLieAhead
<1>2. BookingInv /\ [Next]_vars => BookingInv'
  <2> SUFFICES ASSUME BookingInv, [Next]_vars PROVE BookingInv'
    OBVIOUS
  <2> USE DEF BookingInv
  <2>1. ASSUME NEW c \in Certs, RequestIssues(c) PROVE BookingInv'
    BY <2>1, ChooseKeeps DEF RequestIssues, TypeOK
  <2>2. ASSUME NEW c \in Certs, Store(c) PROVE BookingInv'
    BY <2>2, StoreKeeps
  <2>3. ASSUME ScanSelect PROVE BookingInv'
    <3>1. \A c \in Due : [cert |-> c, slot |-> table[c].slot] \in [cert : Certs, slot : Nat]
      BY DEF Due, Issued, TypeOK, RowType
    <3>2. todo' \subseteq [cert : Certs, slot : Nat]
      BY <2>3, <3>1 DEF ScanSelect
    <3> QED
      BY <2>3, <3>2 DEF ScanSelect, TypeOK, SlotsLieAhead, ChoicesLieAhead, Issued, Busy
  <2>4. ASSUME NEW e \in todo, ScanRenews(e) PROVE BookingInv'
    <3>1. e.cert \in Certs
      BY DEF TypeOK
    <3> QED
      BY <2>4, <3>1, ChooseKeeps DEF ScanRenews, ScanTurn, TypeOK
  <2>5. ASSUME NEW e \in todo, ScanSkips(e) PROVE BookingInv'
    BY <2>5 DEF ScanSkips, ScanTurn, TypeOK, SlotsLieAhead, ChoicesLieAhead, Issued, Busy
  <2>6. ASSUME Evict PROVE BookingInv'
    <3>1. run' \in [Certs -> RunType \cup {NoRun}]
          /\ \A c \in Certs : run'[c] \in {run[c], NoRun}
      BY <2>6 DEF Evict, TypeOK
    <3> QED
      BY <2>6, <3>1 DEF Evict, TypeOK, SlotsLieAhead, ChoicesLieAhead, Issued, Busy
  <2>7. ASSUME Tick PROVE BookingInv'
    <3>1. TypeOK'
      <4>1. now' \in Nat
        BY <2>7 DEF Tick, TypeOK
      <4>2. fired' \in BOOLEAN
        BY <2>7 DEF Tick
      <4> QED
        BY <2>7, <4>1, <4>2 DEF Tick, TypeOK
    <3>2. Busy' = {} /\ Issued' = Issued
      BY <2>7 DEF Tick, Busy, Issued
    <3>3. SlotsLieAhead' /\ ChoicesLieAhead'
      BY <2>7, <3>2 DEF Tick, SlotsLieAhead, ChoicesLieAhead
    <3> QED
      BY <3>1, <3>3
  <2>8. CASE UNCHANGED vars
    BY <2>8 DEF vars, TypeOK, SlotsLieAhead, ChoicesLieAhead, Issued, Busy
  <2> QED
    BY <2>1, <2>2, <2>3, <2>4, <2>5, <2>6, <2>7, <2>8 DEF Next
<1> QED
  BY <1>1, <1>2, PTL DEF Spec

(* Every variable keeps its type.                                          *)
THEOREM TypeCorrect == Spec => []TypeOK
<1>1. BookingInv => TypeOK
  BY DEF BookingInv
<1> QED
  BY <1>1, BookingInvariant, PTL

(* With a lead of at least the look-back no certificate is due as soon as  *)
(* it is issued, and none is booked after its theoretical window.          *)
THEOREM SlotsAhead == Spec => []SlotsLieAhead
<1>1. BookingInv => SlotsLieAhead
  BY DEF BookingInv
<1> QED
  BY <1>1, BookingInvariant, PTL

-----------------------------------------------------------------------------
(* The pigeonhole principle for sets: k members of A in each of the W       *)
(* disjoint sets make W times k members of A.                               *)
LEMMA PigeonsFit ==
  ASSUME NEW A, IsFiniteSet(A), NEW W, IsFiniteSet(W), NEW k \in Nat,
         NEW S \in [W -> SUBSET A], \A w \in W : Cardinality(S[w]) >= k,
         \A v, w \in W : v # w => S[v] \cap S[w] = {}
  PROVE  Cardinality(W) * k <= Cardinality(A)
<1>1. \A w \in W : \E f : f \in Injection(1..k, S[w])
  <2> TAKE w \in W
  <2> DEFINE n == Cardinality(S[w])
  <2>1. IsFiniteSet(S[w])
    BY FS_Subset
  <2>2. n \in Nat /\ ExistsBijection(1..n, S[w])
    BY <2>1, FS_CardinalityType
  <2>3. n >= k
    OBVIOUS
  <2> HIDE DEF n
  <2>4. PICK g : g \in Bijection(1..n, S[w])
    BY <2>2 DEF ExistsBijection
  <2>5. g \in [1..n -> S[w]] /\ \A i, j \in 1..n : g[i] = g[j] => i = j
    BY <2>4 DEF Bijection, Injection, IsInjective
  <2>6. [i \in 1..k |-> g[i]] \in Injection(1..k, S[w])
    <3> DEFINE f == [i \in 1..k |-> g[i]]
    <3>1. 1..k \subseteq 1..n
      BY <2>2, <2>3
    <3>2. f \in [1..k -> S[w]]
      BY <2>5, <3>1
    <3>3. \A i, j \in 1..k : f[i] = f[j] => i = j
      BY <2>5, <3>1
    <3> QED
      BY <3>2, <3>3, Fun_IsInj
  <2> QED
    BY <2>6
<1> DEFINE chosen == [w \in W |-> CHOOSE f : f \in Injection(1..k, S[w])]
           F == [p \in W \X (1..k) |-> chosen[p[1]][p[2]]]
<1>2. \A w \in W : chosen[w] \in Injection(1..k, S[w])
  <2> TAKE w \in W
  <2>1. (CHOOSE f : f \in Injection(1..k, S[w])) \in Injection(1..k, S[w])
    BY <1>1, Zenon
  <2>2. chosen[w] = CHOOSE f : f \in Injection(1..k, S[w])
    BY Zenon
  <2> QED
    BY <2>1, <2>2, Zenon
<1> HIDE DEF chosen
<1>3. \A w \in W : /\ chosen[w] \in [1..k -> S[w]]
                   /\ \A i, j \in 1..k : chosen[w][i] = chosen[w][j] => i = j
  BY <1>2 DEF Injection, IsInjective
<1>4. F \in [W \X (1..k) -> A]
  BY <1>3
<1>5. \A p, q \in W \X (1..k) : F[p] = F[q] => p = q
  <2> SUFFICES ASSUME NEW v \in W, NEW i \in 1..k, NEW w \in W, NEW j \in 1..k,
                      chosen[v][i] = chosen[w][j]
               PROVE  v = w /\ i = j
    OBVIOUS
  <2>1. chosen[v][i] \in S[v] /\ chosen[w][j] \in S[w]
    BY <1>3
  <2>2. v = w
    BY <2>1
  <2> QED
    BY <1>3, <2>2
<1>6. F \in Injection(W \X (1..k), A)
  BY <1>4, <1>5, Fun_IsInj
<1>7. Cardinality(W \X (1..k)) <= Cardinality(A)
  BY <1>6, FS_Injection
<1>8. IsFiniteSet(1..k) /\ Cardinality(1..k) = k
  BY FS_Interval
<1> QED
  BY <1>7, <1>8, FS_Product

-----------------------------------------------------------------------------
(* Do the certificates fit into the windows of a look-back?                 *)
Fits == Cardinality(Certs) <= Limit * Lookback

(* The last of the idlest windows has room for one more.                    *)
LEMMA PickedHasRoom ==
  ASSUME Fits, NEW c \in Certs, NEW t0 \in Int, NEW w \in PickSlot(t0, c)
  PROVE  Occupancy(w, c) < Limit
<1> DEFINE seen == (t0 - Lookback + 1)..t0
           others == Issued \ {c}
           S == [v \in seen |-> {d \in others : table[d].slot = v}]
<1>1. Limit \in Nat /\ Lookback \in Nat \ {0} /\ IsFiniteSet(Certs)
  BY TimeAssumption, CertsAssumption
<1>2. w \in seen /\ \A v \in seen : Occupancy(w, c) <= Occupancy(v, c)
  <2> DEFINE idlest == {x \in seen : \A v \in seen : Occupancy(x, c) <= Occupancy(v, c)}
  <2>1. w \in {x \in idlest : \A v \in idlest : v <= x}
    BY DEF PickSlot
  <2> HIDE DEF seen
  <2> QED
    BY <2>1
<1>3. IsFiniteSet(seen) /\ Cardinality(seen) = Lookback
  BY <1>1, FS_Interval
<1>4. IsFiniteSet(Certs \ {c}) /\ Cardinality(Certs \ {c}) = Cardinality(Certs) - 1
      /\ Cardinality(Certs) \in Nat
  BY <1>1, FS_RemoveElement, FS_CardinalityType
<1>5. others \subseteq Certs \ {c}
  BY DEF Issued
<1>6. \A v \in seen : Occupancy(v, c) = Cardinality(S[v])
  BY DEF Occupancy
<1>7. S \in [seen -> SUBSET (Certs \ {c})] /\ \A u, v \in seen : u # v => S[u] \cap S[v] = {}
  BY <1>5
<1> HIDE DEF seen, S
<1>8. \A v \in seen : Occupancy(v, c) \in Nat
  <2> TAKE v \in seen
  <2>1. S[v] \in SUBSET (Certs \ {c})
    BY <1>7
  <2> QED
    BY <1>4, <1>6, <2>1, FS_Subset, FS_CardinalityType
<1> SUFFICES ASSUME ~(Occupancy(w, c) < Limit) PROVE FALSE
  OBVIOUS
<1>9. \A v \in seen : Cardinality(S[v]) >= Limit
  BY <1>1, <1>2, <1>6, <1>8
<1>10. Lookback * Limit <= Cardinality(Certs) - 1
  BY <1>1, <1>3, <1>4, <1>7, <1>9, PigeonsFit
<1>11. Lookback * Limit = Limit * Lookback
  BY <1>1
<1>12. Lookback * Limit \in Nat
  BY <1>1
<1> QED
  BY <1>4, <1>10, <1>11, <1>12 DEF Fits

-----------------------------------------------------------------------------
(* Certificates booked in window w whose choice nobody disturbed.           *)
Booked(w) == {d \in Issued \ raced : table[d].slot = w}

(* At most one of the runs under way chose while no other was choosing, and *)
(* what it has chosen still has room: whoever chose after it is disturbed.  *)
OneUndisturbed == \A c, d \in Busy : ~run[c].raced /\ ~run[d].raced => c = d
ChoicesHaveRoom == \A c \in Busy : ~run[c].raced => Cardinality(Booked(run[c].slot) \ {c}) < Limit
SlotsHaveRoom   == \A w \in Nat : Cardinality(Booked(w)) <= Limit

RoomInv == BookingInv /\ (Fits => OneUndisturbed /\ ChoicesHaveRoom /\ SlotsHaveRoom)

LEMMA SmallerSet ==
  ASSUME NEW T, IsFiniteSet(T), NEW S, S \subseteq T
  PROVE  /\ Cardinality(S) \in Nat /\ Cardinality(T) \in Nat
         /\ Cardinality(S) <= Cardinality(T)
BY FS_Subset, FS_CardinalityType

LEMMA BookedIsFinite == \A w, c : IsFiniteSet(Booked(w)) /\ IsFiniteSet(Booked(w) \ {c})
<1>1. ASSUME NEW w PROVE IsFiniteSet(Booked(w))
  BY CertsAssumption, FS_Subset DEF Booked, Issued
<1> QED
  BY <1>1, FS_RemoveElement

(* Fewer bookings and fewer runs keep the room there is.                    *)
LEMMA LessKeeps ==
  ASSUME RoomInv, \A w \in Nat : Booked(w)' \subseteq Booked(w),
         Busy' \subseteq Busy, \A c \in Busy' : run'[c] = run[c]
  PROVE  Fits => (OneUndisturbed /\ ChoicesHaveRoom /\ SlotsHaveRoom)'
<1> SUFFICES ASSUME Fits PROVE (OneUndisturbed /\ ChoicesHaveRoom /\ SlotsHaveRoom)'
  OBVIOUS
<1>1. OneUndisturbed'
  BY DEF RoomInv, OneUndisturbed
<1>2. SlotsHaveRoom'
  <2> SUFFICES ASSUME NEW w \in Nat PROVE Cardinality(Booked(w)') <= Limit
    BY DEF SlotsHaveRoom
  <2> DEFINE T == Booked(w)
             S == Booked(w)'
  <2>1. IsFiniteSet(T) /\ S \subseteq T /\ Cardinality(T) <= Limit
    BY BookedIsFinite DEF RoomInv, SlotsHaveRoom
  <2> HIDE DEF S, T
  <2>2. Cardinality(S) <= Limit
    BY <2>1, SmallerSet, TimeAssumption
  <2> QED
    BY <2>2 DEF S
<1>3. ChoicesHaveRoom'
  <2> SUFFICES ASSUME NEW c \in Busy', ~run'[c].raced, NEW w, w = run'[c].slot
               PROVE  Cardinality(Booked(w)' \ {c}) < Limit
    BY DEF ChoicesHaveRoom
  <2> DEFINE T == Booked(w) \ {c}
             S == Booked(w)' \ {c}
  <2>1. c \in Busy /\ ~run[c].raced /\ w = run[c].slot /\ w \in Nat
    BY DEF RoomInv, BookingInv, TypeOK, Busy, RunType
  <2>2. IsFiniteSet(T) /\ S \subseteq T /\ Cardinality(T) < Limit
    BY <2>1, BookedIsFinite DEF RoomInv, ChoicesHaveRoom
  <2> HIDE DEF S, T
  <2>3. Cardinality(S) < Limit
    BY <2>2, SmallerSet, TimeAssumption
  <2> QED
    BY <2>3 DEF S
<1> QED
  BY <1>1, <1>2, <1>3

(* A run that chooses undisturbed is the only one, and found room; one that *)
(* chooses while others do is disturbed itself.                             *)
LEMMA ChoosingKeepsRoom ==
  ASSUME RoomInv, NEW c \in Certs, NEW by \in {"scan", "request"}, Choose(c, by),
         UNCHANGED <<now, table, raced>>
  PROVE  Fits => (OneUndisturbed /\ ChoicesHaveRoom /\ SlotsHaveRoom)'
<1> SUFFICES ASSUME Fits PROVE (OneUndisturbed /\ ChoicesHaveRoom /\ SlotsHaveRoom)'
  OBVIOUS
<1>1. PICK t0 \in Theoretical : \E w \in PickSlot(t0, c) :
        run' = [run EXCEPT ![c] = [slot |-> w, by |-> by, raced |-> Busy # {}]]
  BY DEF Choose
<1>2. PICK w \in PickSlot(t0, c) :
        run' = [run EXCEPT ![c] = [slot |-> w, by |-> by, raced |-> Busy # {}]]
  BY <1>1
<1>3. /\ run[c] = NoRun /\ c \notin Busy
      /\ run'[c].slot = w /\ (run'[c].raced <=> Busy # {})
      /\ \A d \in Certs \ {c} : run'[d] = run[d]
      /\ Busy' \subseteq Busy \cup {c} /\ Busy \subseteq Certs
  BY <1>2 DEF Choose, Busy, RoomInv, BookingInv, TypeOK
<1>4. \A v : Booked(v)' = Booked(v)
  BY DEF Booked, Issued
<1>5. OneUndisturbed'
  BY <1>3 DEF RoomInv, OneUndisturbed
<1>6. SlotsHaveRoom'
  BY <1>4 DEF RoomInv, SlotsHaveRoom
<1>7. ChoicesHaveRoom'
  <2> SUFFICES ASSUME NEW d \in Busy', ~run'[d].raced, NEW v, v = run'[d].slot
               PROVE  Cardinality(Booked(v) \ {d}) < Limit
    BY <1>4 DEF ChoicesHaveRoom
  <2>1. CASE d # c
    BY <1>3, <2>1 DEF RoomInv, ChoicesHaveRoom
  <2>2. CASE d = c
    <3> DEFINE S == Booked(v) \ {d}
               T == {e \in Issued \ {c} : table[e].slot = w}
    <3>1. t0 \in Int
      BY TimeAssumption DEF Theoretical, RoomInv, BookingInv, TypeOK
    <3>2. Cardinality(T) < Limit
      BY <1>2, <3>1, PickedHasRoom DEF Occupancy
    <3>3. S \subseteq T /\ IsFiniteSet(T)
      BY <1>3, <2>2, CertsAssumption, FS_Subset DEF Booked, Issued
    <3> HIDE DEF S, T
    <3>4. Cardinality(S) < Limit
      BY <3>2, <3>3, SmallerSet, TimeAssumption
    <3> QED
      BY <3>4 DEF S
  <2> QED
    BY <2>1, <2>2
<1> QED
  BY <1>5, <1>6, <1>7

(* An undisturbed choice is stored where there is room for it.              *)
LEMMA StoringKeepsRoom ==
  ASSUME RoomInv, NEW c \in Certs, Store(c)
  PROVE  Fits => (OneUndisturbed /\ ChoicesHaveRoom /\ SlotsHaveRoom)'
<1>0. /\ c \in Busy /\ run[c] \in RunType /\ run[c].slot \in Nat
      /\ \A d \in Certs \ {c} : run'[d] = run[d] /\ table'[d] = table[d]
      /\ run'[c] = NoRun /\ table'[c] = [issued |-> now, slot |-> run[c].slot]
      /\ Busy' = Busy \ {c} /\ \A d \in Busy' : run'[d] = run[d]
  BY DEF Store, Busy, RoomInv, BookingInv, TypeOK, RunType
<1>1. CASE run[c].raced
  <2>1. raced' = raced \cup {c}
    BY <1>1 DEF Store
  <2>2. \A w \in Nat : Booked(w)' \subseteq Booked(w)
    BY <1>0, <2>1 DEF Booked, Issued
  <2> QED
    BY <1>0, <2>2, LessKeeps
<1>2. CASE ~run[c].raced
  <2> SUFFICES ASSUME Fits PROVE (OneUndisturbed /\ ChoicesHaveRoom /\ SlotsHaveRoom)'
    OBVIOUS
  <2>1. \A d \in Busy' : run'[d].raced
    BY <1>0, <1>2 DEF RoomInv, OneUndisturbed
  <2>2. OneUndisturbed' /\ ChoicesHaveRoom'
    BY <2>1 DEF OneUndisturbed, ChoicesHaveRoom
  <2>3. SlotsHaveRoom'
    <3> SUFFICES ASSUME NEW w \in Nat PROVE Cardinality(Booked(w)') <= Limit
      BY DEF SlotsHaveRoom
    <3> DEFINE S == Booked(w)'
               T == Booked(w)
               U == Booked(w) \ {c}
    <3>0. raced' = raced \ {c}
      BY <1>2 DEF Store
    <3>1. IsFiniteSet(T) /\ IsFiniteSet(U) /\ Cardinality(T) <= Limit
      BY BookedIsFinite DEF RoomInv, SlotsHaveRoom
    <3>2. CASE w = run[c].slot
      <4>1. Cardinality(U) < Limit
        BY <1>0, <1>2, <3>2 DEF RoomInv, ChoicesHaveRoom
      <4>2. S \subseteq U \cup {c}
        BY <1>0, <3>0 DEF Booked, Issued
      <4> HIDE DEF S, U
      <4>3. IsFiniteSet(U \cup {c}) /\ Cardinality(U \cup {c}) <= Cardinality(U) + 1
            /\ Cardinality(U) \in Nat
        <5>1. Cardinality(U) \in Nat
          BY <3>1, FS_CardinalityType
        <5>2. /\ IsFiniteSet(U \cup {c})
              /\ Cardinality(U \cup {c}) = IF c \in U THEN Cardinality(U) ELSE Cardinality(U) + 1
          BY <3>1, FS_AddElement
        <5> QED
          BY <5>1, <5>2
      <4>4. Cardinality(S) <= Limit
        BY <4>1, <4>2, <4>3, SmallerSet, TimeAssumption
      <4> QED
        BY <4>4 DEF S
    <3>3. CASE w # run[c].slot
      <4>1. S \subseteq T
        BY <1>0, <3>0, <3>3 DEF Booked, Issued, RowType
      <4> HIDE DEF S, T
      <4>2. Cardinality(S) <= Limit
        BY <3>1, <4>1, SmallerSet, TimeAssumption
      <4> QED
        BY <4>2 DEF S
    <3> QED
      BY <3>2, <3>3
  <2> QED
    BY <2>2, <2>3
<1> QED
  BY <1>0, <1>1, <1>2 DEF RunType

LEMMA RoomStep == RoomInv /\ BookingInv' /\ [Next]_vars => RoomInv'
<1> SUFFICES ASSUME RoomInv, [Next]_vars
             PROVE  Fits => (OneUndisturbed /\ ChoicesHaveRoom /\ SlotsHaveRoom)'
  BY DEF RoomInv, Fits
<1>1. ASSUME NEW c \in Certs, RequestIssues(c)
      PROVE  Fits => (OneUndisturbed /\ ChoicesHaveRoom /\ SlotsHaveRoom)'
  BY <1>1, ChoosingKeepsRoom DEF RequestIssues
<1>2. ASSUME NEW c \in Certs, Store(c)
      PROVE  Fits => (OneUndisturbed /\ ChoicesHaveRoom /\ SlotsHaveRoom)'
  BY <1>2, StoringKeepsRoom
<1>3. ASSUME NEW e \in todo, ScanRenews(e)
      PROVE  Fits => (OneUndisturbed /\ ChoicesHaveRoom /\ SlotsHaveRoom)'
  <2>1. e.cert \in Certs
    BY DEF RoomInv, BookingInv, TypeOK
  <2> QED
    BY <1>3, <2>1, ChoosingKeepsRoom DEF ScanRenews
<1>4. ASSUME ScanSelect \/ (\E e \in todo : ScanSkips(e)) \/ Tick \/ Evict \/ UNCHANGED vars
      PROVE  Fits => (OneUndisturbed /\ ChoicesHaveRoom /\ SlotsHaveRoom)'
  <2>1. UNCHANGED <<table, raced>>
    BY <1>4 DEF ScanSelect, ScanSkips, Tick, Evict, vars
  <2>2. \A w \in Nat : Booked(w)' \subseteq Booked(w)
    BY <2>1 DEF Booked, Issued
  <2>3. Busy' \subseteq Busy /\ \A c \in Busy' : run'[c] = run[c]
    BY <1>4 DEF ScanSelect, ScanSkips, Tick, Evict, vars, Busy, RoomInv, BookingInv, TypeOK
  <2> QED
    BY <2>2, <2>3, LessKeeps
<1> QED
  BY <1>1, <1>2, <1>3, <1>4 DEF Next

(* As long as the certificates fit into the windows of a look-back, no scan *)
(* finds more of them booked for one window than it renews, whatever        *)
(* requests and scans book in between, apart from choices that overlapped.  *)
THEOREM SlotsFit == Spec => []SlotsFitTheScan
<1>1. Init => (Fits => OneUndisturbed /\ ChoicesHaveRoom /\ SlotsHaveRoom)
  <2> SUFFICES ASSUME Init PROVE OneUndisturbed /\ ChoicesHaveRoom /\ SlotsHaveRoom
    OBVIOUS
  <2>1. Issued = {} /\ Busy = {}
    BY DEF Init, Issued, Busy
  <2>2. \A w \in Nat : Booked(w) = {}
    BY <2>1 DEF Booked
  <2> QED
    BY <2>1, <2>2, FS_EmptySet, TimeAssumption
       DEF OneUndisturbed, ChoicesHaveRoom, SlotsHaveRoom
<1>2. BookingInv /\ (Fits => OneUndisturbed /\ ChoicesHaveRoom /\ SlotsHaveRoom) <=> RoomInv
  BY DEF RoomInv
<1>3. RoomInv => SlotsFitTheScan
  <2> SUFFICES ASSUME RoomInv, Fits, NEW c \in Issued
               PROVE  Cardinality(Booked(table[c].slot)) <= Limit
    BY DEF SlotsFitTheScan, Fits, Booked
  <2>1. table[c].slot \in Nat
    BY DEF RoomInv, BookingInv, TypeOK, Issued, RowType
  <2> QED
    BY <2>1 DEF RoomInv, SlotsHaveRoom
<1> QED
  BY <1>1, <1>2, <1>3, BookingInvariant, RoomStep, PTL DEF Spec

-----------------------------------------------------------------------------
(* Rows whose orders succeed, how many more of them a scan renews than can *)
(* fail in it, and those of them that are booked for window s at the latest.*)
Healthy == Certs \ Stuck
Gain == Limit - Cardinality(Stuck)
Behind(s) == {d \in Issued \ Stuck : table[d].slot <= s}

(* What will be stored, or found to be under way, before the window is over.*)
Pending == {e.cert : e \in todo} \cup Busy

(* After n complete scans only the rows S are left. *)
Progress(n, S) == n * Gain + Cardinality(S) <= Cardinality(Healthy)

(* Every window since s has seen a complete scan, or one that died; so has  *)
(* the present one, if it has begun, once all that is pending is done.      *)
ScansSince == \A s \in Nat : s <= now /\ Behind(s) # {} => Progress(now - s - evictions, Behind(s))
ScanSoFar ==
  fired => \A s \in Nat :
             s <= now /\ ~(Behind(s) \subseteq Pending)
             => Progress(now + 1 - s - evictions, Behind(s) \ Pending)

ScanInv ==
  /\ BookingInv
  /\ evictions <= MaxEvictions /\ (~fired => todo = {})
  /\ ScansKeepUp => ScansSince /\ ScanSoFar

LEMMA Products ==
  ASSUME NEW m \in Int, NEW n \in Int, NEW g \in Nat
  PROVE  /\ m * g \in Int /\ (m + 1) * g = m * g + g
         /\ m <= n => m * g <= n * g
<1>1. m * g \in Int /\ n * g \in Int /\ (m + 1) * g = m * g + g
  OBVIOUS
<1>2. ASSUME m <= n PROVE m * g <= n * g
  <2>1. n - m \in Nat
    BY <1>2
  <2>2. (n - m) * g \in Nat
    BY <2>1
  <2>3. n * g = m * g + (n - m) * g
    OBVIOUS
  <2> QED
    BY <1>1, <2>2, <2>3
<1> QED
  BY <1>1, <1>2

LEMMA DisjointSets ==
  ASSUME NEW S, IsFiniteSet(S), NEW T, IsFiniteSet(T), S \cap T = {}
  PROVE  Cardinality(S \cup T) = Cardinality(S) + Cardinality(T)
<1>1. Cardinality(S) \in Nat /\ Cardinality(T) \in Nat /\ Cardinality(S \cap T) = 0
  BY FS_CardinalityType, FS_EmptySet
<1>2. Cardinality(S \cup T) = Cardinality(S) + Cardinality(T) - Cardinality(S \cap T)
  BY FS_Union
<1> QED
  BY <1>1, <1>2

LEMMA HealthyIsFinite ==
  /\ IsFiniteSet(Healthy) /\ Cardinality(Healthy) \in Nat
  /\ IsFiniteSet(Stuck) /\ Cardinality(Stuck) \in Nat
  /\ \A s : Behind(s) \subseteq Healthy
<1>1. IsFiniteSet(Certs \ Stuck) /\ IsFiniteSet(Stuck)
  BY CertsAssumption, FS_Subset
<1> QED
  BY <1>1, FS_CardinalityType DEF Healthy, Behind, Issued

(* Fewer scans with fewer rows left are progress still. *)
LEMMA ProgressKeeps ==
  ASSUME ScansKeepUp, NEW m \in Int, NEW n \in Int, m <= n,
         NEW S \in SUBSET Healthy, NEW T \in SUBSET S, Progress(n, S)
  PROVE  Progress(m, T)
<1>1. Gain \in Nat
  BY HealthyIsFinite, TimeAssumption DEF ScansKeepUp, Gain
<1>2. m * Gain \in Int /\ n * Gain \in Int /\ m * Gain <= n * Gain
  BY <1>1, Products
<1>3. /\ Cardinality(S) \in Nat /\ Cardinality(T) \in Nat
      /\ Cardinality(T) <= Cardinality(S)
  BY HealthyIsFinite, SmallerSet, FS_Subset
<1> HIDE DEF Gain
<1> QED
  BY <1>2, <1>3, HealthyIsFinite DEF Progress

(* Without a scan there is nothing to show. *)
LEMMA ProgressBegins ==
  ASSUME ScansKeepUp, NEW m \in Int, m <= 0, NEW S \in SUBSET Healthy
  PROVE  Progress(m, S)
<1>1. Gain \in Nat
  BY HealthyIsFinite, TimeAssumption DEF ScansKeepUp, Gain
<1>2. 0 * Gain = 0 /\ Cardinality(S) \in Nat /\ Cardinality(S) <= Cardinality(Healthy)
  BY <1>1, HealthyIsFinite, SmallerSet
<1>3. Progress(0, S)
  BY <1>2, HealthyIsFinite DEF Progress
<1> QED
  BY <1>3, ProgressKeeps

(* A step that adds no row to those booked and takes none from those that   *)
(* are pending, other than by renewing it.                                  *)
LEMMA SameWindow ==
  ASSUME ScanInv, BookingInv', ScansKeepUp, now' = now, evictions' = evictions, fired' = fired,
         \A s \in Nat : s <= now => Behind(s)' \subseteq Behind(s),
         \A s \in Nat : s <= now => Behind(s)' \ Pending' \subseteq Behind(s) \ Pending
  PROVE  ScansSince' /\ ScanSoFar'
<1>0. now \in Nat /\ evictions \in Nat
  BY DEF ScanInv, BookingInv, TypeOK
<1>1. ASSUME NEW s \in Nat, s <= now, Behind(s)' # {}
      PROVE  Progress(now - s - evictions, Behind(s)')
  <2> DEFINE S == Behind(s)
             T == Behind(s)'
             n == now - s - evictions
  <2>1. T \subseteq S /\ S # {} /\ S \subseteq Healthy /\ n \in Int /\ n <= n
    BY <1>0, <1>1, HealthyIsFinite
  <2>2. Progress(n, S)
    BY <1>1, <2>1 DEF ScanInv, ScansSince
  <2> HIDE DEF S, T, n
  <2>3. Progress(n, T)
    BY <2>1, <2>2, ProgressKeeps
  <2> QED
    BY <2>3 DEF T, n
<1>2. ASSUME fired, NEW s \in Nat, s <= now, ~(Behind(s)' \subseteq Pending')
      PROVE  Progress(now + 1 - s - evictions, Behind(s)' \ Pending')
  <2> DEFINE S == Behind(s) \ Pending
             T == Behind(s)' \ Pending'
             n == now + 1 - s - evictions
  <2>1. T \subseteq S /\ T # {} /\ S \subseteq Healthy /\ n \in Int /\ n <= n
    BY <1>0, <1>2, HealthyIsFinite
  <2>2. Progress(n, S)
    BY <1>2, <2>1 DEF ScanInv, ScanSoFar
  <2> HIDE DEF S, T, n
  <2>3. Progress(n, T)
    BY <2>1, <2>2, ProgressKeeps
  <2> QED
    BY <2>3 DEF T, n
<1> QED
  BY <1>1, <1>2 DEF ScansSince, ScanSoFar, Progress, Gain, Healthy

LEMMA StepsInWindow ==
  ASSUME ScanInv, BookingInv', ScansKeepUp,
         \/ \E c \in Certs : RequestIssues(c) \/ Store(c)
         \/ \E e \in todo : ScanRenews(e) \/ ScanSkips(e)
         \/ UNCHANGED vars
  PROVE  ScansSince' /\ ScanSoFar'
<1>0. now \in Nat /\ TypeOK
  BY DEF ScanInv, BookingInv, TypeOK
<1>1. ASSUME NEW c \in Certs, Store(c) PROVE ScansSince' /\ ScanSoFar'
  <2>1. /\ table'[c].slot > now /\ table'[c].slot \in Nat
        /\ \A d \in Certs \ {c} : table'[d] = table[d] /\ run'[d] = run[d]
        /\ UNCHANGED <<now, todo, fired, evictions>>
    <3>1. c \in Busy /\ run[c] \in RunType /\ run[c].slot \in (now + 1)..(now + Lead + 1)
      BY <1>0, <1>1 DEF Store, Busy, TypeOK, ScanInv, BookingInv, ChoicesLieAhead
    <3>2. table'[c].slot = run[c].slot
      BY <1>0, <1>1 DEF Store, TypeOK
    <3> QED
      BY <1>0, <1>1, <3>1, <3>2, TimeAssumption DEF Store, TypeOK
  <2>2. ASSUME NEW s \in Nat, s <= now, NEW d \in Behind(s)' PROVE d \in Behind(s) /\ d # c
    BY <1>0, <2>1, <2>2 DEF Behind, Issued
  <2>3. ASSUME NEW d \in Pending, d # c PROVE d \in Pending'
    BY <1>0, <2>1, <2>3 DEF Pending, Busy
  <2> QED
    BY <2>1, <2>2, <2>3, SameWindow
<1>2. ASSUME UNCHANGED <<now, table, fired, evictions>>,
             \A s \in Nat : \A d \in Behind(s) : d \in Pending => d \in Pending'
      PROVE  ScansSince' /\ ScanSoFar'
  <2>1. \A s \in Nat : Behind(s)' = Behind(s)
    BY <1>2 DEF Behind, Issued
  <2> QED
    BY <1>2, <2>1, SameWindow
<1>3. ASSUME NEW c \in Certs, RequestIssues(c) PROVE ScansSince' /\ ScanSoFar'
  <2>1. \A d \in Pending : d \in Pending'
    BY <1>0, <1>3 DEF RequestIssues, Choose, Pending, Busy, TypeOK
  <2> QED
    BY <1>2, <1>3, <2>1 DEF RequestIssues
<1>4. ASSUME NEW e \in todo, ScanRenews(e) PROVE ScansSince' /\ ScanSoFar'
  <2>1. e.cert \in Certs /\ todo' = todo \ {e}
    BY <1>0, <1>4 DEF ScanRenews, ScanTurn, TypeOK
  <2>2. PICK r \in RunType : run' = [run EXCEPT ![e.cert] = r]
    <3>1. PICK t0 \in Theoretical : \E w \in PickSlot(t0, e.cert) :
            run' = [run EXCEPT ![e.cert] = [slot |-> w, by |-> "scan", raced |-> Busy # {}]]
      BY <1>4 DEF ScanRenews, Choose
    <3>2. PICK w \in PickSlot(t0, e.cert) :
            run' = [run EXCEPT ![e.cert] = [slot |-> w, by |-> "scan", raced |-> Busy # {}]]
      BY <3>1
    <3>3. w \in Nat
      BY <1>0, <2>1, <3>2, PickedSlot, TimeAssumption
    <3>4. [slot |-> w, by |-> "scan", raced |-> Busy # {}] \in RunType
      BY <3>3 DEF RunType
    <3> QED
      BY <3>2, <3>4
  <2>3. e.cert \in Busy' /\ \A d \in Busy : d \in Busy'
    BY <1>0, <2>1, <2>2, CertsAssumption DEF Busy, TypeOK, RunType
  <2>4. \A d \in Pending : d \in Pending'
    BY <2>1, <2>3 DEF Pending
  <2> QED
    BY <1>2, <1>4, <2>4 DEF ScanRenews
<1>5. ASSUME NEW e \in todo, ScanSkips(e) PROVE ScansSince' /\ ScanSoFar'
  <2>1. todo' = todo \ {e} /\ (e.cert \in Stuck \/ e.cert \in Busy) /\ run' = run
    BY <1>5 DEF ScanSkips, ScanTurn
  <2>2. ASSUME NEW s \in Nat, NEW d \in Behind(s), d \in Pending PROVE d \in Pending'
    <3>1. d \notin Stuck /\ Busy' = Busy
      BY <2>1 DEF Behind, Busy
    <3>2. CASE d \in Busy
      BY <3>1, <3>2 DEF Pending
    <3>3. ASSUME NEW f \in todo, d = f.cert, d \notin Busy PROVE d \in Pending'
      BY <2>1, <3>1, <3>3 DEF Pending
    <3> QED
      BY <2>2, <3>2, <3>3 DEF Pending
  <2> QED
    BY <1>2, <1>5, <2>2 DEF ScanSkips
<1>6. ASSUME UNCHANGED vars PROVE ScansSince' /\ ScanSoFar'
  BY <1>2, <1>6 DEF vars, Pending, Busy
<1> QED
  BY <1>1, <1>3, <1>4, <1>5, <1>6

(* A scan takes everything, or Limit rows booked no later than any it       *)
(* leaves: with fewer than Limit rows that fail, Gain of them are healthy.  *)
LEMMA SelectionGains ==
  ASSUME ScanInv, BookingInv', ScansKeepUp, ScanSelect
  PROVE  ScansSince' /\ ScanSoFar'
<1>0. now \in Nat /\ evictions \in Nat /\ TypeOK /\ IsFiniteSet(Certs)
  BY CertsAssumption DEF ScanInv, BookingInv, TypeOK
<1>1. PICK S \in SUBSET Due :
        /\ Cardinality(S) <= Limit
        /\ S # Due => Cardinality(S) = Limit
        /\ \A c \in S, d \in Due \ S : table[c].slot <= table[d].slot
        /\ todo' = {[cert |-> c, slot |-> table[c].slot] : c \in S}
  BY DEF ScanSelect
<1>2. S \subseteq Pending' /\ S \subseteq Issued
  <2>1. ASSUME NEW c \in S PROVE c \in Pending'
    <3>1. [cert |-> c, slot |-> table[c].slot] \in todo'
      BY <1>1
    <3> QED
      BY <3>1 DEF Pending
  <2> QED
    BY <2>1 DEF Due
<1>3. \A s \in Nat : Behind(s)' = Behind(s)
  BY DEF ScanSelect, Behind, Issued
<1>4. ScansSince'
  BY <1>3 DEF ScanSelect, ScanInv, ScansSince, Progress, Gain, Healthy
<1>5. ASSUME NEW s \in Nat, s <= now, ~(Behind(s) \subseteq Pending')
      PROVE  Progress(now + 1 - s - evictions, Behind(s) \ Pending')
  <2> DEFINE B == Behind(s)
             R == Behind(s) \ Pending'
             H == S \ Stuck
             n == now - s - evictions
  <2>1. PICK c \in B : c \notin Pending'
    BY <1>5
  <2>2. c \in Due \ S /\ table[c].slot <= s
    BY <1>0, <1>2, <1>5, <2>1 DEF Behind, Due, Issued, TypeOK, RowType
  <2>3. H \subseteq B
    <3> SUFFICES ASSUME NEW d \in S, d \notin Stuck PROVE d \in Behind(s)
      OBVIOUS
    <3>1. table[d].slot <= table[c].slot /\ d \in Issued
      BY <1>1, <1>2, <2>2
    <3>2. table[d].slot \in Nat /\ table[c].slot \in Nat
      BY <1>0, <2>2, <3>1 DEF Due, Issued, TypeOK, RowType
    <3> QED
      BY <2>2, <3>1, <3>2 DEF Behind
  <2>4. Cardinality(S) = Limit /\ IsFiniteSet(S)
    BY <1>0, <1>1, <2>2, FS_Subset DEF Due, Issued
  <2>5. IsFiniteSet(H) /\ Cardinality(H) \in Nat /\ Cardinality(H) >= Gain
    <3> DEFINE X == S \cap Stuck
    <3>1. /\ IsFiniteSet(H) /\ IsFiniteSet(X) /\ S = H \cup X /\ H \cap X = {}
          /\ Cardinality(X) <= Cardinality(Stuck) /\ Cardinality(X) \in Nat
      BY <2>4, FS_Subset, HealthyIsFinite, SmallerSet
    <3>2. Cardinality(H \cup X) = Cardinality(H) + Cardinality(X) /\ Cardinality(H) \in Nat
      <4> HIDE DEF H, X
      <4> QED
        BY <3>1, DisjointSets, FS_CardinalityType
    <3>3. Limit \in Nat /\ Cardinality(Stuck) \in Nat
      BY TimeAssumption, HealthyIsFinite
    <3> HIDE DEF H, X
    <3> QED
      BY <2>4, <3>1, <3>2, <3>3 DEF Gain
  <2>6. Progress(n, B)
    BY <1>5, <2>1 DEF ScanInv, ScansSince
  <2>7. /\ IsFiniteSet(B) /\ B \subseteq Healthy /\ H \cap R = {} /\ H \cup R \subseteq B
    BY <1>2, <2>3, HealthyIsFinite, FS_Subset
  <2>8. Cardinality(H) + Cardinality(R) <= Cardinality(B) /\ Cardinality(R) \in Nat
        /\ Cardinality(B) \in Nat
    <3> HIDE DEF H, R, B
    <3>1. IsFiniteSet(R) /\ Cardinality(R) \in Nat
      BY <2>7, FS_Subset, FS_CardinalityType
    <3>2. Cardinality(H \cup R) = Cardinality(H) + Cardinality(R)
      BY <2>5, <2>7, <3>1, DisjointSets
    <3> QED
      BY <2>7, <3>1, <3>2, SmallerSet
  <2>9. Gain \in Nat /\ n \in Int
    BY <1>0, HealthyIsFinite, TimeAssumption DEF ScansKeepUp, Gain
  <2> HIDE DEF B, R, H, n
  <2>10. (n + 1) * Gain = n * Gain + Gain /\ n * Gain \in Int
    BY <2>9, Products
  <2>11. Progress(n + 1, R)
    BY <2>5, <2>6, <2>8, <2>9, <2>10, HealthyIsFinite DEF Progress
  <2>12. n + 1 = now + 1 - s - evictions
    BY <1>0 DEF n
  <2> QED
    BY <2>11, <2>12 DEF R
<1>6. now' = now /\ evictions' = evictions
  BY DEF ScanSelect
<1>7. ScanSoFar'
  BY <1>3, <1>5, <1>6 DEF ScanSoFar, Progress, Gain, Healthy
<1> QED
  BY <1>4, <1>7

(* A scan that dies counts as none; the rows that are left are the same.    *)
LEMMA EvictionCounts ==
  ASSUME ScanInv, BookingInv', ScansKeepUp, Evict
  PROVE  ScansSince' /\ ScanSoFar'
<1>0. now \in Nat /\ evictions \in Nat /\ now' = now /\ evictions' = evictions + 1 /\ table' = table
  BY DEF ScanInv, BookingInv, TypeOK, Evict
<1>1. \A s \in Nat : Behind(s)' = Behind(s)
  BY <1>0 DEF Behind, Issued
<1>2. ASSUME NEW s \in Nat, s <= now, NEW T \in SUBSET Behind(s), T # {}, NEW n \in Int,
             n <= now - s - evictions
      PROVE  Progress(n, T)
  <2> DEFINE S == Behind(s)
             m == now - s - evictions
  <2>1. S \subseteq Healthy /\ m \in Int /\ Progress(m, S) /\ T \in SUBSET S
    BY <1>0, <1>2, HealthyIsFinite DEF ScanInv, ScansSince
  <2>2. n <= m
    BY <1>2
  <2> HIDE DEF S, m
  <2> QED
    BY <2>1, <2>2, ProgressKeeps
<1>3. ASSUME NEW s \in Nat, s <= now, Behind(s) # {}
      PROVE  Progress(now - s - (evictions + 1), Behind(s))
  BY <1>0, <1>2, <1>3
<1>4. ASSUME NEW s \in Nat, s <= now, ~(Behind(s) \subseteq Pending')
      PROVE  Progress(now + 1 - s - (evictions + 1), Behind(s) \ Pending')
  BY <1>0, <1>2, <1>4
<1> QED
  BY <1>0, <1>1, <1>3, <1>4 DEF ScansSince, ScanSoFar, Progress, Gain, Healthy

(* When the window is over nothing is pending any more.                     *)
LEMMA TickCounts ==
  ASSUME ScanInv, BookingInv', ScansKeepUp, Tick
  PROVE  ScansSince' /\ ScanSoFar'
<1>0. /\ now \in Nat /\ evictions \in Nat /\ fired /\ Pending = {}
      /\ now' = now + 1 /\ evictions' = evictions /\ table' = table /\ ~fired'
  BY DEF ScanInv, BookingInv, TypeOK, Tick, Pending
<1>1. \A s \in Nat : Behind(s)' = Behind(s)
  BY <1>0 DEF Behind, Issued
<1>2. ASSUME NEW s \in Nat, s <= now + 1, Behind(s) # {}
      PROVE  Progress(now + 1 - s - evictions, Behind(s))
  <2>1. CASE s <= now
    BY <1>0, <1>2, <2>1 DEF ScanInv, ScanSoFar
  <2>2. CASE s = now + 1
    BY <1>0, <2>2, ProgressBegins, HealthyIsFinite
  <2> QED
    BY <1>0, <1>2, <2>1, <2>2
<1>3. ScansSince'
  <2> SUFFICES ASSUME NEW s \in Nat, s <= now', Behind(s)' # {}
               PROVE  Progress(now' - s - evictions', Behind(s)')
    BY DEF ScansSince, Progress, Gain, Healthy
  <2> QED
    BY <1>0, <1>1, <1>2
<1> QED
  BY <1>0, <1>3 DEF ScanSoFar

LEMMA ScanStep == ScanInv /\ BookingInv' /\ [Next]_vars => ScanInv'
<1> SUFFICES ASSUME ScanInv, BookingInv', [Next]_vars PROVE ScanInv'
  OBVIOUS
<1>1. evictions' <= MaxEvictions /\ (~fired' => todo' = {})
  <2>1. evictions \in Nat /\ evictions <= MaxEvictions /\ (~fired => todo = {})
    BY DEF ScanInv, BookingInv, TypeOK
  <2> QED
    BY <2>1, TimeAssumption
       DEF Next, vars, RequestIssues, Store, ScanSelect, ScanRenews, ScanSkips, ScanTurn, Evict, Tick
<1>2. ASSUME ScansKeepUp PROVE ScansSince' /\ ScanSoFar'
  BY <1>2, StepsInWindow, SelectionGains, EvictionCounts, TickCounts DEF Next
<1> QED
  BY <1>1, <1>2 DEF ScanInv, ScansKeepUp

(* If fewer rows fail than a scan renews, and the windows between the last  *)
(* booked one and expiry are enough for the healthy rows (cron.ts:37), the  *)
(* trigger renews every one of them in time, for any numbers of rows,       *)
(* windows and scans that die.                                              *)
THEOREM HealthyAreRenewed == Spec => []HealthyNeverExpire
<1>1. Init => evictions <= MaxEvictions /\ (~fired => todo = {})
              /\ (ScansKeepUp => ScansSince /\ ScanSoFar)
  <2> SUFFICES ASSUME Init
               PROVE  evictions <= MaxEvictions /\ todo = {} /\ ScansSince /\ ScanSoFar
    OBVIOUS
  <2>1. \A s : Behind(s) = {}
    BY DEF Init, Behind, Issued
  <2> QED
    BY <2>1, TimeAssumption DEF Init, ScansSince, ScanSoFar
<1>2. BookingInv /\ evictions <= MaxEvictions /\ (~fired => todo = {})
      /\ (ScansKeepUp => ScansSince /\ ScanSoFar) <=> ScanInv
  BY DEF ScanInv
<1>3. ScanInv => HealthyNeverExpire
  <2> SUFFICES ASSUME ScanInv, ScansKeepUp, NEW c \in Issued \ Stuck,
                      now >= table[c].issued + Lifetime
               PROVE  FALSE
    <3>1. ScanInv => \A d \in Issued : now \in Nat /\ table[d].issued \in Nat
      BY DEF ScanInv, BookingInv, TypeOK, Issued, RowType
    <3> QED
      BY <3>1, TimeAssumption DEF HealthyNeverExpire
  <2> DEFINE s == table[c].slot
             i == table[c].issued
             n == now - s - evictions
             k == Lifetime - Lead - 1 - MaxEvictions
             B == Behind(s)
  <2>1. /\ now \in Nat /\ evictions \in Nat /\ evictions <= MaxEvictions
        /\ s \in Nat /\ i \in Nat /\ s <= i + Lead + 1 /\ s >= i + 1
    BY DEF ScanInv, BookingInv, TypeOK, Issued, RowType, SlotsLieAhead
  <2>2. n \in Int /\ k \in Int /\ k <= n /\ s <= now
    BY <2>1, TimeAssumption
  <2>3. c \in B /\ B \subseteq Healthy /\ IsFiniteSet(B) /\ Cardinality(B) \in Nat
    BY <2>1, HealthyIsFinite, FS_Subset, FS_CardinalityType DEF Behind
  <2>4. Progress(n, B)
    BY <2>1, <2>2, <2>3 DEF ScanInv, ScansSince
  <2>5. Gain \in Nat /\ Cardinality(Healthy) <= k * Gain
    BY HealthyIsFinite, TimeAssumption DEF ScansKeepUp, Gain, Healthy
  <2> HIDE DEF n, k, B, s, i
  <2>6. k * Gain <= n * Gain /\ k * Gain \in Int /\ n * Gain \in Int
    BY <2>2, <2>5, Products
  <2>7. Cardinality(B) # 0
    BY <2>3, FS_EmptySet
  <2> HIDE DEF Gain
  <2> QED
    BY <2>3, <2>4, <2>5, <2>6, <2>7, HealthyIsFinite DEF Progress
<1> QED
  BY <1>1, <1>2, <1>3, BookingInvariant, ScanStep, PTL DEF Spec
===============================================================================
