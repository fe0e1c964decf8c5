-------------------------- MODULE InventoryProofs --------------------------
(* Theorems about Inventory, for every value of its constants. *)
EXTENDS Inventory, FiniteSetTheorems, TLAPS

----------------------------------------------------------------------------
(* What the sums of UnitSums satisfy *)

\* A block of q units, and none if q is negative.
LEMMA Block ==
  ASSUME NEW x, NEW q \in Int
  PROVE  /\ IsFiniteSet({x} \X (1..q))
         /\ Cardinality({x} \X (1..q)) = IF q > 0 THEN q ELSE 0
<1>1. IsFiniteSet({x}) /\ Cardinality({x}) = 1
  BY FS_Singleton, Zenon
<1>2. IsFiniteSet(1..q)
  BY 1 \in Int, q \in Int, FS_Interval
<1>3. Cardinality(1..q) = IF 1 > q THEN 0 ELSE q - 1 + 1
  BY 1 \in Int, q \in Int, FS_Interval
<1>4. Cardinality(1..q) = IF q > 0 THEN q ELSE 0
  BY <1>3
<1>5. IsFiniteSet({x} \X (1..q))
  BY <1>1, <1>2, FS_Product
<1>6. Cardinality({x} \X (1..q)) = 1 * Cardinality(1..q)
  BY <1>1, <1>2, FS_Product
<1> QED
  BY <1>4, <1>5, <1>6

\* The units of a finite set are finite ...
LEMMA UnitsFinite ==
  ASSUME NEW S, IsFiniteSet(S), NEW f, \A x \in S : f[x] \in Int
  PROVE  IsFiniteSet(Units(f, S)) /\ Cardinality(Units(f, S)) \in Nat
<1> DEFINE b == [x \in S |-> {x} \X (1..f[x])]
           T == {{x} \X (1..f[x]) : x \in S}
<1>1. b \in Surjection(S, T)
  BY DEF Surjection
<1>2. IsFiniteSet(T)
  BY <1>1, FS_Surjection
<1>3. \A x \in S : IsFiniteSet({x} \X (1..f[x]))
  BY Block
<1>4. IsFiniteSet(UNION T)
  BY <1>2, <1>3, FS_UNION
<1> QED
  BY <1>4, FS_CardinalityType DEF Units

\* ... and those of two disjoint sets add up.
LEMMA UnitsSplit ==
  ASSUME NEW S, IsFiniteSet(S), NEW T, IsFiniteSet(T), S \cap T = {},
         NEW f, \A x \in S \cup T : f[x] \in Int
  PROVE  Cardinality(Units(f, S \cup T)) = Cardinality(Units(f, S)) + Cardinality(Units(f, T))
<1>1. Units(f, S \cup T) = Units(f, S) \cup Units(f, T)
  BY DEF Units
<1>2. Units(f, S) \cap Units(f, T) = {}
  BY DEF Units
<1>3. /\ IsFiniteSet(Units(f, S)) /\ IsFiniteSet(Units(f, T))
      /\ Cardinality(Units(f, S)) \in Nat /\ Cardinality(Units(f, T)) \in Nat
  BY UnitsFinite
<1>4. Cardinality(Units(f, S) \cup Units(f, T)) =
        Cardinality(Units(f, S)) + Cardinality(Units(f, T))
          - Cardinality(Units(f, S) \cap Units(f, T))
  BY <1>3, FS_Union
<1>5. Cardinality(Units(f, S) \cap Units(f, T)) = 0
  BY <1>2, FS_EmptySet
<1>6. Cardinality(Units(f, S \cup T)) = Cardinality(Units(f, S)) + Cardinality(Units(f, T)) - 0
  BY <1>1, <1>4, <1>5, Zenon
<1> QED
  BY <1>3, <1>6

\* Debts are the units of the negated values.
LEMMA DebtsAre ==
  ASSUME NEW S, NEW f, NEW X \in SUBSET S
  PROVE  Debts(f, X) = Units([y \in S |-> -f[y]], X)
<1>1. \A x \in X : {x} \X (1..-f[x]) = {x} \X (1..[y \in S |-> -f[y]][x])
  OBVIOUS
<1> QED
  BY <1>1 DEF Debts, Units

LEMMA DebtsFinite ==
  ASSUME NEW S, IsFiniteSet(S), NEW f, \A x \in S : f[x] \in Int
  PROVE  Cardinality(Debts(f, S)) \in Nat
<1>1. \A x \in S : [y \in S |-> -f[y]][x] \in Int
  OBVIOUS
<1>2. Cardinality(Units([y \in S |-> -f[y]], S)) \in Nat
  BY <1>1, UnitsFinite
<1> QED
  BY <1>2, DebtsAre

LEMMA DebtsSplit ==
  ASSUME NEW S, IsFiniteSet(S), NEW T, IsFiniteSet(T), S \cap T = {},
         NEW f, \A x \in S \cup T : f[x] \in Int
  PROVE  Cardinality(Debts(f, S \cup T)) = Cardinality(Debts(f, S)) + Cardinality(Debts(f, T))
<1>1. \A x \in S \cup T : [y \in S \cup T |-> -f[y]][x] \in Int
  OBVIOUS
<1> DEFINE d == [y \in S \cup T |-> -f[y]]
<1>2. S \cup T \in SUBSET (S \cup T) /\ S \in SUBSET (S \cup T) /\ T \in SUBSET (S \cup T)
  OBVIOUS
<1>3. /\ Debts(f, S \cup T) = Units(d, S \cup T)
      /\ Debts(f, S) = Units(d, S)
      /\ Debts(f, T) = Units(d, T)
  BY <1>2, DebtsAre
<1> HIDE DEF d
<1>4. \A x \in S \cup T : d[x] \in Int
  BY <1>1 DEF d
<1>5. Cardinality(Units(d, S \cup T)) = Cardinality(Units(d, S)) + Cardinality(Units(d, T))
  BY <1>4, UnitsSplit
<1> QED
  BY <1>3, <1>5, Zenon

\* A sum over a finite set is an integer ...
LEMMA SumIsInt ==
  ASSUME NEW S, IsFiniteSet(S), NEW f, \A x \in S : f[x] \in Int
  PROVE  SumOver(f, S) \in Int
<1>1. Cardinality(Units(f, S)) \in Nat /\ Cardinality(Debts(f, S)) \in Nat
  BY UnitsFinite, DebtsFinite
<1> QED
  BY <1>1 DEF SumOver

\* ... and a natural number if no value is negative.
LEMMA SumIsNat ==
  ASSUME NEW S, IsFiniteSet(S), NEW f, \A x \in S : f[x] \in Int /\ f[x] >= 0
  PROVE  SumOver(f, S) \in Nat
<1>1. Cardinality(Units(f, S)) \in Nat
  BY UnitsFinite
<1>2. \A x \in S : 1..-f[x] = {}
  OBVIOUS
<1>3. Debts(f, S) = {}
  BY <1>2 DEF Debts
<1>4. Cardinality(Debts(f, S)) = 0
  BY <1>3, FS_EmptySet
<1> QED
  BY <1>1, <1>4 DEF SumOver

\* A sum over two disjoint sets splits.
LEMMA SumSplits ==
  ASSUME NEW S, IsFiniteSet(S), NEW T, IsFiniteSet(T), S \cap T = {},
         NEW f, \A x \in S \cup T : f[x] \in Int
  PROVE  SumOver(f, S \cup T) = SumOver(f, S) + SumOver(f, T)
<1>1. /\ Cardinality(Units(f, S)) \in Nat /\ Cardinality(Units(f, T)) \in Nat
      /\ Cardinality(Debts(f, S)) \in Nat /\ Cardinality(Debts(f, T)) \in Nat
  BY UnitsFinite, DebtsFinite
<1>2. Cardinality(Units(f, S \cup T)) = Cardinality(Units(f, S)) + Cardinality(Units(f, T))
  BY UnitsSplit
<1>3. Cardinality(Debts(f, S \cup T)) = Cardinality(Debts(f, S)) + Cardinality(Debts(f, T))
  BY DebtsSplit
<1> QED
  BY <1>1, <1>2, <1>3 DEF SumOver

\* The sum over no members.
LEMMA SumOfNone ==
  ASSUME NEW f
  PROVE  SumOver(f, {}) = 0
<1>1. Units(f, {}) = {} /\ Debts(f, {}) = {}
  BY DEF Units, Debts
<1> QED
  BY <1>1, FS_EmptySet DEF SumOver

\* A sum depends on the values over its set only.
LEMMA SumOfEqual ==
  ASSUME NEW S, NEW f, NEW g, \A x \in S : f[x] = g[x]
  PROVE  SumOver(f, S) = SumOver(g, S)
<1>1. Units(f, S) = Units(g, S) /\ Debts(f, S) = Debts(g, S)
  BY DEF Units, Debts
<1> QED
  BY <1>1 DEF SumOver

\* A sum over a part is at most the whole.
LEMMA SumOfPart ==
  ASSUME NEW S, IsFiniteSet(S), NEW T, T \subseteq S,
         NEW f, \A x \in S : f[x] \in Int /\ f[x] >= 0
  PROVE  SumOver(f, T) <= SumOver(f, S)
<1>1. IsFiniteSet(T) /\ IsFiniteSet(S \ T)
  BY FS_Subset, FS_Difference
<1>2. SumOver(f, T \cup (S \ T)) = SumOver(f, T) + SumOver(f, S \ T)
  BY <1>1, SumSplits
<1>3. SumOver(f, T) \in Nat /\ SumOver(f, S \ T) \in Nat
  BY <1>1, SumIsNat
<1>4. T \cup (S \ T) = S
  OBVIOUS
<1>5. SumOver(f, S) = SumOver(f, T) + SumOver(f, S \ T)
  BY <1>2, <1>4, Zenon
<1> QED
  BY <1>3, <1>5

----------------------------------------------------------------------------
(* Type correctness *)

\* An outcome is one a settlement may write.
LEMMA OutcomeType ==
  ASSUME TypeOK, LedgerOK, NEW s \in Sessions, todo[s] # {}
  PROVE  op[s] \in Settled /\ todo[s] \subseteq ResIds
BY DEF TypeOK, LedgerOK

\* A sum of quantities is an integer.
LEMMA QuantityType ==
  ASSUME TypeOK, NEW R \in SUBSET ResIds
  PROVE  Quantity(R) \in Int /\ IsFiniteSet(R)
<1>1. IsFiniteSet(R)
  BY InventoryAssumption, FS_Subset DEF InventoryAssumption
<1>2. \A r \in R : qty[r] \in Int
  BY DEF qty, TypeOK
<1> QED
  BY <1>1, <1>2, SumIsInt DEF Quantity

\* What a settlement writes off is a natural number of units.
LEMMA WrittenOffType ==
  ASSUME TypeOK, NEW R \in SUBSET ResIds, NEW turn, NEW outcome, NEW i \in Items
  PROVE  Cardinality(WrittenOff(outcome, i, R, turn)) \in Nat
<1> DEFINE M == {m \in 1..Cardinality(R) : Of(i, Upto(R, turn, m)) # {}}
           block == [n \in M |-> reserved[i] + 1..Drop(outcome, i, Upto(R, turn, n))]
           T == {reserved[i] + 1..Drop(outcome, i, Upto(R, turn, n)) : n \in M}
<1>1. IsFiniteSet(M)
  <2>1. Cardinality(R) \in Nat
    BY QuantityType, FS_CardinalityType
  <2>2. IsFiniteSet(1..Cardinality(R))
    BY <2>1, 1 \in Int, FS_Interval
  <2> QED
    BY <2>2, FS_Subset
<1>2. IsFiniteSet(T)
  <2>1. block \in Surjection(M, T)
    BY DEF Surjection
  <2> QED
    BY <1>1, <2>1, FS_Surjection
<1>3. \A n \in M : IsFiniteSet(reserved[i] + 1..Drop(outcome, i, Upto(R, turn, n)))
  <2> SUFFICES ASSUME NEW n \in M
               PROVE  IsFiniteSet(reserved[i] + 1..Drop(outcome, i, Upto(R, turn, n)))
    OBVIOUS
  <2>1. Of(i, Upto(R, turn, n)) \in SUBSET ResIds
    BY DEF Of, Upto
  <2>2. Drop(outcome, i, Upto(R, turn, n)) \in Int
    BY <2>1, QuantityType DEF Drop
  <2>3. reserved[i] + 1 \in Int
    BY DEF TypeOK
  <2> QED
    BY <2>2, <2>3, FS_Interval
<1>4. IsFiniteSet(UNION T)
  BY <1>2, <1>3, FS_UNION
<1> QED
  BY <1>4, FS_CardinalityType DEF WrittenOff

\* Settling keeps the types.
LEMMA SettleType ==
  ASSUME TypeOK, NEW R \in SUBSET ResIds, NEW turn, NEW outcome \in Settled,
         Settle(R, turn, outcome)
  PROVE  /\ available' \in [Items -> Int]
         /\ reserved' \in [Items -> Int]
         /\ resv' \in [ResIds -> [status : Status, item : Items, quantity : Int,
                                  order : Orders \cup {NoOrder}]]
         /\ releases' \in [ResIds -> Nat]
         /\ confirms' \in [ResIds -> Nat]
         /\ emitted' = {}
         /\ UNCHANGED <<rows, overdue, received, removed>>
<1>1. \A i \in Items : Quantity(Of(i, R)) \in Int
  BY QuantityType DEF Of
<1>2. available' \in [Items -> Int]
  <2>1. \A i \in Items : Back(outcome, i, R) \in Int
    BY <1>1 DEF Back
  <2> QED
    BY <2>1 DEF Settle, TypeOK
<1>3. reserved' \in [Items -> Int]
  <2>1. \A i \in Items : reserved[i] - Drop(outcome, i, R)
                           + Cardinality(WrittenOff(outcome, i, R, turn)) \in Int
    BY <1>1, WrittenOffType DEF Drop, TypeOK
  <2> QED
    BY <2>1 DEF Settle
<1>4. resv' \in [ResIds -> [status : Status, item : Items, quantity : Int,
                            order : Orders \cup {NoOrder}]]
  <2> DEFINE Row == [status : Status, item : Items, quantity : Int,
                     order : Orders \cup {NoOrder}]
  <2>1. \A r \in ResIds : resv[r] \in Row /\ [resv[r] EXCEPT !.status = outcome] \in Row
    BY DEF TypeOK, Status
  <2>2. resv' = [r \in ResIds |-> IF r \in R THEN [resv[r] EXCEPT !.status = outcome]
                                  ELSE resv[r]]
    BY DEF Settle
  <2> QED
    BY <2>1, <2>2
<1>5. releases' \in [ResIds -> Nat] /\ confirms' \in [ResIds -> Nat]
  BY DEF Settle, TypeOK
<1> QED
  BY <1>2, <1>3, <1>4, <1>5 DEF Settle

\* The induction hypothesis of the type theorem.
IType == TypeOK /\ LedgerOK

LEMMA InitType == Init => IType
<1> SUFFICES ASSUME Init PROVE IType
  OBVIOUS
<1>1. (CHOOSE i \in Items : TRUE) \in Items
  BY InventoryAssumption DEF InventoryAssumption
<1>2. resv \in [ResIds -> [status : Status, item : Items, quantity : Int,
                          order : Orders \cup {NoOrder}]]
  BY <1>1 DEF Init, Unused, Status
<1>3. TypeOK
  BY <1>2, InventoryAssumption DEF Init, TypeOK, InventoryAssumption
<1>4. LedgerOK
  BY DEF Init, LedgerOK, Unused, Settled, Times
<1> QED
  BY <1>3, <1>4 DEF IType

\* Settling existing reservations makes their outcomes final and counts once.
LEMMA SettleCounts ==
  ASSUME TypeOK, NEW R \in SUBSET ResIds, NEW turn, NEW outcome \in Settled,
         Settle(R, turn, outcome), NEW r \in ResIds
  PROVE  /\ r \in R => Times(r)' = Times(r) + 1 /\ resv'[r].status = outcome
         /\ r \notin R => Times(r)' = Times(r) /\ resv'[r] = resv[r]
         /\ resv'[r].item = resv[r].item /\ resv'[r].quantity = resv[r].quantity
         /\ resv'[r].order = resv[r].order
         /\ (confirms'[r] > 0) <=>
              (confirms[r] > 0 \/ (r \in R /\ outcome = "COMPLETED"))
<1>1. CASE outcome = "COMPLETED"
  BY <1>1 DEF Settle, TypeOK, Times
<1>2. CASE outcome # "COMPLETED"
  BY <1>2 DEF Settle, TypeOK, Times
<1> QED
  BY <1>1, <1>2

LEMMA SettleLedger ==
  ASSUME IType, NEW R \in SUBSET ResIds, NEW turn, NEW outcome \in Settled,
         Settle(R, turn, outcome)
  PROVE  /\ \A r \in ResIds : resv'[r].status \in Settled <=> Times(r)' > 0
         /\ \A r \in ResIds : resv'[r].status = "FREE" =>
              resv[r].status = "FREE" /\ resv'[r].quantity = 0
<1> SUFFICES ASSUME NEW r \in ResIds
             PROVE  /\ resv'[r].status \in Settled <=> Times(r)' > 0
                    /\ resv'[r].status = "FREE" =>
                         resv[r].status = "FREE" /\ resv'[r].quantity = 0
  OBVIOUS
<1>1. Times(r) \in Nat
  BY DEF IType, TypeOK, Times
<1>2. /\ resv[r].status \in Settled <=> Times(r) > 0
      /\ resv[r].status = "FREE" => resv[r].quantity = 0
  BY DEF IType, LedgerOK
<1>3. CASE r \in R
  <2>1. Times(r)' = Times(r) + 1 /\ resv'[r].status = outcome
    BY <1>3, SettleCounts DEF IType
  <2> QED
    BY <1>1, <2>1 DEF Settled
<1>4. CASE r \notin R
  <2>1. Times(r)' = Times(r) /\ resv'[r] = resv[r]
    BY <1>4, SettleCounts DEF IType
  <2> QED
    BY <1>2, <2>1
<1> QED
  BY <1>3, <1>4

\* The lines of a request and of an order name rows and quantities.
LEMMA OneLineType ==
  ASSUME NEW i \in Items, NEW q \in Quantities, NEW r \in ResIds
  PROVE  /\ {r} \in SUBSET ResIds
         /\ [x \in {r} |-> <<i, q>>] \in [{r} -> Items \X Quantities]
OBVIOUS

LEMMA OrderLinesType ==
  ASSUME NEW o \in Orders, NEW R \in SUBSET ResIds, NEW line \in [R -> Lines[o]]
  PROVE  line \in [R -> Items \X Quantities]
BY InventoryAssumption DEF InventoryAssumption

\* Handling one reservation, or some in some order, takes as many turns.
LEMMA AloneType ==
  ASSUME NEW r
  PROVE  Alone(r) \in [{r} -> 1..Cardinality({r})]
<1>1. Cardinality({r}) = 1
  BY FS_Singleton
<1> QED
  BY <1>1 DEF Alone

\* What lines take from a row is an integer, nothing if none of them names the
\* row, and not negative if no line of the row is.
LEMMA TakenType ==
  ASSUME NEW R \in SUBSET ResIds, NEW line \in [R -> Items \X Quantities],
         NEW S \in SUBSET R, NEW i \in Items
  PROVE  /\ Taken(S, line, i) \in Int
         /\ IsFiniteSet(LinesOf(S, line, i))
         /\ i \notin RowsOf(S, line) => Taken(S, line, i) = 0
         /\ (\A r \in S : line[r][1] = i => line[r][2] >= 0) => Taken(S, line, i) >= 0
<1> DEFINE want == [r \in S |-> line[r][2]]
<1>1. LinesOf(S, line, i) \in SUBSET ResIds /\ LinesOf(S, line, i) \subseteq S
  BY DEF LinesOf
<1>2. IsFiniteSet(LinesOf(S, line, i))
  BY <1>1, InventoryAssumption, FS_Subset DEF InventoryAssumption
<1>3. \A r \in LinesOf(S, line, i) : want[r] \in Int
  BY <1>1, InventoryAssumption DEF InventoryAssumption
<1>4. SumOver(want, LinesOf(S, line, i)) \in Int
  BY <1>2, <1>3, SumIsInt
<1>5. ASSUME i \notin RowsOf(S, line)
      PROVE  SumOver(want, LinesOf(S, line, i)) = 0
  <2>1. LinesOf(S, line, i) = {}
    BY <1>5 DEF LinesOf, RowsOf
  <2>2. SumOver(want, {}) = 0
    BY SumOfNone
  <2> QED
    BY <2>1, <2>2, Zenon
<1>6. ASSUME \A r \in S : line[r][1] = i => line[r][2] >= 0
      PROVE  SumOver(want, LinesOf(S, line, i)) >= 0
  <2>1. \A r \in LinesOf(S, line, i) : want[r] \in Int /\ want[r] >= 0
    BY <1>3, <1>6 DEF LinesOf
  <2>2. SumOver(want, LinesOf(S, line, i)) \in Nat
    <3> HIDE DEF want
    <3> QED
      BY <1>2, <2>1, SumIsNat
  <2> QED
    BY <2>2
<1> QED
  BY <1>2, <1>4, <1>5, <1>6 DEF Taken

LEMMA NextType == IType /\ [Next]_vars => IType'
<1> SUFFICES ASSUME IType, [Next]_vars PROVE IType'
  OBVIOUS
<1> USE InventoryAssumption
<1>1. ASSUME NEW i \in Items, NEW q \in Quantities, AddStock(i, q)
      PROVE  IType'
  BY <1>1 DEF AddStock, IType, TypeOK, LedgerOK, Times, session, LowEvent,
     InventoryAssumption
<1>2. ASSUME NEW R \in SUBSET ResIds, NEW o \in Orders \cup {NoOrder},
             NEW line \in [R -> Items \X Quantities], NEW turn,
             ReserveLines(R, line, turn, o)
      PROVE  IType'
  <2>1. \A i \in Items : Taken(R, line, i) \in Int
    BY TakenType
  <2>2. \A r \in R : line[r][1] \in Items /\ line[r][2] \in Int
    BY DEF InventoryAssumption
  <2>3. available' \in [Items -> Int] /\ reserved' \in [Items -> Int]
    BY <1>2, <2>1 DEF ReserveLines, IType, TypeOK
  <2>4. resv' \in [ResIds -> [status : Status, item : Items, quantity : Int,
                              order : Orders \cup {NoOrder}]]
    BY <1>2, <2>2 DEF ReserveLines, IType, TypeOK, Status
  <2>5. emitted' \subseteq Items
    <3>1. \A n \in 1..Cardinality(R) : RowsOf(Upto(R, turn, n), line) \subseteq Items
      BY <2>2 DEF RowsOf, Upto
    <3>2. \A i \in Items : \A left : LowEvent(i, left) \subseteq Items
      BY DEF LowEvent
    <3> QED
      BY <1>2, <3>1, <3>2 DEF ReserveLines
  <2>6. TypeOK'
    BY <1>2, <2>3, <2>4, <2>5 DEF ReserveLines, IType, TypeOK, session, history
  <2>7. LedgerOK'
    BY <1>2 DEF ReserveLines, IType, TypeOK, LedgerOK, Times, session, history, Settled
  <2> QED
    BY <2>6, <2>7 DEF IType
<1>3. ASSUME NEW r \in ResIds, ReleaseReservation(r)
      PROVE  IType'
  <2>1. Settle({r}, Alone(r), "CANCELLED") /\ "CANCELLED" \in Settled
    BY <1>3 DEF ReleaseReservation, Settled
  <2>2. TypeOK'
    BY <1>3, <2>1, SettleType DEF ReleaseReservation, IType, TypeOK, session
  <2>3. LedgerOK'
    BY <1>3, <2>1, SettleLedger DEF ReleaseReservation, IType, TypeOK, LedgerOK, session
  <2> QED
    BY <2>2, <2>3 DEF IType
<1>4. ASSUME NEW r \in ResIds, Expire(r)
      PROVE  IType'
  BY <1>4 DEF Expire, IType, TypeOK, LedgerOK, Times, stock, session, history
<1>5. ASSUME NEW s \in Sessions, NEW outcome \in Settled, NEW R \in SUBSET ResIds,
             \A r \in R : Pending(r), Load(s, outcome, R)
      PROVE  IType'
  BY <1>5 DEF Load, IType, TypeOK, LedgerOK, Times, stock, history, Pending, Settled
<1>6. ASSUME NEW s \in Sessions, NEW r \in ResIds, SettleOne(s, r)
      PROVE  IType'
  <2>1. Settle({r}, Alone(r), op[s]) /\ op[s] \in Settled
    BY <1>6, OutcomeType DEF SettleOne, IType
  <2>2. TypeOK'
    BY <1>6, <2>1, SettleType DEF SettleOne, IType, TypeOK
  <2>3. LedgerOK'
    BY <1>6, <2>1, SettleLedger DEF SettleOne, IType, TypeOK, LedgerOK
  <2> QED
    BY <2>2, <2>3 DEF IType
<1>7. ASSUME NEW c \in Clerks, ClerkCommit(c)
      PROVE  IType'
  <2>0. PICK turn \in Orderings(todo[c]) : Settle(todo[c], turn, op[c])
    BY <1>7 DEF ClerkCommit
  <2>1. c \in Sessions /\ op[c] \in Settled /\ todo[c] \in SUBSET ResIds
    BY <1>7 DEF ClerkCommit, IType, TypeOK, Sessions
  <2>2. TypeOK'
    BY <1>7, <2>0, <2>1, SettleType DEF ClerkCommit, IType, TypeOK
  <2>3. LedgerOK'
    BY <1>7, <2>0, <2>1, SettleLedger DEF ClerkCommit, IType, TypeOK, LedgerOK
  <2> QED
    BY <2>2, <2>3 DEF IType
<1>8. ASSUME NEW s \in Sessions, Finish(s)
      PROVE  IType'
  BY <1>8 DEF Finish, IType, TypeOK, LedgerOK, Times, stock, history
<1>9. ASSUME NEW s \in Sessions, Abandon(s)
      PROVE  IType'
  BY <1>9 DEF Abandon, IType, TypeOK, LedgerOK, Times, stock, history, InventoryAssumption
<1>10. CASE UNCHANGED vars
  BY <1>10 DEF vars, stock, session, history, IType, TypeOK, LedgerOK, Times
<1>11. ASSUME SweepLoad
       PROVE  IType'
  BY <1>5, <1>11 DEF SweepLoad, Sessions, Settled
<1>12. ASSUME NEW o \in Orders, NEW outcome \in {"CANCELLED", "COMPLETED"},
              ConsumerLoad(o, outcome)
       PROVE  IType'
  <2>1. /\ Consumer \in Sessions /\ outcome \in Settled
        /\ PendingOfOrder(o) \in SUBSET ResIds /\ \A r \in PendingOfOrder(o) : Pending(r)
    BY <1>12 DEF PendingOfOrder, Sessions, Settled
  <2>2. Load(Consumer, outcome, PendingOfOrder(o))
    BY <1>12 DEF ConsumerLoad
  <2> QED
    BY <1>5, <2>1, <2>2
<1>13. ASSUME NEW c \in Clerks, NEW o \in Orders, ClerkLoad(c, o)
       PROVE  IType'
  BY <1>5, <1>13 DEF ClerkLoad, PendingOfOrder, Sessions, Settled
<1>14. ASSUME NEW i \in Items, NEW q \in Quantities, NEW o \in Orders \cup {NoOrder},
              NEW r \in ResIds, ReserveStock(i, q, o, r)
       PROVE  IType'
  BY <1>2, <1>14, OneLineType DEF ReserveStock
<1>15. ASSUME NEW o \in Orders, NEW R \in SUBSET ResIds, NEW line \in [R -> Lines[o]],
              NEW turn \in Orderings(R), AllocateOrder(o, R, line, turn)
       PROVE  IType'
  BY <1>2, <1>15, OrderLinesType DEF AllocateOrder
<1> QED
  BY <1>1, <1>3, <1>4, <1>6, <1>7, <1>8, <1>9, <1>10, <1>11, <1>12, <1>13,
     <1>14, <1>15 DEF Next

\* Every reachable state has the declared types, and outcomes agree with the
\* settlements counted.
THEOREM TypeCorrect == Spec => [](TypeOK /\ LedgerOK)
<1>1. Spec => []IType
  BY InitType, NextType, PTL DEF Spec
<1> QED
  BY <1>1, PTL DEF IType

----------------------------------------------------------------------------
(* The books *)

\* The steps the books see: a delivery, a reservation, a settlement of
\* reservations that exist, and everything else.
LEMMA StepKinds ==
  ASSUME IType, [Next]_vars
  PROVE  \/ \E i \in Items, q \in Quantities : AddStock(i, q)
         \/ \E R \in SUBSET ResIds, o \in Orders \cup {NoOrder} :
              \E line \in [R -> Items \X Quantities], turn \in [R -> 1..Cardinality(R)] :
                ReserveLines(R, line, turn, o)
         \/ \E R \in SUBSET ResIds, outcome \in Settled :
              /\ \A r \in R : resv[r].status # "FREE"
              /\ \E turn \in [R -> 1..Cardinality(R)] : Settle(R, turn, outcome)
         \/ UNCHANGED <<stock, resv, history>>
<1>1. ASSUME NEW r \in ResIds, ReleaseReservation(r)
      PROVE  \E R \in SUBSET ResIds, outcome \in Settled :
               /\ \A x \in R : resv[x].status # "FREE"
               /\ \E turn \in [R -> 1..Cardinality(R)] : Settle(R, turn, outcome)
  <2>1. /\ Settle({r}, Alone(r), "CANCELLED") /\ "CANCELLED" \in Settled
        /\ {r} \in SUBSET ResIds /\ \A x \in {r} : resv[x].status # "FREE"
    BY <1>1 DEF ReleaseReservation, Pending, Settled
  <2> QED
    BY <2>1, AloneType
<1>2. ASSUME NEW s \in Sessions, NEW r \in ResIds, SettleOne(s, r)
      PROVE  \E R \in SUBSET ResIds, outcome \in Settled :
               /\ \A x \in R : resv[x].status # "FREE"
               /\ \E turn \in [R -> 1..Cardinality(R)] : Settle(R, turn, outcome)
  <2>1. /\ Settle({r}, Alone(r), op[s]) /\ op[s] \in Settled
        /\ {r} \in SUBSET ResIds /\ \A x \in {r} : resv[x].status # "FREE"
    BY <1>2, OutcomeType DEF SettleOne, IType, LedgerOK
  <2> QED
    BY <2>1, AloneType
<1>3. ASSUME NEW c \in Clerks, ClerkCommit(c)
      PROVE  \E R \in SUBSET ResIds, outcome \in Settled :
               /\ \A x \in R : resv[x].status # "FREE"
               /\ \E turn \in [R -> 1..Cardinality(R)] : Settle(R, turn, outcome)
  <2>1. /\ \E turn \in [todo[c] -> 1..Cardinality(todo[c])] : Settle(todo[c], turn, op[c])
        /\ op[c] \in Settled
        /\ todo[c] \in SUBSET ResIds /\ \A x \in todo[c] : resv[x].status # "FREE"
    BY <1>3 DEF ClerkCommit, IType, LedgerOK, TypeOK, Sessions, Orderings
  <2> QED
    BY <2>1
<1>4. ASSUME \/ \E r \in ResIds : Expire(r)
             \/ SweepLoad
             \/ \E o \in Orders, outcome \in {"CANCELLED", "COMPLETED"} :
                  ConsumerLoad(o, outcome)
             \/ \E c \in Clerks, o \in Orders : ClerkLoad(c, o)
             \/ \E s \in Sessions : Finish(s)
             \/ \E s \in Sessions : Abandon(s)
             \/ UNCHANGED vars
      PROVE  UNCHANGED <<stock, resv, history>>
  BY <1>4 DEF Expire, SweepLoad, ConsumerLoad, ClerkLoad, Load, Finish, Abandon, vars
<1>5. ASSUME NEW i \in Items, NEW q \in Quantities, NEW o \in Orders \cup {NoOrder},
             NEW r \in ResIds, ReserveStock(i, q, o, r)
      PROVE  \E R \in SUBSET ResIds, p \in Orders \cup {NoOrder} :
               \E line \in [R -> Items \X Quantities], turn \in [R -> 1..Cardinality(R)] :
                 ReserveLines(R, line, turn, p)
  BY <1>5, OneLineType, AloneType DEF ReserveStock
<1>6. ASSUME NEW o \in Orders, NEW R \in SUBSET ResIds, NEW line \in [R -> Lines[o]],
             NEW turn \in Orderings(R), AllocateOrder(o, R, line, turn)
      PROVE  \E S \in SUBSET ResIds, p \in Orders \cup {NoOrder} :
               \E l \in [S -> Items \X Quantities], t \in [S -> 1..Cardinality(S)] :
                 ReserveLines(S, l, t, p)
  BY <1>6, OrderLinesType DEF AllocateOrder, Orderings
<1> QED
  BY <1>1, <1>2, <1>3, <1>4, <1>5, <1>6 DEF Next

IBooks == NegativeStockPrevention /\ HoldIsCovered /\ BooksBalance

LEMMA InitBooks == Init => IBooks
<1> SUFFICES ASSUME Init, NEW i \in Items
             PROVE  /\ available[i] = 0 /\ reserved[i] = 0
                    /\ received[i] = 0 /\ removed[i] = 0
                    /\ Quantity(PendingOf(i)) = 0 /\ Quantity(SoldOf(i)) = 0
  BY DEF IBooks, NegativeStockPrevention, HoldIsCovered, BooksBalance
<1>1. PendingOf(i) = {} /\ SoldOf(i) = {}
  BY DEF Init, PendingOf, SoldOf, Of, Pending, Unused
<1>2. Quantity(PendingOf(i)) = 0 /\ Quantity(SoldOf(i)) = 0
  BY <1>1, SumOfNone DEF Quantity
<1> QED
  BY <1>2 DEF Init

\* A delivery, or a correction.
LEMMA AddBooks ==
  ASSUME IType, IBooks, NEW i \in Items, NEW q \in Quantities, AddStock(i, q)
  PROVE  IBooks'
<1>1. q \in Int
  BY InventoryAssumption DEF InventoryAssumption
<1>2. \A j \in Items :
        /\ Quantity(PendingOf(j))' = Quantity(PendingOf(j))
        /\ Quantity(SoldOf(j))' = Quantity(SoldOf(j))
        /\ Positive(j)' = Positive(j)
  BY DEF AddStock, Quantity, qty, PendingOf, SoldOf, Of, Pending, Positive
<1>3. \A j \in Items : Quantity(PendingOf(j)) \in Int /\ Quantity(SoldOf(j)) \in Int
  BY QuantityType DEF IType, PendingOf, SoldOf, Of
<1>4. \A j \in Items :
        /\ reserved'[j] = reserved[j]
        /\ available'[j] + removed'[j] = available[j] + removed[j] + (received'[j] - received[j])
        /\ available'[j] + removed'[j] >= available[j] + removed[j]
        /\ available[j] \in Int /\ removed[j] \in Int /\ received[j] \in Int
        /\ available'[j] \in Int /\ removed'[j] \in Int /\ received'[j] \in Int
        /\ reserved[j] \in Int
  BY <1>1 DEF AddStock, IType, TypeOK
<1>5. NegativeStockPrevention' /\ HoldIsCovered'
  BY <1>2, <1>3, <1>4 DEF IBooks, NegativeStockPrevention, HoldIsCovered
<1>6. BooksBalance'
  <2>1. resv' = resv /\ \A r \in ResIds : Times(r)' = Times(r)
    BY DEF AddStock, Times
  <2> SUFFICES ASSUME NEW j \in Items, \A r \in ResIds : resv'[r].item = j => Times(r)' <= 1
               PROVE  /\ available'[j] + Quantity(PendingOf(j))' + Quantity(SoldOf(j))'
                           + removed'[j] = received'[j]
                      /\ Positive(j)' => reserved'[j] = Quantity(PendingOf(j))'
    BY DEF BooksBalance
  <2>2. /\ available[j] + Quantity(PendingOf(j)) + Quantity(SoldOf(j)) + removed[j]
             = received[j]
        /\ Positive(j) => reserved[j] = Quantity(PendingOf(j))
    <3>1. \A r \in ResIds : resv[r].item = j => Times(r) <= 1
      BY <2>1
    <3> QED
      BY <3>1 DEF IBooks, BooksBalance
  <2>3. available'[j] + Quantity(PendingOf(j)) + Quantity(SoldOf(j)) + removed'[j]
          = received'[j]
    <3>1. PICK p \in Int, d \in Int : p = Quantity(PendingOf(j)) /\ d = Quantity(SoldOf(j))
      BY <1>3
    <3>2. available'[j] + removed'[j] = available[j] + removed[j] + (received'[j] - received[j])
      BY <1>4
    <3>3. available[j] + p + d + removed[j] = received[j]
      BY <2>2, <3>1
    <3>4. /\ available \in [Items -> Int] /\ removed \in [Items -> Int]
          /\ received \in [Items -> Int] /\ available' \in [Items -> Int]
          /\ removed' \in [Items -> Int] /\ received' \in [Items -> Int]
      BY <1>1 DEF AddStock, IType, TypeOK
    <3>5. available'[j] + p + d + removed'[j] = received'[j]
      BY <3>2, <3>3, <3>4
    <3> QED
      BY <3>1, <3>5
  <2>4. Positive(j) => reserved'[j] = Quantity(PendingOf(j))
    BY <1>4, <2>2
  <2> QED
    BY <1>2, <2>3, <2>4
<1> QED
  BY <1>5, <1>6 DEF IBooks

\* The last line sees all of them.
LEMMA LastTurn ==
  ASSUME NEW R \in SUBSET ResIds, NEW turn \in [R -> 1..Cardinality(R)]
  PROVE  /\ Upto(R, turn, Cardinality(R)) = R
         /\ R # {} => Cardinality(R) \in 1..Cardinality(R)
<1>1. IsFiniteSet(R)
  BY InventoryAssumption, FS_Subset DEF InventoryAssumption
<1>2. Cardinality(R) \in Nat
  BY <1>1, FS_CardinalityType
<1>3. R # {} => Cardinality(R) # 0
  BY <1>1, FS_EmptySet
<1>4. \A r \in R : turn[r] <= Cardinality(R)
  BY <1>2
<1> QED
  BY <1>2, <1>3, <1>4 DEF Upto

\* A reservation takes from the available units what it adds to the pending
\* ones.
LEMMA ReserveBooks ==
  ASSUME IType, IBooks, NEW R \in SUBSET ResIds, NEW o \in Orders \cup {NoOrder},
         NEW line \in [R -> Items \X Quantities], NEW turn \in [R -> 1..Cardinality(R)],
         ReserveLines(R, line, turn, o)
  PROVE  IBooks'
<1>1. \A r \in R : Times(r) = 0 /\ confirms[r] = 0 /\ ~Pending(r)
  <2> SUFFICES ASSUME NEW r \in R
               PROVE  Times(r) = 0 /\ confirms[r] = 0 /\ ~Pending(r)
    OBVIOUS
  <2>1. resv[r].status = "FREE"
    BY DEF ReserveLines
  <2>2. ~(releases[r] + confirms[r] > 0)
    BY <2>1 DEF IType, LedgerOK, Settled, Times
  <2>3. releases[r] \in Nat /\ confirms[r] \in Nat
    BY DEF IType, TypeOK
  <2> QED
    BY <2>1, <2>2, <2>3 DEF Times, Pending
<1>2. \A r \in R : line[r][1] \in Items /\ line[r][2] \in Int
  BY InventoryAssumption DEF InventoryAssumption
<1>3. /\ \A r \in R : qty'[r] = line[r][2]
      /\ \A r \in ResIds \ R : qty'[r] = qty[r]
      /\ \A r \in ResIds : qty[r] \in Int /\ qty'[r] \in Int
  BY <1>2 DEF ReserveLines, IType, TypeOK, qty
<1>4. ASSUME NEW i \in Items
      PROVE  /\ Quantity(PendingOf(i))' = Quantity(PendingOf(i)) + Taken(R, line, i)
             /\ Quantity(SoldOf(i))' = Quantity(SoldOf(i))
  <2> DEFINE L == LinesOf(R, line, i)
             want == [r \in R |-> line[r][2]]
  <2>1. /\ PendingOf(i)' = PendingOf(i) \cup L
        /\ SoldOf(i)' = SoldOf(i)
        /\ PendingOf(i) \cap R = {} /\ SoldOf(i) \cap R = {}
    BY <1>1 DEF ReserveLines, IType, TypeOK, PendingOf, SoldOf, Of, Pending,
       LinesOf, history
  <2>2. L \subseteq R /\ PendingOf(i) \subseteq ResIds /\ SoldOf(i) \subseteq ResIds
    BY DEF LinesOf, PendingOf, SoldOf, Of
  <2>3. IsFiniteSet(PendingOf(i)) /\ IsFiniteSet(SoldOf(i)) /\ IsFiniteSet(L)
    BY <2>2, QuantityType, TakenType DEF IType
  <2>4. /\ SumOver(qty', PendingOf(i)) = Quantity(PendingOf(i))
        /\ SumOver(qty', SoldOf(i)) = Quantity(SoldOf(i))
    BY <1>3, <2>1, <2>2, <2>3, SumOfEqual DEF Quantity
  <2>5. SumOver(qty', L) = Taken(R, line, i)
    <3>1. \A r \in L : qty'[r] = want[r]
      BY <1>3, <2>2
    <3>2. SumOver(qty', L) = SumOver(want, L)
      BY <2>3, <3>1, SumOfEqual
    <3> QED
      BY <3>2 DEF Taken
  <2>6. SumOver(qty', PendingOf(i) \cup L)
          = SumOver(qty', PendingOf(i)) + SumOver(qty', L)
    <3>1. \A r \in PendingOf(i) \cup L : qty'[r] \in Int
      BY <1>3, <2>2
    <3>2. PendingOf(i) \cap L = {}
      BY <2>1, <2>2
    <3> QED
      BY <2>3, <3>1, <3>2, SumSplits
  <2>7. Quantity(PendingOf(i))' = SumOver(qty', PendingOf(i) \cup L)
    BY <2>1, Zenon DEF Quantity
  <2>8. Quantity(SoldOf(i))' = SumOver(qty', SoldOf(i))
    BY <2>1, Zenon DEF Quantity
  <2> QED
    BY <2>4, <2>5, <2>6, <2>7, <2>8
<1>5. \A i \in Items : /\ Quantity(PendingOf(i)) \in Int /\ Quantity(SoldOf(i)) \in Int
                        /\ Taken(R, line, i) \in Int
  BY QuantityType, TakenType DEF IType, PendingOf, SoldOf, Of
<1>6. \A i \in Items : Positive(i)' =>
        /\ Positive(i)
        /\ \A r \in R : line[r][1] = i => line[r][2] >= 0
  <2> SUFFICES ASSUME NEW i \in Items, Positive(i)'
               PROVE  /\ Positive(i)
                      /\ \A r \in R : line[r][1] = i => line[r][2] >= 0
    OBVIOUS
  <2>1. \A r \in ResIds : resv'[r].item = i => resv'[r].quantity >= 0
    BY DEF Positive
  <2>2. \A r \in R : resv'[r].item = line[r][1] /\ resv'[r].quantity = line[r][2]
    BY DEF ReserveLines
  <2>3. \A r \in ResIds \ R : resv'[r] = resv[r]
    BY DEF ReserveLines
  <2>4. \A r \in R : resv[r].quantity >= 0
    BY DEF ReserveLines, IType, LedgerOK
  <2> QED
    BY <2>1, <2>2, <2>3, <2>4 DEF Positive
<1>7. \A i \in Items : Positive(i)' =>
        Taken(R, line, i) >= 0 /\ available[i] - Taken(R, line, i) + removed[i] >= 0
  <2> SUFFICES ASSUME NEW i \in Items, Positive(i)'
               PROVE  /\ Taken(R, line, i) >= 0
                      /\ available[i] - Taken(R, line, i) + removed[i] >= 0
    OBVIOUS
  <2>1. Taken(R, line, i) >= 0
    BY <1>6, TakenType
  <2>2. available[i] \in Int /\ removed[i] \in Nat
    BY DEF IType, TypeOK
  <2>3. CASE i \in RowsOf(R, line)
    <3>1. R # {}
      BY <2>3 DEF RowsOf
    <3>2. available[i] >= Taken(R, line, i)
      BY <2>3, <3>1, LastTurn DEF ReserveLines, Enough
    <3> QED
      BY <1>5, <2>1, <2>2, <3>2
  <2>4. CASE i \notin RowsOf(R, line)
    <3>1. Taken(R, line, i) = 0
      BY <2>4, TakenType
    <3>2. available[i] + removed[i] >= 0
      BY <1>6 DEF IBooks, NegativeStockPrevention
    <3> QED
      BY <2>2, <3>1, <3>2
  <2> QED
    BY <2>1, <2>3, <2>4
<1>8. \A i \in Items :
        /\ available'[i] = available[i] - Taken(R, line, i)
        /\ reserved'[i] = reserved[i] + Taken(R, line, i)
        /\ removed'[i] = removed[i] /\ received'[i] = received[i]
        /\ available[i] \in Int /\ reserved[i] \in Int /\ removed[i] \in Int
        /\ received[i] \in Int
  BY DEF ReserveLines, history, IType, TypeOK
<1>9. NegativeStockPrevention' /\ HoldIsCovered'
  BY <1>4, <1>5, <1>6, <1>7, <1>8 DEF IBooks, NegativeStockPrevention, HoldIsCovered
<1>10. \A i \in Items : (\A r \in ResIds : resv'[r].item = i => Times(r)' <= 1)
         => (\A r \in ResIds : resv[r].item = i => Times(r) <= 1)
  BY <1>1 DEF ReserveLines, IType, TypeOK, Times, history
<1>11. BooksBalance'
  BY <1>4, <1>5, <1>6, <1>8, <1>10 DEF IBooks, BooksBalance
<1> QED
  BY <1>9, <1>11 DEF IBooks

\* Of a row without negative reservations a settlement writes off what the hold
\* lacks: max(0, ...) of the difference.
LEMMA WrittenOffOf ==
  ASSUME IType, NEW R \in SUBSET ResIds, NEW turn \in [R -> 1..Cardinality(R)],
         NEW outcome, NEW i \in Items, Positive(i), reserved[i] >= 0
  PROVE  Cardinality(WrittenOff(outcome, i, R, turn)) =
           IF Quantity(Of(i, R)) > reserved[i] THEN Quantity(Of(i, R)) - reserved[i] ELSE 0
<1> DEFINE S == Of(i, R)
           M == {m \in 1..Cardinality(R) : Of(i, Upto(R, turn, m)) # {}}
<1>1. reserved[i] \in Int /\ S \in SUBSET ResIds /\ Quantity(S) \in Int
  <2>1. S \in SUBSET ResIds
    BY DEF Of
  <2> QED
    BY <2>1, QuantityType DEF IType, TypeOK
<1>2. \A r \in S : qty[r] \in Int /\ qty[r] >= 0
  BY DEF Positive, Of, qty, IType, TypeOK
<1>3. \A n \in M : /\ Quantity(Of(i, Upto(R, turn, n))) \in Int
                   /\ Quantity(Of(i, Upto(R, turn, n))) <= Quantity(S)
  <2> SUFFICES ASSUME NEW n \in M
               PROVE  /\ Quantity(Of(i, Upto(R, turn, n))) \in Int
                      /\ Quantity(Of(i, Upto(R, turn, n))) <= Quantity(S)
    OBVIOUS
  <2>1. Of(i, Upto(R, turn, n)) \subseteq S /\ Of(i, Upto(R, turn, n)) \in SUBSET ResIds
    BY DEF Of, Upto
  <2>2. IsFiniteSet(S)
    BY <1>1, QuantityType DEF IType
  <2>3. SumOver(qty, Of(i, Upto(R, turn, n))) <= SumOver(qty, S)
    BY <1>2, <2>1, <2>2, SumOfPart
  <2> QED
    BY <2>1, <2>3, QuantityType DEF Quantity, IType
<1>4. CASE S = {}
  <2>1. M = {}
    BY <1>4 DEF Of, Upto
  <2>2. WrittenOff(outcome, i, R, turn) = {}
    BY <2>1 DEF WrittenOff
  <2>3. Quantity(S) = 0
    BY <1>4, SumOfNone DEF Quantity
  <2> QED
    BY <1>1, <2>2, <2>3, FS_EmptySet
<1>5. CASE S # {}
  <2>1. Cardinality(R) \in M /\ Of(i, Upto(R, turn, Cardinality(R))) = S
    BY <1>5, LastTurn DEF Of
  <2>2. WrittenOff(outcome, i, R, turn) = reserved[i] + 1..Quantity(S)
    <3>1. WrittenOff(outcome, i, R, turn) =
            UNION {reserved[i] + 1..Quantity(Of(i, Upto(R, turn, n))) : n \in M}
      BY DEF WrittenOff, Drop
    <3>2. \A n \in M : reserved[i] + 1..Quantity(Of(i, Upto(R, turn, n)))
                         \subseteq reserved[i] + 1..Quantity(S)
      BY <1>1, <1>3
    <3>3. reserved[i] + 1..Quantity(S) \in
            {reserved[i] + 1..Quantity(Of(i, Upto(R, turn, n))) : n \in M}
      BY <2>1
    <3> HIDE DEF S, M
    <3> QED
      BY <3>1, <3>2, <3>3
  <2>3. reserved[i] + 1 \in Int
    BY <1>1
  <2>4. Cardinality(reserved[i] + 1..Quantity(S)) =
          IF reserved[i] + 1 > Quantity(S) THEN 0 ELSE Quantity(S) - (reserved[i] + 1) + 1
    BY <1>1, <2>3, FS_Interval
  <2> QED
    BY <1>1, <2>2, <2>4
<1> QED
  BY <1>4, <1>5

\* A settlement of reservations that exist.  When none of a row's reservations
\* ends up settled twice, those it settles were pending, and what leaves the
\* hold goes back to the available units or counts as sold.
LEMMA SettleBooks ==
  ASSUME IType, IBooks, NEW R \in SUBSET ResIds, NEW outcome \in Settled,
         NEW turn \in [R -> 1..Cardinality(R)],
         \A r \in R : resv[r].status # "FREE", Settle(R, turn, outcome)
  PROVE  IBooks'
<1>1. qty' = qty
  BY SettleCounts DEF qty, IType
<1> SUFFICES ASSUME NEW i \in Items
             PROVE  /\ Positive(i)' => /\ available'[i] + removed'[i] >= 0
                                       /\ reserved'[i] >= 0
                                       /\ reserved'[i] <= Quantity(PendingOf(i))'
                    /\ (\A r \in ResIds : resv'[r].item = i => Times(r)' <= 1) =>
                         /\ available'[i] + Quantity(PendingOf(i))'
                              + Quantity(SoldOf(i))' + removed'[i] = received'[i]
                         /\ Positive(i)' => reserved'[i] = Quantity(PendingOf(i))'
  BY DEF IBooks, NegativeStockPrevention, HoldIsCovered, BooksBalance
<1> DEFINE P == PendingOf(i)
           S == Of(i, R)
           D == SoldOf(i)
<1>2. P \in SUBSET ResIds /\ S \in SUBSET ResIds /\ D \in SUBSET ResIds
  BY DEF PendingOf, SoldOf, Of
<1>3. \A X \in SUBSET ResIds : SumOver(qty, X) \in Int /\ IsFiniteSet(X)
  BY QuantityType DEF Quantity, IType
<1>4. \A x \in ResIds : qty[x] \in Int
  BY DEF qty, IType, TypeOK
<1>5. PendingOf(i)' = P \ S
  BY SettleCounts DEF IType, PendingOf, Of, Pending, Settled
<1>6. SumOver(qty, P) = SumOver(qty, P \ S) + SumOver(qty, P \cap S)
  <2>1. P = (P \ S) \cup (P \cap S) /\ (P \ S) \cap (P \cap S) = {}
    OBVIOUS
  <2>2. P \ S \in SUBSET ResIds /\ P \cap S \in SUBSET ResIds
    BY <1>2
  <2>3. SumOver(qty, (P \ S) \cup (P \cap S))
          = SumOver(qty, P \ S) + SumOver(qty, P \cap S)
    BY <1>3, <1>4, <2>1, <2>2, SumSplits
  <2> QED
    BY <2>1, <2>3, Zenon
<1>7. /\ available'[i] = available[i] + (IF outcome = "COMPLETED" THEN 0 ELSE SumOver(qty, S))
      /\ available[i] \in Int /\ reserved[i] \in Int
      /\ received[i] \in Nat /\ removed[i] \in Nat
      /\ received'[i] = received[i] /\ removed'[i] = removed[i]
  BY DEF Settle, Back, Quantity, IType, TypeOK
<1>8. /\ SumOver(qty, P) \in Int /\ SumOver(qty, P \ S) \in Int
      /\ SumOver(qty, P \cap S) \in Int /\ SumOver(qty, S) \in Int
      /\ SumOver(qty, D) \in Int
  <2>1. P \ S \in SUBSET ResIds /\ P \cap S \in SUBSET ResIds
    BY <1>2
  <2> QED
    BY <1>2, <1>3, <2>1
<1>9. Quantity(PendingOf(i))' = SumOver(qty, P \ S)
  BY <1>1, <1>5 DEF Quantity
<1>10. Positive(i)' => Positive(i)
  BY SettleCounts DEF IType, Positive
<1>11. ASSUME Positive(i)
       PROVE  /\ available'[i] + removed'[i] >= 0
              /\ reserved'[i] >= 0 /\ reserved'[i] <= SumOver(qty, P \ S)
              /\ reserved[i] = SumOver(qty, P) /\ S \subseteq P
                   => reserved'[i] = SumOver(qty, P \ S)
  <2>1. available[i] + removed[i] >= 0 /\ reserved[i] >= 0 /\ reserved[i] <= SumOver(qty, P)
    BY <1>11 DEF IBooks, NegativeStockPrevention, HoldIsCovered, Quantity
  <2>2. \A r \in P \cup S : qty[r] \in Int /\ qty[r] >= 0
    BY <1>11 DEF Positive, PendingOf, Of, qty, IType, TypeOK
  <2>3. /\ SumOver(qty, P \cap S) <= SumOver(qty, S)
        /\ SumOver(qty, S) >= 0 /\ SumOver(qty, P \ S) >= 0
    <3>1. SumOver(qty, P \cap S) <= SumOver(qty, S)
      BY <1>2, <1>3, <2>2, SumOfPart
    <3>2. SumOver(qty, S) \in Nat
      BY <1>2, <1>3, <2>2, SumIsNat
    <3>3. SumOver(qty, P \ S) \in Nat
      <4>1. P \ S \in SUBSET ResIds /\ \A r \in P \ S : qty[r] \in Int /\ qty[r] >= 0
        BY <1>2, <2>2
      <4> QED
        BY <1>3, <4>1, SumIsNat
    <3> QED
      BY <3>1, <3>2, <3>3
  <2>4. reserved'[i] = reserved[i] - SumOver(qty, S)
                        + Cardinality(WrittenOff(outcome, i, R, turn))
    BY DEF Settle, Drop, Quantity
  <2>5. Cardinality(WrittenOff(outcome, i, R, turn)) =
          IF SumOver(qty, S) > reserved[i] THEN SumOver(qty, S) - reserved[i] ELSE 0
    BY <1>11, <2>1, WrittenOffOf DEF Quantity
  <2>6. reserved'[i] = IF SumOver(qty, S) > reserved[i] THEN 0
                       ELSE reserved[i] - SumOver(qty, S)
    BY <1>7, <1>8, <2>4, <2>5
  <2>7. available'[i] + removed'[i] >= 0
    BY <1>7, <1>8, <2>1, <2>3
  <2>8. reserved'[i] >= 0 /\ reserved'[i] <= SumOver(qty, P \ S)
    BY <1>6, <1>7, <1>8, <2>1, <2>3, <2>6
  <2>9. ASSUME reserved[i] = SumOver(qty, P), S \subseteq P
        PROVE  reserved'[i] = SumOver(qty, P \ S)
    <3>1. P \cap S = S
      BY <2>9
    <3>2. SumOver(qty, P) = SumOver(qty, P \ S) + SumOver(qty, S)
      BY <1>6, <3>1, Zenon
    <3> QED
      BY <1>7, <1>8, <2>3, <2>6, <2>9, <3>2
  <2> QED
    BY <2>7, <2>8, <2>9
<1>12. ASSUME \A r \in ResIds : resv'[r].item = i => Times(r)' <= 1
       PROVE  /\ available'[i] + Quantity(PendingOf(i))'
                   + Quantity(SoldOf(i))' + removed'[i] = received'[i]
              /\ Positive(i) => reserved'[i] = SumOver(qty, P \ S)
  <2>1. \A r \in ResIds : Times(r) \in Nat
    BY DEF IType, TypeOK, Times
  <2>2. \A r \in ResIds : resv[r].item = i => Times(r) <= 1
    BY <1>12, <2>1, SettleCounts DEF IType
  <2>3. \A r \in S : Times(r) = 0
    BY <1>12, <2>1, SettleCounts DEF IType, Of
  <2>4. S \subseteq P /\ S \cap D = {}
    <3>1. \A r \in S : Pending(r)
      BY <2>3 DEF IType, LedgerOK, Of, Pending, TypeOK, Status
    <3>2. \A r \in S : ~(confirms[r] > 0)
      BY <2>3 DEF IType, TypeOK, Of, Times
    <3> QED
      BY <3>1, <3>2 DEF PendingOf, SoldOf, Of
  <2>5. /\ available[i] + SumOver(qty, P) + SumOver(qty, D) + removed[i] = received[i]
        /\ Positive(i) => reserved[i] = SumOver(qty, P)
    BY <2>2 DEF IBooks, BooksBalance, Quantity
  <2>6. P \cap S = S
    BY <2>4
  <2>7. SumOver(qty, P) = SumOver(qty, P \ S) + SumOver(qty, S)
    BY <1>6, <2>6, Zenon
  <2>8. SumOver(qty, SoldOf(i)') = SumOver(qty, D)
                       + (IF outcome = "COMPLETED" THEN SumOver(qty, S) ELSE 0)
    <3>1. CASE outcome = "COMPLETED"
      <4>0. \A r \in ResIds : /\ resv'[r].item = resv[r].item
                              /\ (confirms'[r] > 0) <=> (confirms[r] > 0 \/ r \in R)
        BY <3>1, SettleCounts DEF IType
      <4>1. SoldOf(i)' = D \cup S
        BY <4>0 DEF SoldOf, Of
      <4>2. SumOver(qty, D \cup S) = SumOver(qty, D) + SumOver(qty, S)
        BY <1>2, <1>3, <1>4, <2>4, SumSplits
      <4> QED
        BY <3>1, <4>1, <4>2, Zenon
    <3>2. CASE outcome # "COMPLETED"
      <4>1. SoldOf(i)' = D
        BY <3>2, SettleCounts DEF IType, SoldOf, Of
      <4>2. SumOver(qty, SoldOf(i)') = SumOver(qty, D)
        BY <4>1, Zenon
      <4> QED
        BY <1>8, <3>2, <4>2
    <3> QED
      BY <3>1, <3>2
  <2>9. Quantity(SoldOf(i))' = SumOver(qty, SoldOf(i)')
    BY <1>1 DEF Quantity
  <2>10. available'[i] + SumOver(qty, P \ S) + SumOver(qty, SoldOf(i)') + removed[i]
           = received[i]
    BY <1>7, <1>8, <2>5, <2>7, <2>8
  <2>11. available'[i] + Quantity(PendingOf(i))'
           + Quantity(SoldOf(i))' + removed'[i] = received'[i]
    BY <1>7, <1>9, <2>9, <2>10
  <2>12. Positive(i) => reserved'[i] = SumOver(qty, P \ S)
    BY <1>11, <2>4, <2>5
  <2> QED
    BY <2>11, <2>12
<1> QED
  BY <1>9, <1>10, <1>11, <1>12

LEMMA NextBooks == IType /\ IBooks /\ [Next]_vars => IBooks'
<1> SUFFICES ASSUME IType, IBooks, [Next]_vars PROVE IBooks'
  OBVIOUS
<1>1. CASE UNCHANGED <<stock, resv, history>>
  BY <1>1 DEF stock, history, IBooks, NegativeStockPrevention, HoldIsCovered,
     BooksBalance, Positive, Quantity, qty, PendingOf, SoldOf, Of, Pending, Times
<1> QED
  BY <1>1, StepKinds, AddBooks, ReserveBooks, SettleBooks

LEMMA BooksInvariant == Spec => [](IType /\ IBooks)
BY InitType, NextType, InitBooks, NextBooks, PTL DEF Spec

\* No row without negative reservations is overdrawn but for what add_stock took
\* (the checks of reserve_stock and the max(0, ...) of the settlements), however
\* often a reservation is settled.
THEOREM StockSafe == Spec => []NegativeStockPrevention
<1>1. IBooks => NegativeStockPrevention
  BY DEF IBooks
<1> QED
  BY <1>1, BooksInvariant, PTL

\* The hold of a row never exceeds its pending reservations unless some are
\* negative: no settlement (release_reservation, confirm_reservation) leaves a
\* hold nobody will drop.
THEOREM HoldsAreCovered == Spec => []HoldIsCovered
<1>1. IBooks => HoldIsCovered
  BY DEF IBooks
<1> QED
  BY <1>1, BooksInvariant, PTL

\* The books of a row balance, every unit received being available, taken back,
\* pending or sold, until one of its reservations is settled a second time; and
\* so does its hold, unless a quantity was negative.
THEOREM BooksStayBalanced == Spec => []BooksBalance
<1>1. IBooks => BooksBalance
  BY DEF IBooks
<1> QED
  BY <1>1, BooksInvariant, PTL

----------------------------------------------------------------------------
(* Announcements *)

\* Falling to the reorder level is announced, on every path that can bring a
\* row there but the release of a negative reservation.
THEOREM LowStockIsAnnounced == Spec => LowStockAnnounced
<1> DEFINE Silent(i) == \E r \in ResIds : /\ resv[r].item = i /\ resv[r].quantity < 0
                                          /\ releases'[r] # releases[r]
<1>1. ASSUME IType, [Next]_vars, NEW i \in rows', available'[i] <= ReorderLevel,
             i \notin rows \/ available'[i] < available[i]
      PROVE  i \in emitted' \/ Silent(i)
  <2>1. i \in Items /\ available[i] \in Int /\ ReorderLevel \in Int
    BY <1>1, NextType, InventoryAssumption DEF IType, TypeOK, InventoryAssumption
  <2>2. ASSUME NEW j \in Items, NEW q \in Quantities, AddStock(j, q)
        PROVE  i \in emitted'
    <3>1. q \in Int
      BY InventoryAssumption DEF InventoryAssumption
    <3>2. i = j
      BY <1>1, <2>1, <2>2, <3>1 DEF AddStock, IType, TypeOK
    <3> QED
      BY <1>1, <2>1, <2>2, <3>1, <3>2 DEF AddStock, LowEvent, IType, TypeOK
  <2>3. ASSUME NEW R \in SUBSET ResIds, NEW o \in Orders \cup {NoOrder},
               NEW line \in [R -> Items \X Quantities],
               NEW turn \in [R -> 1..Cardinality(R)], ReserveLines(R, line, turn, o)
        PROVE  i \in emitted'
    <3>1. rows' = rows /\ available'[i] = available[i] - Taken(R, line, i)
      BY <2>1, <2>3 DEF ReserveLines
    <3>2. i \in RowsOf(R, line)
      <4>1. i \notin RowsOf(R, line) => Taken(R, line, i) = 0
        BY <2>1, TakenType
      <4> QED
        BY <1>1, <2>1, <3>1, <4>1
    <3>3. /\ Upto(R, turn, Cardinality(R)) = R
          /\ Cardinality(R) \in 1..Cardinality(R)
      BY <3>2, LastTurn DEF RowsOf
    <3>4. LowEvent(i, available[i] - Taken(R, line, i)) = {i}
      BY <1>1, <3>1 DEF LowEvent
    <3>5. LowEvent(i, available[i] - Taken(Upto(R, turn, Cardinality(R)), line, i))
            \subseteq emitted'
      BY <2>3, <3>2, <3>3 DEF ReserveLines
    <3> QED
      BY <3>3, <3>4, <3>5
  <2>4. ASSUME NEW R \in SUBSET ResIds, NEW outcome \in Settled,
               NEW turn \in [R -> 1..Cardinality(R)], Settle(R, turn, outcome)
        PROVE  Silent(i)
    <3>1. Of(i, R) \in SUBSET ResIds /\ IsFiniteSet(Of(i, R))
      BY <1>1, QuantityType DEF IType, Of
    <3>2. rows' = rows /\ available'[i] = available[i] + Back(outcome, i, R)
      BY <2>1, <2>4 DEF Settle
    <3>3. outcome # "COMPLETED" /\ Quantity(Of(i, R)) < 0
      BY <1>1, <2>1, <3>1, <3>2, QuantityType DEF Back, IType
    <3>4. PICK r \in Of(i, R) : ~(qty[r] >= 0)
      <4>1. \A r \in Of(i, R) : qty[r] \in Int
        BY <1>1, <3>1 DEF qty, IType, TypeOK
      <4>2. (\A r \in Of(i, R) : qty[r] >= 0) => Quantity(Of(i, R)) \in Nat
        BY <3>1, <4>1, SumIsNat DEF Quantity
      <4> QED
        BY <3>3, <4>2
    <3>5. r \in ResIds /\ r \in R /\ resv[r].item = i /\ resv[r].quantity < 0
      BY <1>1, <2>4, <3>4 DEF Of, qty, IType, TypeOK
    <3>6. releases'[r] = releases[r] + 1
      BY <2>4, <3>3, <3>5 DEF Settle
    <3>7. releases'[r] # releases[r]
      BY <1>1, <3>5, <3>6 DEF IType, TypeOK
    <3> QED
      BY <3>5, <3>7
  <2>5. CASE UNCHANGED <<stock, resv, history>>
    BY <1>1, <2>1, <2>5 DEF stock
  <2> QED
    BY <1>1, <2>2, <2>3, <2>4, <2>5, StepKinds
<1>2. IType /\ [Next]_vars =>
        \A i \in rows' :
          /\ available'[i] <= ReorderLevel
          /\ i \notin rows \/ available'[i] < available[i]
          => \/ i \in emitted'
             \/ \E r \in ResIds : /\ resv[r].item = i /\ resv[r].quantity < 0
                                  /\ releases'[r] # releases[r]
  BY <1>1
<1>3. Spec => []IType
  BY InitType, NextType, PTL DEF Spec
<1> QED
  BY <1>2, <1>3, PTL DEF Spec, LowStockAnnounced

----------------------------------------------------------------------------
(* Outcomes *)

\* What a step does to one reservation: nothing, a first settlement or none,
\* or one settlement by a session that held it.
LEMMA ReservationSteps ==
  ASSUME IType, [Next]_vars, NEW r \in ResIds
  PROVE  \/ Times(r)' = Times(r) /\ Holders(r)' \subseteq Holders(r)
         \/ Times(r) = 0 /\ Times(r)' \in {0, 1}
         \/ /\ Times(r)' = Times(r) + 1
            /\ \E s \in Holders(r) : Holders(r)' = Holders(r) \ {s}
<1>1. Pending(r) => Times(r) = 0
  <2>1. Pending(r) => ~(Times(r) > 0)
    BY DEF IType, LedgerOK, Pending, Settled
  <2>2. Times(r) \in Nat
    BY DEF IType, TypeOK, Times
  <2> QED
    BY <2>1, <2>2
<1>2. ASSUME NEW x \in ResIds, ReleaseReservation(x)
      PROVE  \/ Times(r)' = Times(r) /\ Holders(r)' \subseteq Holders(r)
             \/ Times(r) = 0 /\ Times(r)' \in {0, 1}
  <2>1. Settle({x}, Alone(x), "CANCELLED") /\ Holders(r)' = Holders(r) /\ Pending(x)
    BY <1>2 DEF ReleaseReservation, Holders, session
  <2> QED
    BY <1>1, <2>1, SettleCounts DEF IType, Settled
<1>3. ASSUME NEW s \in Sessions, NEW x \in ResIds, SettleOne(s, x)
      PROVE  \/ Times(r)' = Times(r) /\ Holders(r)' \subseteq Holders(r)
             \/ /\ Times(r)' = Times(r) + 1
                /\ \E t \in Holders(r) : Holders(r)' = Holders(r) \ {t}
  <2>1. Settle({x}, Alone(x), op[s]) /\ op[s] \in Settled /\ {x} \in SUBSET ResIds
    BY <1>3, OutcomeType DEF SettleOne, IType
  <2>2. CASE x = r
    <3>1. s \in Holders(r) /\ Holders(r)' = Holders(r) \ {s}
      BY <1>3, <2>2 DEF SettleOne, Holders, IType, TypeOK
    <3> QED
      BY <2>1, <2>2, <3>1, SettleCounts DEF IType
  <2>3. CASE x # r
    <3>1. Holders(r)' = Holders(r)
      BY <1>3, <2>3 DEF SettleOne, Holders, IType, TypeOK
    <3> QED
      BY <2>1, <2>3, <3>1, SettleCounts DEF IType
  <2> QED
    BY <2>2, <2>3
<1>4. ASSUME NEW c \in Clerks, ClerkCommit(c)
      PROVE  \/ Times(r)' = Times(r) /\ Holders(r)' \subseteq Holders(r)
             \/ /\ Times(r)' = Times(r) + 1
                /\ \E t \in Holders(r) : Holders(r)' = Holders(r) \ {t}
  <2>1. /\ c \in Sessions /\ \E turn \in Orderings(todo[c]) : Settle(todo[c], turn, op[c])
        /\ op[c] \in Settled /\ todo[c] \in SUBSET ResIds
    BY <1>4 DEF ClerkCommit, IType, TypeOK, Sessions
  <2>2. CASE r \in todo[c]
    <3>1. c \in Holders(r) /\ Holders(r)' = Holders(r) \ {c}
      BY <1>4, <2>1, <2>2 DEF ClerkCommit, Holders, IType, TypeOK
    <3> QED
      BY <2>1, <2>2, <3>1, SettleCounts DEF IType
  <2>3. CASE r \notin todo[c]
    <3>1. Holders(r)' = Holders(r)
      BY <1>4, <2>1, <2>3 DEF ClerkCommit, Holders, IType, TypeOK
    <3> QED
      BY <2>1, <2>3, <3>1, SettleCounts DEF IType
  <2> QED
    BY <2>2, <2>3
<1>5. ASSUME NEW s \in Sessions, NEW outcome, NEW R \in SUBSET ResIds,
             \A x \in R : Pending(x), Load(s, outcome, R)
      PROVE  \/ Times(r)' = Times(r) /\ Holders(r)' \subseteq Holders(r)
             \/ Times(r) = 0 /\ Times(r)' \in {0, 1}
  <2>1. Times(r)' = Times(r)
    BY <1>5 DEF Load, Times, history
  <2>2. CASE r \in R
    BY <1>1, <1>5, <2>1, <2>2
  <2>3. CASE r \notin R
    BY <1>5, <2>1, <2>3 DEF Load, Holders, IType, TypeOK
  <2> QED
    BY <2>2, <2>3
<1>6. ASSUME \/ \E i \in Items, q \in Quantities : AddStock(i, q)
             \/ \E i \in Items, q \in Quantities, o \in Orders \cup {NoOrder},
                    x \in ResIds : ReserveStock(i, q, o, x)
             \/ \E o \in Orders : \E R \in SUBSET ResIds :
                  \E line \in [R -> Lines[o]] : \E turn \in Orderings(R) :
                    AllocateOrder(o, R, line, turn)
             \/ \E x \in ResIds : Expire(x)
             \/ \E s \in Sessions : Finish(s)
             \/ UNCHANGED vars
      PROVE  Times(r)' = Times(r) /\ Holders(r)' = Holders(r)
  <2>1. ASSUME NEW R, NEW line, NEW turn, NEW o, ReserveLines(R, line, turn, o)
        PROVE  UNCHANGED <<history, session>>
    BY <2>1 DEF ReserveLines
  <2>2. UNCHANGED <<releases, confirms, todo>>
    BY <1>6, <2>1 DEF AddStock, ReserveStock, AllocateOrder, Expire, Finish,
       vars, session, history
  <2> QED
    BY <2>2 DEF Times, Holders
<1>7. ASSUME NEW s \in Sessions, Abandon(s)
      PROVE  Times(r)' = Times(r) /\ Holders(r)' \subseteq Holders(r)
  BY <1>7 DEF Abandon, Times, Holders, history, IType, TypeOK
<1>8. ASSUME \/ SweepLoad
             \/ \E o \in Orders, outcome \in {"CANCELLED", "COMPLETED"} :
                  ConsumerLoad(o, outcome)
             \/ \E c \in Clerks, o \in Orders : ClerkLoad(c, o)
      PROVE  \E s \in Sessions, R \in SUBSET ResIds :
               (\A x \in R : Pending(x)) /\ \E outcome : Load(s, outcome, R)
  BY <1>8 DEF SweepLoad, ConsumerLoad, ClerkLoad, PendingOfOrder, Sessions
<1> QED
  BY <1>2, <1>3, <1>4, <1>5, <1>6, <1>7, <1>8 DEF Next

\* An outcome is overwritten only by a session that read PENDING before.
THEOREM OutcomesAreFinal == Spec => OutcomeChangesAreStale
<1>1. IType /\ [Next]_vars =>
        \A r \in ResIds :
          resv[r].status \in Settled /\ Times(r)' # Times(r)
            => \E s \in Holders(r) : s \notin Holders(r)'
  <2> SUFFICES ASSUME IType, [Next]_vars, NEW r \in ResIds,
                      resv[r].status \in Settled, Times(r)' # Times(r)
               PROVE  \E s \in Holders(r) : s \notin Holders(r)'
    OBVIOUS
  <2>1. Times(r) # 0
    BY DEF IType, LedgerOK
  <2> QED
    BY <2>1, ReservationSteps
<1>2. Spec => []IType
  BY InitType, NextType, PTL DEF Spec
<1> QED
  BY <1>1, <1>2, PTL DEF Spec, OutcomeChangesAreStale

\* A reservation is settled at most once more than there are sessions that can
\* hold it at the same time.
THEOREM BoundedSettlements == Spec => []SettlementsBounded
<1> DEFINE N == Cardinality(Sessions)
<1>1. IsFiniteSet(Sessions)
  <2>1. IsFiniteSet({Sweeper}) /\ IsFiniteSet({Consumer})
    BY FS_Singleton, Zenon
  <2>2. IsFiniteSet({Sweeper} \cup {Consumer} \cup Clerks)
    BY <2>1, InventoryAssumption, FS_Union DEF InventoryAssumption
  <2>3. {Sweeper} \cup {Consumer} \cup Clerks = Sessions
    BY DEF Sessions
  <2> QED
    BY <2>2, <2>3, Zenon
<1>2. ASSUME NEW r \in ResIds
      PROVE  /\ IsFiniteSet(Holders(r)) /\ Cardinality(Holders(r)) \in Nat
             /\ Cardinality(Holders(r)) <= N
             /\ Cardinality(Holders(r)') \in Nat /\ Cardinality(Holders(r)') <= N
             /\ N \in Nat
  <2>1. Holders(r) \subseteq Sessions /\ Holders(r)' \subseteq Sessions
    BY DEF Holders
  <2> QED
    BY <1>1, <2>1, FS_Subset, FS_CardinalityType
<1>3. Init => SettlementsBounded
  <2> SUFFICES ASSUME Init, NEW r \in ResIds
               PROVE  Times(r) + Cardinality(Holders(r)) <= N + 1
    BY DEF SettlementsBounded
  <2>1. Times(r) = 0
    BY DEF Init, Times
  <2> QED
    BY <1>2, <2>1
<1>4. IType /\ SettlementsBounded /\ [Next]_vars => SettlementsBounded'
  <2> SUFFICES ASSUME IType, SettlementsBounded, [Next]_vars, NEW r \in ResIds
               PROVE  Times(r)' + Cardinality(Holders(r)') <= N + 1
    BY DEF SettlementsBounded
  <2>1. Times(r) \in Nat /\ Times(r) + Cardinality(Holders(r)) <= N + 1
    BY DEF IType, TypeOK, Times, SettlementsBounded
  <2>2. CASE Times(r)' = Times(r) /\ Holders(r)' \subseteq Holders(r)
    <3>1. Cardinality(Holders(r)') <= Cardinality(Holders(r))
      BY <1>2, <2>2, FS_Subset
    <3> QED
      BY <1>2, <2>1, <2>2, <3>1
  <2>3. CASE Times(r) = 0 /\ Times(r)' \in {0, 1}
    BY <1>2, <2>3
  <2>4. ASSUME Times(r)' = Times(r) + 1, NEW s \in Holders(r),
               Holders(r)' = Holders(r) \ {s}
        PROVE  Times(r)' + Cardinality(Holders(r)') <= N + 1
    <3>1. Cardinality(Holders(r) \ {s}) = Cardinality(Holders(r)) - 1
      BY <1>2, FS_RemoveElement
    <3>2. Cardinality(Holders(r)') = Cardinality(Holders(r)) - 1
      BY <2>4, <3>1, Zenon
    <3> QED
      BY <1>2, <2>1, <2>4, <3>2
  <2> QED
    BY <2>2, <2>3, <2>4, ReservationSteps
<1> QED
  BY <1>3, <1>4, InitType, NextType, PTL DEF Spec
=============================================================================
