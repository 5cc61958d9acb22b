-------------------------- MODULE RequestParsingProofs --------------------------
(***************************************************************************)
(* Proofs about RequestParsing, for any number of job threads and          *)
(* messages.  Inv says where the pointer of strtok, and what the threads   *)
(* have read of it, can point: never at the first field of a message that  *)
(* has one, and, until another strtok comes in between, at the next field  *)
(* of the message a thread is taking apart.                                *)
(***************************************************************************)
EXTENDS RequestParsing, SequenceTheorems, TLAPS

Position(p) ==
  \/ p = Nothing
  \/ /\ p \in Fields
     /\ p.message.n <= taken
     /\ p.number <= p.message.length + 1
     /\ p.number = 1 => p = End(p.message)

Positions ==
  /\ Position(olds) /\ \A t \in Threads : Position(at[t])
  /\ \A p \in cut : p.message.n <= taken

(* Every message is numbered and belongs to the thread that has taken it.  *)
MessagesOwned ==
  \A t \in Threads :
    /\ message[t] # NoMessage => message[t].thread = t /\ message[t].n <= taken
    /\ message[t] = NoMessage => got[t] = <<>>
    /\ at[t] # Nothing => got[t] # <<>> /\ Parsing(t)

(* Nobody has been in a message whose first strtok is still to come. *)
Untouched ==
  \A t \in Threads :
    message[t] # NoMessage /\ got[t] = <<>> =>
      /\ olds.message # message[t]
      /\ \A u \in Threads : at[u].message # message[t]
      /\ \A p \in cut : p.message # message[t]

(* What the next strtok(NULL) of a thread that is alone will find. *)
NextField(t) ==
  Field(message[t], IF Len(got[t]) < message[t].length
                      THEN Len(got[t]) + 1 ELSE message[t].length + 1)
OwnPosition ==
  \A t \in Threads :
    alone[t] /\ got[t] # <<>> =>
      /\ olds = NextField(t)
      /\ at[t] \in {Nothing, olds}
      /\ \A k \in 1..4 : k > Len(got[t]) => Field(message[t], k) \notin cut

Inv == TypeOK /\ Positions /\ MessagesOwned /\ Untouched
         /\ FirstFieldsOwn /\ OwnPosition /\ OwnFieldsUnlessInterrupted
-------------------------------------------------------------------------------
(* A field is its message and its number. *)
LEMMA FieldIsPair ==
  /\ \A m, k : Field(m, k).message = m /\ Field(m, k).number = k
  /\ \A f \in Fields : f = Field(f.message, f.number)
                         /\ f.message \in Messages /\ f.number \in 1..4
  /\ \A m \in Messages, k \in 1..4 : Field(m, k) \in Fields
  BY DEF Field, Fields

LEMMA NothingIsNoField ==
  Nothing \notin Fields /\ Nothing.message = NoMessage /\ Nothing.number = 0
  BY FieldIsPair, NoMessageAssumption DEF Nothing, Fields

LEMMA MessageParts ==
  /\ \A m \in Messages : /\ m.thread \in Threads /\ m.n \in 1..MaxMessages
                         /\ m.kind \in {"LOGIN", "ANCREATE", "ANBID"}
                         /\ m.length \in 0..3
  /\ \A m \in Messages : End(m) \in Fields
  BY FieldIsPair DEF Messages, End

(* A position of the pointer is Nothing or a field or end of some message. *)
LEMMA PositionIs ==
  ASSUME NEW f, Position(f)
  PROVE  f \in Fields \cup {Nothing}
  BY DEF Position

(* Where a strtok that starts at f leaves the pointer, and what it gives. *)
LEMMA StrtokMoves ==
  ASSUME TypeOK, Positions, NEW t \in Threads, NEW f \in Fields \cup {Nothing}, Strtok(t, f),
         f \in Fields => f.number <= f.message.length + 1 /\ f.message.n <= taken
  PROVE  /\ Position(olds)' /\ olds' \in Fields \cup {Nothing}
         /\ olds'.message = f.message
         /\ cut' \subseteq cut \cup {f} /\ cut' \subseteq Fields
         /\ \A p \in cut' : p.message.n <= taken'
<1>1. /\ \A p \in cut : p.message.n <= taken
      /\ cut \subseteq Fields
  BY DEF Positions, TypeOK
<1>2. taken' = taken
  BY DEF Strtok
<1>3. CASE AtEnd(f)
  <2>1. olds' = f /\ cut' = cut
    BY <1>3 DEF Strtok
  <2>2. Position(f)
    BY <1>3, FieldIsPair DEF AtEnd, Position, End
  <2> QED BY <1>1, <1>2, <2>1, <2>2 DEF Position
<1>4. CASE ~AtEnd(f)
  <2>1. f \in Fields /\ f # End(f.message)
    BY <1>4 DEF AtEnd
  <2>2. /\ f.message \in Messages /\ f.message.length \in 0..3
        /\ f.number \in 1..f.message.length
    BY <2>1, FieldIsPair, MessageParts DEF End
  <2>3. cut' = cut \cup {f}
    BY <1>4 DEF Strtok
  <2>4. PICK k \in 2..4 : /\ olds' = Field(f.message, k) /\ k <= f.message.length + 1
    <3>1. CASE EndsWithZero(f)
      BY <1>4, <2>2, <3>1 DEF Strtok, End
    <3>2. CASE ~EndsWithZero(f)
      BY <1>4, <2>2, <3>2 DEF Strtok
    <3> QED BY <3>1, <3>2
  <2>5. olds' \in Fields /\ olds'.message = f.message /\ olds'.number = k
    BY <2>2, <2>4, FieldIsPair
  <2>6. Position(olds)'
    BY <1>2, <2>1, <2>4, <2>5 DEF Position
  <2> QED BY <1>1, <1>2, <2>1, <2>3, <2>5, <2>6
<1> QED BY <1>3, <1>4
-------------------------------------------------------------------------------
LEMMA InitInv == Init => Inv
<1> SUFFICES ASSUME Init PROVE Inv
  OBVIOUS
<1>1. TypeOK
  <2>1. died \in BOOLEAN
    BY Zenon DEF Init
  <2>2. alone \in [Threads -> BOOLEAN]
    BY DEF Init
  <2>3. taken \in 0..MaxMessages
    BY RequestParsingAssumption DEF Init
  <2> QED BY <2>1, <2>2, <2>3 DEF Init, TypeOK
<1>2. Positions /\ MessagesOwned /\ Untouched /\ OwnPosition
  BY DEF Init, Positions, Position, MessagesOwned, Untouched, OwnPosition
<1>3. FirstFieldsOwn /\ OwnFieldsUnlessInterrupted
  BY DEF Init, FirstFieldsOwn, OwnFieldsUnlessInterrupted
<1> QED BY <1>1, <1>2, <1>3 DEF Inv

(* A message that is taken has a number of its own. *)
LEMMA TakeInv ==
  ASSUME Inv, NEW t \in Threads, Take(t)
  PROVE  Inv'
<1>1. PICK kind \in Kinds(t), length \in 0..3 :
        message' = [message EXCEPT ![t] =
                      [thread |-> t, n |-> taken + 1, kind |-> kind, length |-> length]]
  BY DEF Take
<1> DEFINE m == [thread |-> t, n |-> taken + 1, kind |-> kind, length |-> length]
<1>2. /\ UNCHANGED <<olds, cut, got, at, died>>
      /\ message[t] = NoMessage /\ taken' = taken + 1
      /\ alone' = [alone EXCEPT ![t] = TRUE]
      /\ taken \in Nat /\ taken < MaxMessages
      /\ message \in [Threads -> Messages \cup {NoMessage}]
  BY DEF Take, Inv, TypeOK
<1>3. m \in Messages /\ m.thread = t /\ m.n = taken + 1
  BY <1>2, RequestParsingAssumption DEF Messages, Kinds
<1> HIDE DEF m
<1>4. /\ message'[t] = m /\ \A u \in Threads \ {t} : message'[u] = message[u]
      /\ got' = got /\ got[t] = <<>>
  BY <1>1, <1>2 DEF Inv, MessagesOwned, m
<1>5. TypeOK'
  <2>1. message' \in [Threads -> Messages \cup {NoMessage}]
    BY <1>1, <1>2, <1>3 DEF m
  <2>2. taken' \in 0..MaxMessages /\ alone' \in [Threads -> BOOLEAN]
    BY <1>2, RequestParsingAssumption DEF Inv, TypeOK
  <2>3. died' \in BOOLEAN
    BY <1>2, Zenon DEF Inv, TypeOK
  <2> QED BY <1>2, <2>1, <2>2, <2>3 DEF Inv, TypeOK
<1>6. \A f \in Fields \cup {Nothing} : f = Nothing \/ f.message.n \in Int
  BY FieldIsPair, MessageParts
<1>7. Positions'
  <2>1. ASSUME NEW p, Position(p) PROVE Position(p)'
    BY <1>2, <1>6, <2>1, PositionIs DEF Position
  <2>2. \A p \in cut : p.message.n <= taken'
    <3>1. \A p \in cut : p \in Fields /\ p.message.n \in Int /\ p.message.n <= taken
      BY FieldIsPair, MessageParts DEF Inv, TypeOK, Positions
    <3> QED BY <1>2, <3>1
  <2> QED BY <1>2, <2>1, <2>2 DEF Inv, Positions
<1>8. MessagesOwned'
  <2>1. ASSUME NEW u \in Threads, u # t, message[u] # NoMessage
        PROVE  message[u].n <= taken'
    BY <1>2, <2>1, MessageParts DEF Inv, MessagesOwned
  <2> QED BY <1>2, <1>3, <1>4, <2>1, NoMessageAssumption DEF Inv, MessagesOwned, Parsing
<1>9. Untouched'
  <2>1. ASSUME NEW p, p = Nothing \/ (p \in Fields /\ p.message.n <= taken)
        PROVE  p.message # m
    BY <1>2, <1>3, <2>1, NothingIsNoField, NoMessageAssumption, FieldIsPair, MessageParts
  <2>2. ASSUME NEW p, Position(p) PROVE p.message # m
    <3>1. p = Nothing \/ (p \in Fields /\ p.message.n <= taken)
      BY <2>2 DEF Position
    <3> QED BY <2>1, <3>1
  <2>3. /\ olds.message # m /\ \A u \in Threads : at[u].message # m
        /\ \A p \in cut : p.message # m
    BY <2>1, <2>2 DEF Inv, Positions, TypeOK
  <2> QED BY <1>2, <1>4, <2>3 DEF Inv, Untouched
<1>10. OwnPosition'
  <2>1. ASSUME NEW u \in Threads, u # t PROVE NextField(u)' = NextField(u)
    BY <1>4, <2>1 DEF NextField
  <2>2. \A u \in Threads \ {t} : alone'[u] = alone[u] /\ message'[u] = message[u]
    BY <1>2, <1>4 DEF Inv, TypeOK
  <2> QED BY <1>2, <1>4, <2>1, <2>2 DEF Inv, OwnPosition
<1>11. FirstFieldsOwn' /\ OwnFieldsUnlessInterrupted'
  <2>1. \A u \in Threads : \A i \in DOMAIN got[u] :
          u # t /\ alone'[u] = alone[u] /\ message'[u] = message[u]
    <3>1. ASSUME NEW u \in Threads, NEW i \in DOMAIN got[u]
          PROVE  u # t /\ alone'[u] = alone[u] /\ message'[u] = message[u]
      <4>1. u # t
        BY <1>4
      <4> QED BY <1>2, <1>4, <4>1 DEF Inv, TypeOK
    <3> QED BY <3>1
  <2> QED BY <1>2, <2>1 DEF Inv, FirstFieldsOwn, OwnFieldsUnlessInterrupted
<1> QED BY <1>5, <1>7, <1>8, <1>9, <1>10, <1>11 DEF Inv

(* Reading the pointer moves nothing. *)
LEMMA LoadInv ==
  ASSUME Inv, NEW t \in Threads, StrtokLoad(t)
  PROVE  Inv'
<1>1. /\ at' = [at EXCEPT ![t] = olds] /\ got[t] # <<>>
      /\ UNCHANGED <<olds, cut, message, got, taken, alone, died>>
  BY DEF StrtokLoad
<1>2. TypeOK'
  <2>1. died' \in BOOLEAN
    BY <1>1, Zenon DEF Inv, TypeOK
  <2> QED BY <1>1, <2>1 DEF Inv, TypeOK
<1>3. Positions' /\ MessagesOwned' /\ Untouched'
  <2>1. /\ at'[t] = olds /\ \A u \in Threads \ {t} : at'[u] = at[u]
        /\ Parsing(t)
    BY <1>1 DEF Inv, TypeOK, StrtokLoad
  <2>2. Positions'
    BY <1>1, <2>1 DEF Inv, Positions, Position
  <2>3. MessagesOwned'
    BY <1>1, <2>1 DEF Inv, MessagesOwned, Parsing
  <2>4. Untouched'
    BY <1>1, <2>1 DEF Inv, Untouched
  <2> QED BY <2>2, <2>3, <2>4
<1>4. OwnPosition'
  <2>1. \A u \in Threads : NextField(u)' = NextField(u)
    BY <1>1 DEF NextField
  <2> QED BY <1>1, <2>1 DEF Inv, TypeOK, OwnPosition
<1>5. FirstFieldsOwn' /\ OwnFieldsUnlessInterrupted'
  BY <1>1 DEF Inv, FirstFieldsOwn, OwnFieldsUnlessInterrupted
<1> QED BY <1>2, <1>3, <1>4, <1>5 DEF Inv

LEMMA CarryOutInv ==
  ASSUME Inv, NEW t \in Threads, CarryOut(t)
  PROVE  Inv'
<1>1. /\ message' = [message EXCEPT ![t] = NoMessage]
      /\ got' = [got EXCEPT ![t] = <<>>]
      /\ UNCHANGED <<olds, cut, at, taken, alone>>
  BY DEF CarryOut
<1>2. TypeOK'
  <2>1. died' \in BOOLEAN
    BY Zenon DEF CarryOut
  <2>2. got' \in [Threads -> Seq(Fields \cup {Nothing})]
    BY <1>1 DEF Inv, TypeOK
  <2> QED BY <1>1, <2>1, <2>2 DEF Inv, TypeOK
<1>3. /\ message'[t] = NoMessage /\ got'[t] = <<>>
      /\ \A u \in Threads \ {t} : message'[u] = message[u] /\ got'[u] = got[u]
  BY <1>1 DEF Inv, TypeOK
<1>4. at[t] = Nothing
  BY DEF Inv, MessagesOwned, CarryOut, Parsing, Parsed
<1>5. Positions' /\ MessagesOwned' /\ Untouched'
  <2>1. Positions'
    BY <1>1 DEF Inv, Positions, Position
  <2>2. MessagesOwned'
    BY <1>1, <1>3, <1>4 DEF Inv, MessagesOwned, Parsing
  <2>3. Untouched'
    BY <1>1, <1>3 DEF Inv, Untouched
  <2> QED BY <2>1, <2>2, <2>3
<1>6. OwnPosition'
  <2>1. ASSUME NEW u \in Threads, u # t PROVE NextField(u)' = NextField(u)
    BY <1>3, <2>1 DEF NextField
  <2> QED BY <1>1, <1>3, <2>1 DEF Inv, OwnPosition
<1>7. FirstFieldsOwn' /\ OwnFieldsUnlessInterrupted'
  BY <1>1, <1>3 DEF Inv, FirstFieldsOwn, OwnFieldsUnlessInterrupted
<1> QED BY <1>2, <1>5, <1>6, <1>7 DEF Inv

(* strtok, called for the first field of the thread's message or from      *)
(* where the thread has seen the pointer.                                  *)
LEMMA StrtokInv ==
  ASSUME Inv, NEW t \in Threads, NEW f, Parsing(t), Strtok(t, f),
         at' = [at EXCEPT ![t] = Nothing],
         \/ got[t] = <<>> /\ f = Field(message[t], 1)
         \/ got[t] # <<>> /\ f = at[t] /\ f # Nothing
  PROVE  Inv'
<1> DEFINE m == message[t]
           n == Len(got[t])
           gives == IF AtEnd(f) THEN Nothing ELSE f
<1>1. /\ got' = [got EXCEPT ![t] = Append(@, gives)]
      /\ alone' = [u \in Threads |-> alone[u] /\ (u = t \/ got[u] = <<>>)]
      /\ UNCHANGED <<message, taken>>
      /\ died' = (AtEnd(f) /\ NullBreaks(t))
  BY DEF Strtok
<1>2. /\ m \in Messages /\ m.thread = t /\ m.n <= taken
      /\ m.length \in 0..3
      /\ got[t] \in Seq(Fields \cup {Nothing}) /\ n \in Nat
  BY MessageParts DEF Inv, TypeOK, MessagesOwned, Parsing
<1>3. Position(f) \/ (f = Field(m, 1) /\ got[t] = <<>>)
  BY DEF Inv, Positions
<1>4. f \in Fields /\ f.number <= f.message.length + 1 /\ f.message.n <= taken
  <2>1. CASE f = Field(m, 1)
    BY <1>2, <2>1, FieldIsPair
  <2>2. CASE f # Field(m, 1)
    BY <1>3, <2>2 DEF Position
  <2> QED BY <2>1, <2>2
<1>5. /\ Position(olds)' /\ olds' \in Fields \cup {Nothing}
      /\ olds'.message = f.message
      /\ cut' \subseteq cut \cup {f} /\ cut' \subseteq Fields
      /\ \A p \in cut' : p.message.n <= taken'
  BY <1>4, StrtokMoves DEF Inv
<1>6. gives \in Fields \cup {Nothing}
  BY <1>4
<1> HIDE DEF gives
<1>7. /\ got'[t] = Append(got[t], gives) /\ at'[t] = Nothing
      /\ \A u \in Threads \ {t} :
           /\ got'[u] = got[u] /\ at'[u] = at[u]
           /\ alone'[u] => alone[u] /\ got[u] = <<>>
      /\ alone'[t] = alone[t]
  BY <1>1 DEF Inv, TypeOK
<1>8. /\ Len(got'[t]) = n + 1 /\ got'[t][n + 1] = gives
      /\ \A i \in 1..n : got'[t][i] = got[t][i]
      /\ DOMAIN got'[t] = 1..(n + 1)
      /\ got'[t] \in Seq(Fields \cup {Nothing})
  BY <1>2, <1>6, <1>7
<1>9. TypeOK'
  <2>1. got' \in [Threads -> Seq(Fields \cup {Nothing})]
    BY <1>1, <1>7, <1>8 DEF Inv, TypeOK
  <2>2. died' \in BOOLEAN /\ alone' \in [Threads -> BOOLEAN]
    BY <1>1
  <2>3. at' \in [Threads -> Fields \cup {Nothing}]
    BY DEF Inv, TypeOK
  <2> QED BY <1>1, <1>5, <2>1, <2>2, <2>3 DEF Inv, TypeOK
<1>10. Positions'
  <2>1. ASSUME NEW u \in Threads PROVE Position(at[u])'
    <3>1. CASE u = t
      BY <1>7, <3>1 DEF Position
    <3>2. CASE u # t
      BY <1>1, <1>7, <3>2 DEF Inv, Positions, Position
    <3> QED BY <3>1, <3>2
  <2> QED BY <1>5, <2>1 DEF Positions
<1>11. MessagesOwned'
  <2>1. message[t] # NoMessage /\ got'[t] # <<>>
    BY <1>8 DEF Parsing
  <2> QED BY <1>1, <1>7, <2>1 DEF Inv, MessagesOwned, Parsing
<1>12. Untouched'
  <2> SUFFICES ASSUME NEW u \in Threads, message[u] # NoMessage, got'[u] = <<>>
               PROVE  /\ olds'.message # message[u]
                      /\ \A v \in Threads : at'[v].message # message[u]
                      /\ \A p \in cut' : p.message # message[u]
    BY <1>1 DEF Untouched
  <2>1. u # t /\ got[u] = <<>>
    BY <1>7, <1>8
  <2>2. f.message # message[u]
    <3>1. CASE f = Field(m, 1)
      BY <1>2, <2>1, <3>1, FieldIsPair DEF Inv, MessagesOwned
    <3>2. CASE f # Field(m, 1)
      BY <2>1, <3>2 DEF Inv, Untouched
    <3> QED BY <3>1, <3>2
  <2>3. Nothing.message # message[u]
    BY NothingIsNoField
  <2> QED BY <1>5, <1>7, <2>1, <2>2, <2>3 DEF Inv, Untouched
<1>13. FirstFieldsOwn'
  <2>1. ASSUME n # 0 PROVE gives.number # 1 /\ n + 1 # 1
    <3>1. f.number = 1 => AtEnd(f)
      BY <1>2, <1>3, <1>4, <2>1, NothingIsNoField DEF Position, AtEnd
    <3> QED BY <1>2, <2>1, <3>1, NothingIsNoField DEF gives
  <2>2. ASSUME n = 0 PROVE gives \in {Nothing, Field(m, 1)}
    BY <1>2, <2>2 DEF gives
  <2>3. ASSUME NEW i \in DOMAIN got'[t], i = 1 \/ got'[t][i].number = 1
        PROVE  got'[t][i] \in {Nothing, Field(m, i)} /\ i = 1
    <3>1. CASE i = n + 1
      BY <1>2, <1>8, <2>1, <2>2, <2>3, <3>1
    <3>2. CASE i # n + 1
      <4>1. i \in 1..n /\ got'[t][i] = got[t][i] /\ i \in DOMAIN got[t]
        BY <1>2, <1>8, <3>2
      <4> QED BY <2>3, <4>1 DEF Inv, FirstFieldsOwn
    <3> QED BY <3>1, <3>2
  <2> QED BY <1>1, <1>7, <2>3 DEF Inv, FirstFieldsOwn
<1>14. ASSUME alone[t]
       PROVE  /\ f = Field(m, IF n < m.length THEN n + 1 ELSE m.length + 1)
              /\ \A k \in 1..4 : k > n => Field(m, k) \notin cut
  <2>1. CASE got[t] = <<>>
    <3>1. n = 0 /\ f = Field(m, 1)
      BY <2>1 DEF Parsing
    <3>2. \A k \in 1..4 : Field(m, k) \notin cut
      BY <2>1, FieldIsPair DEF Inv, Untouched, Parsing
    <3> QED BY <1>2, <3>1, <3>2
  <2>2. CASE got[t] # <<>>
    <3>1. olds = NextField(t) /\ at[t] \in {Nothing, olds}
          /\ \A k \in 1..4 : k > n => Field(m, k) \notin cut
      BY <1>14, <2>2 DEF Inv, OwnPosition
    <3> QED BY <2>2, <3>1 DEF NextField
  <2> QED BY <2>1, <2>2
<1>15. ASSUME alone[t]
       PROVE  /\ AtEnd(f) <=> n >= m.length
              /\ gives = IF n < m.length THEN Field(m, n + 1) ELSE Nothing
  <2>1. f # Nothing /\ f.message = m
        /\ f.number = IF n < m.length THEN n + 1 ELSE m.length + 1
    BY <1>4, <1>14, <1>15, NothingIsNoField, FieldIsPair
  <2>2. AtEnd(f) <=> f.number = m.length + 1
    BY <1>14, <1>15, <2>1, FieldIsPair DEF AtEnd, End
  <2> QED BY <1>2, <1>14, <1>15, <2>1, <2>2 DEF gives
<1>16. OwnPosition'
  <2> SUFFICES ASSUME alone[t]
               PROVE  /\ olds' = NextField(t)'
                      /\ \A k \in 1..4 : k > n + 1 => Field(m, k) \notin cut'
    BY <1>1, <1>7, <1>8 DEF OwnPosition
  <2>1. NextField(t)' = Field(m, IF n + 1 < m.length THEN n + 2 ELSE m.length + 1)
    BY <1>1, <1>2, <1>8 DEF NextField
  <2>2. CASE AtEnd(f)
    <3>1. olds' = f /\ cut' = cut /\ n >= m.length
      BY <1>15, <2>2 DEF Strtok
    <3> QED BY <1>2, <1>14, <2>1, <3>1
  <2>3. CASE ~AtEnd(f)
    <3>1. n < m.length /\ f = Field(m, n + 1) /\ cut' = cut \cup {f}
          /\ f.number = n + 1 /\ f.message = m /\ f \notin cut
      BY <1>2, <1>14, <1>15, <2>3, FieldIsPair DEF Strtok
    <3>2. olds' = IF n + 1 = m.length THEN End(m) ELSE Field(m, n + 2)
      BY <1>2, <2>3, <3>1 DEF Strtok, EndsWithZero
    <3>3. \A k \in 1..4 : k > n + 1 => Field(m, k) # f
      BY <1>2, <3>1, FieldIsPair
    <3> QED BY <1>2, <1>14, <2>1, <3>1, <3>2, <3>3 DEF End
  <2> QED BY <2>2, <2>3
<1>17. OwnFieldsUnlessInterrupted'
  <2>1. ASSUME NEW i \in DOMAIN got'[t], alone[t]
        PROVE  got'[t][i] = IF i <= m.length THEN Field(m, i) ELSE Nothing
    <3>1. CASE i = n + 1
      BY <1>2, <1>8, <1>15, <2>1, <3>1
    <3>2. CASE i # n + 1
      <4>1. i \in DOMAIN got[t] /\ got'[t][i] = got[t][i]
        BY <1>2, <1>8, <3>2
      <4> QED BY <2>1, <4>1 DEF Inv, OwnFieldsUnlessInterrupted
    <3> QED BY <3>1, <3>2
  <2> QED BY <1>1, <1>7, <2>1 DEF Inv, OwnFieldsUnlessInterrupted
<1> QED BY <1>9, <1>10, <1>11, <1>12, <1>13, <1>16, <1>17 DEF Inv

LEMMA StepInv == Inv /\ [Next]_vars => Inv'
<1> SUFFICES ASSUME Inv, [Next]_vars PROVE Inv'
  OBVIOUS
<1>1. CASE UNCHANGED vars
  BY <1>1 DEF vars, Inv, TypeOK, Positions, Position, MessagesOwned, Untouched,
     OwnPosition, NextField, FirstFieldsOwn, OwnFieldsUnlessInterrupted, Parsing
<1>2. ASSUME NEW t \in Threads,
             Take(t) \/ StrtokMessage(t) \/ StrtokLoad(t) \/ StrtokNext(t) \/ CarryOut(t)
      PROVE  Inv'
  <2>1. CASE StrtokMessage(t)
    <3>1. at' = [at EXCEPT ![t] = Nothing]
      <4>1. at[t] = Nothing /\ at \in [Threads -> Fields \cup {Nothing}] /\ at' = at
        BY <2>1 DEF StrtokMessage, Inv, TypeOK, MessagesOwned
      <4> QED BY <4>1
    <3> QED BY <2>1, <3>1, StrtokInv DEF StrtokMessage
  <2>2. CASE StrtokNext(t)
    <3>1. got[t] # <<>>
      BY <2>2 DEF StrtokNext, Inv, MessagesOwned
    <3> QED BY <2>2, <3>1, StrtokInv DEF StrtokNext
  <2> QED BY <1>2, <2>1, <2>2, TakeInv, LoadInv, CarryOutInv
<1> QED BY <1>1, <1>2 DEF Next

LEMMA Invariance == Spec => []Inv
  BY InitInv, StepInv, PTL DEF Spec

(* The static pointer of strtok, the fields and the history keep their     *)
(* types: no thread gets more than fields of messages that were taken.     *)
THEOREM TypeCorrect == Spec => []TypeOK
<1>1. Inv => TypeOK
  BY DEF Inv
<1> QED BY <1>1, Invariance, PTL

(* The first strtok of processJob and run_server gives the request its own *)
(* name, id or user, however the calls of the threads interleave, and a    *)
(* first field is never handed out by a later strtok.                      *)
THEOREM FirstFieldsCorrect == Spec => []FirstFieldsOwn
<1>1. Inv => FirstFieldsOwn
  BY DEF Inv
<1> QED BY <1>1, Invariance, PTL

(* Only a strtok of another thread between two of its own can make a       *)
(* thread read fields that are not its message's: nothing earlier requests *)
(* have left in the pointer does, nor any missing field.                   *)
THEOREM AloneParsesRight == Spec => []OwnFieldsUnlessInterrupted
<1>1. Inv => OwnFieldsUnlessInterrupted
  BY DEF Inv
<1> QED BY <1>1, Invariance, PTL
===============================================================================
