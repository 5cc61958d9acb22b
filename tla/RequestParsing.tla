----------------------------- MODULE RequestParsing -----------------------------
(***************************************************************************)
(* How requests are taken apart: processJob on every job thread (ANCREATE, *)
(* ANBID) and run_server on the main thread (LOGIN) call strtok, which     *)
(* remembers where it is in one static pointer and puts a 0 behind each    *)
(* field.  The job threads hold no lock; buffer_lock, which the main       *)
(* thread holds, excludes only client threads.                             *)
(*                                                                         *)
(* The text of a field is left out: a field is a message and a number.     *)
(* Bound: MaxMessages messages are taken.                                  *)
(***************************************************************************)
EXTENDS Integers, SequencesExt

CONSTANTS JobThreads, Main,
          NoMessage,   \* a thread that is not parsing
          MaxMessages

ASSUME RequestParsingAssumption ==
  Main \notin JobThreads /\ MaxMessages \in Nat

Threads == JobThreads \cup {Main}
Kinds(t) == IF t = Main THEN {"LOGIN"} ELSE {"ANCREATE", "ANBID"}
Needed(kind) == IF kind = "ANCREATE" THEN 3 ELSE 2

(* A message with all its fields, some of them or, without a body, none.   *)
Messages == [thread : Threads, n : 1..MaxMessages,
             kind : {"LOGIN", "ANCREATE", "ANBID"}, length : 0..3]
Field(m, k) == [message |-> m, number |-> k]
Fields == [message : Messages, number : 1..4]
Nothing == [message |-> NoMessage, number |-> 0]   \* the NULL of strtok
ASSUME NoMessageAssumption == NoMessage \notin Messages

VARIABLES
  olds,    \* the static pointer of strtok: the field it points to, the one
           \* after the last for the end of a message
  cut,     \* the fields with a 0 behind them instead of a line break
  message, \* what each thread is taking apart
  got,     \* the fields it has got
  at,      \* the pointer strtok(NULL) has read, on each thread
  taken,   \* messages taken
  alone,   \* history: no other strtok has moved the pointer in the meantime
  died

vars == <<olds, cut, message, got, at, taken, alone, died>>

Init ==
  /\ olds = Nothing /\ cut = {}
  /\ message = [t \in Threads |-> NoMessage] /\ got = [t \in Threads |-> <<>>]
  /\ at = [t \in Threads |-> Nothing] /\ taken = 0
  /\ alone = [t \in Threads |-> TRUE] /\ died = FALSE

Parsing(t) == message[t] # NoMessage /\ Len(got[t]) < Needed(message[t].kind)
Parsed(t) == message[t] # NoMessage /\ Len(got[t]) = Needed(message[t].kind)

(* calloc and strcpy: every message is in memory of its own, and stays.    *)
Take(t) ==
  /\ message[t] = NoMessage /\ taken < MaxMessages
  /\ \E kind \in Kinds(t), length \in 0..3 :
       /\ length <= Needed(kind)
       /\ message' = [message EXCEPT ![t] =
                        [thread |-> t, n |-> taken + 1, kind |-> kind, length |-> length]]
  /\ taken' = taken + 1
  /\ alone' = [alone EXCEPT ![t] = TRUE]
  /\ UNCHANGED <<olds, cut, got, at, died>>
-------------------------------------------------------------------------------
(* strtok from the start of field f: the field, unless it is the end of    *)
(* the message; the pointer moves to the next field, or, where a 0 stands  *)
(* already, to the end.                                                    *)
End(m) == Field(m, m.length + 1)
(* Mutant: the end of a message is not looked for. *)
AtEndNever(f) == f = Nothing
AtEnd(f) == f = Nothing \/ f = End(f.message)
EndsWithZero(f) == f \in cut \/ f.number = f.message.length

(* A NULL in the hands of atoi.  An item name, a user name or a password   *)
(* may be NULL here; what becomes of it, see CreateAuction and Sessions.   *)
NullBreaks(t) ==
  \/ message[t].kind = "ANBID"
  \/ message[t].kind = "ANCREATE" /\ Len(got[t]) > 0

Strtok(t, f) ==
  /\ got' = [got EXCEPT ![t] = Append(@, IF AtEnd(f) THEN Nothing ELSE f)]
  /\ olds' = IF AtEnd(f) THEN f
             ELSE IF EndsWithZero(f) THEN End(f.message)
             ELSE Field(f.message, f.number + 1)
  /\ cut' = IF AtEnd(f) THEN cut ELSE cut \cup {f}
  /\ died' = (AtEnd(f) /\ NullBreaks(t))
  /\ alone' = [u \in Threads |-> alone[u] /\ (u = t \/ got[u] = <<>>)]
  /\ UNCHANGED <<message, taken>>

(* Mutant: messages are taken apart as one stream, from where the last     *)
(* call stopped.                                                           *)
StrtokMessageContinues(t) ==
  /\ Parsing(t) /\ got[t] = <<>>
  /\ Strtok(t, IF AtEnd(olds) THEN Field(message[t], 1) ELSE olds)
  /\ UNCHANGED at

(* strtok(messageBuffer, "\r\n") *)
StrtokMessage(t) ==
  /\ Parsing(t) /\ got[t] = <<>>
  /\ Strtok(t, Field(message[t], 1))
  /\ UNCHANGED at

(* strtok(NULL, "\r\n"): it reads the pointer, and goes on from there. *)
StrtokLoad(t) ==
  /\ Parsing(t) /\ got[t] # <<>> /\ at[t] = Nothing
  /\ at' = [at EXCEPT ![t] = olds]
  /\ UNCHANGED <<olds, cut, message, got, taken, alone, died>>

StrtokNext(t) ==
  /\ Parsing(t) /\ at[t] # Nothing
  /\ Strtok(t, at[t])
  /\ at' = [at EXCEPT ![t] = Nothing]

(* The request goes on to the lists; an item without a name dies there.    *)
CarryOut(t) ==
  /\ Parsed(t)
  /\ died' = (message[t].kind = "ANCREATE" /\ got[t][1] = Nothing)
  /\ message' = [message EXCEPT ![t] = NoMessage]
  /\ got' = [got EXCEPT ![t] = <<>>]
  /\ UNCHANGED <<olds, cut, at, taken, alone>>
-------------------------------------------------------------------------------
Next ==
  /\ ~died
  /\ \E t \in Threads :
       Take(t) \/ StrtokMessage(t) \/ StrtokLoad(t) \/ StrtokNext(t) \/ CarryOut(t)

Spec == Init /\ [][Next]_vars
-------------------------------------------------------------------------------
(* Every variable has its type. *)
TypeOK ==
  /\ olds \in Fields \cup {Nothing} /\ cut \subseteq Fields
  /\ message \in [Threads -> Messages \cup {NoMessage}]
  /\ got \in [Threads -> Seq(Fields \cup {Nothing})]
  /\ at \in [Threads -> Fields \cup {Nothing}]
  /\ taken \in 0..MaxMessages
  /\ alone \in [Threads -> BOOLEAN] /\ died \in BOOLEAN

(* Item names, auction ids and user names are those of the request itself, *)
(* and are never taken for the price, the bid or the password of another.  *)
FirstFieldsOwn ==
  \A t \in Threads : \A i \in DOMAIN got[t] :
    i = 1 \/ got[t][i].number = 1 =>
      got[t][i] \in {Nothing, Field(message[t], i)} /\ i = 1

(* Requests are taken apart correctly one at a time: a thread gets the     *)
(* fields of its own message, in order, whatever earlier messages left in  *)
(* the pointer, unless another strtok falls between its own.               *)
OwnFieldsUnlessInterrupted ==
  \A t \in Threads : \A i \in DOMAIN got[t] :
    alone[t] => got[t][i] = IF i <= message[t].length THEN Field(message[t], i) ELSE Nothing

===============================================================================
