---------------------------- MODULE DriversProofs ----------------------------
(***************************************************************************)
(* What is proved of the workers' requests (Requests), of the life of the  *)
(* class drivers (DriverLife), of the input reports of the HID driver      *)
(* (HidEvents) and of the transfers of SPI and SDIO (Transfers), for any   *)
(* workers, errnos, cports, nodes, descriptors, cards and bounds; the      *)
(* handlers and the drivers are those of the code.                         *)
(***************************************************************************)
EXTENDS Requests, DriverLife, HidEvents, Transfers, FiniteSetTheorems, WellFoundedInduction,
        TLAPS

-----------------------------------------------------------------------------
(* Sequences.                                                              *)

LEMMA SameSequence ==
  ASSUME NEW S, NEW s \in Seq(S), NEW t \in Seq(S), Len(s) = Len(t),
         \A i \in 1..Len(s) : s[i] = t[i]
  PROVE  s = t
  OBVIOUS

LEMMA SuffixFacts ==
  ASSUME NEW S, NEW s \in Seq(S), NEW i \in 1..Len(s) + 1, NEW t, t = SubSeq(s, i, Len(s))
  PROVE  /\ t = <<>> => i = Len(s) + 1
         /\ t # <<>> => i \in 1..Len(s) /\ Head(t) = s[i] /\ Tail(t) = SubSeq(s, i + 1, Len(s))
<1>1. t \in Seq(S) /\ Len(t) = Len(s) + 1 - i
  OBVIOUS
<1>2. \A j \in 1..Len(t) : t[j] = s[i + j - 1]
  OBVIOUS
<1>3. t = <<>> => i = Len(s) + 1
  BY <1>1
<1>4. ASSUME t # <<>>
      PROVE  i \in 1..Len(s) /\ Head(t) = s[i] /\ Tail(t) = SubSeq(s, i + 1, Len(s))
  <2>1. Len(t) > 0 /\ i \in 1..Len(s)
    BY <1>1, <1>4
  <2>2. Head(t) = s[i]
    BY <1>1, <1>2, <2>1
  <2>3. Tail(t) \in Seq(S) /\ Len(Tail(t)) = Len(s) - i
        /\ \A j \in 1..Len(Tail(t)) : Tail(t)[j] = t[j + 1]
    BY <1>1, <2>1, <1>4
  <2>4. \A j \in 1..Len(Tail(t)) : Tail(t)[j] = s[i + j]
    BY <1>1, <1>2, <2>1, <2>3
  <2>5. SubSeq(s, i + 1, Len(s)) \in Seq(S) /\ Len(SubSeq(s, i + 1, Len(s))) = Len(s) - i
        /\ \A j \in 1..Len(s) - i : SubSeq(s, i + 1, Len(s))[j] = s[i + j]
    BY <2>1
  <2>6. Tail(t) = SubSeq(s, i + 1, Len(s))
    <3> DEFINE u == Tail(t)
               v == SubSeq(s, i + 1, Len(s))
    <3>1. u \in Seq(S) /\ v \in Seq(S) /\ Len(u) = Len(v)
      BY <2>3, <2>5
    <3>2. \A j \in 1..Len(u) : u[j] = v[j]
      BY <2>3, <2>4, <2>5
    <3> HIDE DEF u, v
    <3>3. u = v
      BY <3>1, <3>2, SameSequence
    <3> QED
      BY <3>3 DEF u, v
  <2> QED
    BY <2>1, <2>2, <2>6
<1> QED
  BY <1>3, <1>4

LEMMA Joined ==
  ASSUME NEW S, NEW p \in Seq(S), NEW q \in Seq(S), NEW r \in Seq(S), Len(r) = Len(p) + Len(q),
         \A i \in 1..Len(p) : r[i] = p[i], \A i \in 1..Len(q) : r[Len(p) + i] = q[i]
  PROVE  p \o q = r
<1>1. p \o q \in Seq(S) /\ Len(p \o q) = Len(p) + Len(q) /\ Len(p) \in Nat /\ Len(q) \in Nat
  OBVIOUS
<1>2. ASSUME NEW i \in 1..Len(p \o q) PROVE (p \o q)[i] = r[i]
  <2>1. CASE i \in 1..Len(p)
    BY <1>1, <2>1
  <2>2. CASE i \notin 1..Len(p)
    <3>1. i - Len(p) \in 1..Len(q) /\ i = Len(p) + (i - Len(p)) /\ (p \o q)[i] = q[i - Len(p)]
      BY <1>1, <2>2
    <3> QED
      BY <3>1
  <2> QED
    BY <2>1, <2>2
<1> QED
  BY <1>1, <1>2, SameSequence

(* A sequence made of two, written out.                                    *)
LEMMA Join12 ==
  ASSUME NEW a, NEW b, NEW c
  PROVE  <<a>> \o <<b, c>> = <<a, b, c>>
<1> DEFINE p == <<a>>
           q == <<b, c>>
           r == <<a, b, c>>
           S == {a, b, c}
<1>1. /\ p \in Seq(S) /\ Len(p) = 1 /\ p[1] = a
  OBVIOUS
<1>2. /\ q \in Seq(S) /\ Len(q) = 2 /\ q[1] = b /\ q[2] = c
  OBVIOUS
<1>3. /\ r \in Seq(S) /\ Len(r) = 3
      /\ r[1] = a /\ r[2] = b /\ r[3] = c
  OBVIOUS
<1> HIDE DEF p, q, r, S
<1>4. /\ \A i \in 1..Len(p) : r[i] = p[i]
      /\ \A i \in 1..Len(q) : r[Len(p) + i] = q[i]
  BY <1>1, <1>2, <1>3
<1>5. Len(r) = Len(p) + Len(q)
  BY <1>1, <1>2, <1>3
<1>6. p \o q = r
  BY <1>1, <1>2, <1>3, <1>4, <1>5, Joined
<1> QED
  BY <1>6 DEF p, q, r

LEMMA Join13 ==
  ASSUME NEW a, NEW b, NEW c, NEW d
  PROVE  <<a>> \o <<b, c, d>> = <<a, b, c, d>>
<1> DEFINE p == <<a>>
           q == <<b, c, d>>
           r == <<a, b, c, d>>
           S == {a, b, c, d}
<1>1. /\ p \in Seq(S) /\ Len(p) = 1 /\ p[1] = a
  OBVIOUS
<1>2. /\ q \in Seq(S) /\ Len(q) = 3 /\ q[1] = b /\ q[2] = c /\ q[3] = d
  OBVIOUS
<1>3. /\ r \in Seq(S) /\ Len(r) = 4
      /\ r[1] = a /\ r[2] = b /\ r[3] = c /\ r[4] = d
  OBVIOUS
<1> HIDE DEF p, q, r, S
<1>4. /\ \A i \in 1..Len(p) : r[i] = p[i]
      /\ \A i \in 1..Len(q) : r[Len(p) + i] = q[i]
  BY <1>1, <1>2, <1>3
<1>5. Len(r) = Len(p) + Len(q)
  BY <1>1, <1>2, <1>3
<1>6. p \o q = r
  BY <1>1, <1>2, <1>3, <1>4, <1>5, Joined
<1> QED
  BY <1>6 DEF p, q, r

LEMMA Join22 ==
  ASSUME NEW a, NEW b, NEW c, NEW d
  PROVE  <<a, b>> \o <<c, d>> = <<a, b, c, d>>
<1> DEFINE p == <<a, b>>
           q == <<c, d>>
           r == <<a, b, c, d>>
           S == {a, b, c, d}
<1>1. /\ p \in Seq(S) /\ Len(p) = 2 /\ p[1] = a /\ p[2] = b
  OBVIOUS
<1>2. /\ q \in Seq(S) /\ Len(q) = 2 /\ q[1] = c /\ q[2] = d
  OBVIOUS
<1>3. /\ r \in Seq(S) /\ Len(r) = 4
      /\ r[1] = a /\ r[2] = b /\ r[3] = c /\ r[4] = d
  OBVIOUS
<1> HIDE DEF p, q, r, S
<1>4. /\ \A i \in 1..Len(p) : r[i] = p[i]
      /\ \A i \in 1..Len(q) : r[Len(p) + i] = q[i]
  BY <1>1, <1>2, <1>3
<1>5. Len(r) = Len(p) + Len(q)
  BY <1>1, <1>2, <1>3
<1>6. p \o q = r
  BY <1>1, <1>2, <1>3, <1>4, <1>5, Joined
<1> QED
  BY <1>6 DEF p, q, r

LEMMA Join31 ==
  ASSUME NEW a, NEW b, NEW c, NEW d
  PROVE  <<a, b, c>> \o <<d>> = <<a, b, c, d>>
<1> DEFINE p == <<a, b, c>>
           q == <<d>>
           r == <<a, b, c, d>>
           S == {a, b, c, d}
<1>1. /\ p \in Seq(S) /\ Len(p) = 3 /\ p[1] = a /\ p[2] = b /\ p[3] = c
  OBVIOUS
<1>2. /\ q \in Seq(S) /\ Len(q) = 1 /\ q[1] = d
  OBVIOUS
<1>3. /\ r \in Seq(S) /\ Len(r) = 4
      /\ r[1] = a /\ r[2] = b /\ r[3] = c /\ r[4] = d
  OBVIOUS
<1> HIDE DEF p, q, r, S
<1>4. /\ \A i \in 1..Len(p) : r[i] = p[i]
      /\ \A i \in 1..Len(q) : r[Len(p) + i] = q[i]
  BY <1>1, <1>2, <1>3
<1>5. Len(r) = Len(p) + Len(q)
  BY <1>1, <1>2, <1>3
<1>6. p \o q = r
  BY <1>1, <1>2, <1>3, <1>4, <1>5, Joined
<1> QED
  BY <1>6 DEF p, q, r

LEMMA Join32 ==
  ASSUME NEW a, NEW b, NEW c, NEW d, NEW e
  PROVE  <<a, b, c>> \o <<d, e>> = <<a, b, c, d, e>>
<1> DEFINE p == <<a, b, c>>
           q == <<d, e>>
           r == <<a, b, c, d, e>>
           S == {a, b, c, d, e}
<1>1. /\ p \in Seq(S) /\ Len(p) = 3 /\ p[1] = a /\ p[2] = b /\ p[3] = c
  OBVIOUS
<1>2. /\ q \in Seq(S) /\ Len(q) = 2 /\ q[1] = d /\ q[2] = e
  OBVIOUS
<1>3. /\ r \in Seq(S) /\ Len(r) = 5
      /\ r[1] = a /\ r[2] = b /\ r[3] = c /\ r[4] = d /\ r[5] = e
  OBVIOUS
<1> HIDE DEF p, q, r, S
<1>4. /\ \A i \in 1..Len(p) : r[i] = p[i]
      /\ \A i \in 1..Len(q) : r[Len(p) + i] = q[i]
  BY <1>1, <1>2, <1>3
<1>5. Len(r) = Len(p) + Len(q)
  BY <1>1, <1>2, <1>3
<1>6. p \o q = r
  BY <1>1, <1>2, <1>3, <1>4, <1>5, Joined
<1> QED
  BY <1>6 DEF p, q, r

LEMMA Join41 ==
  ASSUME NEW a, NEW b, NEW c, NEW d, NEW e
  PROVE  <<a, b, c, d>> \o <<e>> = <<a, b, c, d, e>>
<1> DEFINE p == <<a, b, c, d>>
           q == <<e>>
           r == <<a, b, c, d, e>>
           S == {a, b, c, d, e}
<1>1. /\ p \in Seq(S) /\ Len(p) = 4 /\ p[1] = a /\ p[2] = b /\ p[3] = c /\ p[4] = d
  OBVIOUS
<1>2. /\ q \in Seq(S) /\ Len(q) = 1 /\ q[1] = e
  OBVIOUS
<1>3. /\ r \in Seq(S) /\ Len(r) = 5
      /\ r[1] = a /\ r[2] = b /\ r[3] = c /\ r[4] = d /\ r[5] = e
  OBVIOUS
<1> HIDE DEF p, q, r, S
<1>4. /\ \A i \in 1..Len(p) : r[i] = p[i]
      /\ \A i \in 1..Len(q) : r[Len(p) + i] = q[i]
  BY <1>1, <1>2, <1>3
<1>5. Len(r) = Len(p) + Len(q)
  BY <1>1, <1>2, <1>3
<1>6. p \o q = r
  BY <1>1, <1>2, <1>3, <1>4, <1>5, Joined
<1> QED
  BY <1>6 DEF p, q, r

-----------------------------------------------------------------------------
(* The out-of-memory answer.                                               *)

(* Undisturbed, at most one worker is between filling and sending the      *)
(* static header, and the header has the id of the request it answers.     *)
HeaderInv ==
  ~oom_raced =>
    /\ \A v, w \in Workers : task[v].pc = "oom" /\ task[w].pc = "oom" => v = w
    /\ \A w \in Workers : task[w].pc = "oom" => oom_hdr = task[w].id

TasksInv ==
  /\ task = [w \in Workers |-> task[w]] /\ last = [w \in Workers |-> last[w]]
  /\ \A w \in Workers : DOMAIN task[w] = DOMAIN Idle
  /\ oom_raced \in BOOLEAN

AnswerInv == TasksInv /\ HeaderInv /\ WrongIdNeedsRace


LEMMA IdleFacts ==
  /\ {"pc", "op", "id", "answer", "held", "todo", "result"} \subseteq DOMAIN Idle
  /\ Idle.pc = "idle"
  BY DEF Idle

(* What a task becomes at the end of a handler.                            *)
LEMMA ReturnedFacts ==
  ASSUME NEW t, DOMAIN t = DOMAIN Idle, NEW code, NEW frees
  PROVE  /\ DOMAIN Returned(t, code, frees) = DOMAIN Idle
         /\ Returned(t, code, frees).pc # "oom"
  BY IdleFacts DEF Returned

(* A step of worker w that gives it a task outside the static header's     *)
(* answer, and leaves the header and what the host received alone.         *)
LEMMA ElseStep ==
  ASSUME AnswerInv, NEW w \in Workers, NEW t, Becomes(w, t),
         DOMAIN t = DOMAIN Idle, t.pc # "oom", oom_hdr' = oom_hdr, oom_raced' = oom_raced,
         \/ last' = last
         \/ \E a : a.id = a.asked /\ last' = [last EXCEPT ![w] = a]
  PROVE  AnswerInv'
<1>1. /\ task' = [v \in Workers |-> task'[v]] /\ task'[w] = t
      /\ \A v \in Workers : v # w => task'[v] = task[v]
  BY DEF AnswerInv, TasksInv, Becomes
<1>2. last' = [v \in Workers |-> last'[v]]
  BY DEF AnswerInv, TasksInv
<1>3. TasksInv'
  BY <1>1, <1>2 DEF AnswerInv, TasksInv
<1>4. HeaderInv'
  BY <1>1 DEF AnswerInv, HeaderInv
<1>5. WrongIdNeedsRace'
  BY DEF AnswerInv, TasksInv, WrongIdNeedsRace
<1> QED
  BY <1>3, <1>4, <1>5 DEF AnswerInv

LEMMA TakeStep ==
  ASSUME AnswerInv, NEW w \in Workers,
         TakePing(w) \/ TakeUnknown(w) \/ TakeRequest(w)
  PROVE  AnswerInv'
<1>1. PICK t : Take(w, t) /\ DOMAIN t = DOMAIN Idle /\ t.pc # "oom"
  <2> DEFINE Fresh(t) == Take(w, t) /\ DOMAIN t = DOMAIN Idle /\ t.pc # "oom"
  <2>1. CASE TakePing(w)
    <3>1. PICK id : Take(w, [Idle EXCEPT !.pc = "answer", !.op = "ping", !.id = id,
                                         !.answer = TRUE, !.result = "SUCCESS"])
      BY <2>1 DEF TakePing
    <3>2. Fresh([Idle EXCEPT !.pc = "answer", !.op = "ping", !.id = id,
                             !.answer = TRUE, !.result = "SUCCESS"])
      BY <3>1, IdleFacts
    <3> QED
      BY <3>2
  <2>2. CASE TakeUnknown(w)
    <3>1. PICK id : Take(w, [Idle EXCEPT !.pc = "answer", !.op = "unknown", !.id = id,
                                         !.answer = TRUE, !.result = "INVALID"])
      BY <2>2 DEF TakeUnknown
    <3>2. Fresh([Idle EXCEPT !.pc = "answer", !.op = "unknown", !.id = id,
                             !.answer = TRUE, !.result = "INVALID"])
      BY <3>1, IdleFacts
    <3> QED
      BY <3>2
  <2>3. CASE TakeRequest(w)
    <3>1. PICK id, op, path : Take(w, [Idle EXCEPT !.pc = "run", !.op = op, !.todo = path,
                                                   !.id = id, !.answer = id # NoId])
      BY <2>3 DEF TakeRequest
    <3>2. Fresh([Idle EXCEPT !.pc = "run", !.op = op, !.todo = path,
                             !.id = id, !.answer = id # NoId])
      BY <3>1, IdleFacts
    <3> QED
      BY <3>2
  <2> QED
    BY <2>1, <2>2, <2>3
<1>2. \E a : a.id = a.asked /\ last' = [last EXCEPT ![w] = a]
  <2>1. NoAnswer.id = NoAnswer.asked
    BY DEF NoAnswer
  <2> QED
    BY <1>1, <2>1 DEF Take
<1> QED
  BY <1>1, <1>2, ElseStep DEF Take

(* The steps of a handler.                                                 *)
LEMMA HandlerStep ==
  ASSUME AnswerInv, NEW w \in Workers,
         \/ Require(w) \/ Check(w) \/ Store(w) \/ Release(w) \/ AllocResponse(w)
         \/ AllocBuffer(w) \/ CallDevice(w) \/ Finish(w)
  PROVE  AnswerInv'
<1>1. DOMAIN task[w] = DOMAIN Idle /\ task[w].pc = "run"
  BY DEF AnswerInv, TasksInv, Require, Check, Store, Release, AllocResponse, AllocBuffer,
         CallDevice, Finish, At, Running, FailsWith
<1>2. DOMAIN On(w) = DOMAIN Idle /\ On(w).pc = "run"
  BY <1>1, IdleFacts DEF On
<1> DEFINE Good(t) == DOMAIN t = DOMAIN Idle /\ t.pc # "oom"
<1>3. ASSUME NEW err, FailsWith(w, err) PROVE \E t : Good(t) /\ Becomes(w, t)
  <2> DEFINE u == [task[w] EXCEPT !.failed = TRUE]
  <2>1. DOMAIN u = DOMAIN Idle /\ u.pc = "run"
    BY <1>1, IdleFacts
  <2>2. Good([u EXCEPT !.todo = Tail(@)])
    BY <2>1, IdleFacts
  <2> HIDE DEF u
  <2>3. Good(Returned(u, CodeOf(Now(w), err), Now(w).frees))
    BY <2>1, ReturnedFacts
  <2>4. \/ Becomes(w, [u EXCEPT !.todo = Tail(@)])
        \/ Becomes(w, Returned(u, CodeOf(Now(w), err), Now(w).frees))
    BY <1>3 DEF FailsWith, u
  <2> QED
    BY <2>2, <2>3, <2>4
<1>4. \E t : Good(t) /\ Becomes(w, t)
  <2>1. CASE Require(w)
    BY <2>1, <1>1, <1>2, ReturnedFacts DEF Require
  <2>2. CASE Check(w)
    BY <2>2, <1>1, <1>2, ReturnedFacts DEF Check
  <2>3. CASE Store(w)
    BY <2>3, <1>2, IdleFacts DEF Store
  <2>4. CASE Release(w)
    BY <2>4, <1>2, IdleFacts DEF Release
  <2>5. CASE AllocResponse(w)
    BY <2>5, <1>2, <1>3, IdleFacts DEF AllocResponse
  <2>6. CASE AllocBuffer(w)
    BY <2>6, <1>2, <1>3, IdleFacts DEF AllocBuffer
  <2>7. CASE CallDevice(w)
    BY <2>7, <1>2, <1>3, IdleFacts DEF CallDevice
  <2>8. CASE Finish(w)
    BY <2>8, <1>1, ReturnedFacts DEF Finish
  <2> QED
    BY <2>1, <2>2, <2>3, <2>4, <2>5, <2>6, <2>7, <2>8
<1>5. Quiet
  BY DEF Require, Check, Store, Release, AllocResponse, AllocBuffer, CallDevice, Finish, FailsWith
<1> QED
  BY <1>4, <1>5, ElseStep DEF Quiet

(* The answer is sent or lost: nothing but the static header's has an id   *)
(* of its own.                                                             *)
LEMMA SentStep ==
  ASSUME AnswerInv, NEW w \in Workers, NEW id, NEW result, NEW resp,
         Sent(w, id, result, resp), id = task[w].id
  PROVE  AnswerInv'
<1>1. PICK a : a.id = a.asked /\ last' = [last EXCEPT ![w] = a]
  BY DEF Sent
<1> QED
  BY <1>1, ElseStep, IdleFacts DEF Sent

LEMMA AnswerStep ==
  ASSUME AnswerInv, NEW w \in Workers,
         NetDown(w) \/ SendResponse(w) \/ FillOom(w) \/ SendOom(w)
  PROVE  AnswerInv'
<1>1. ASSUME Unsent(w) PROVE AnswerInv'
  BY <1>1, ElseStep, IdleFacts DEF Unsent
<1>2. CASE NetDown(w)
  BY <1>1, <1>2 DEF NetDown
<1>3. CASE SendResponse(w)
  BY <1>1, <1>3, SentStep DEF SendResponse
<1>4. CASE FillOom(w)
  <2>1. /\ task' = [v \in Workers |-> task'[v]]
        /\ task'[w] = [task[w] EXCEPT !.pc = "oom"]
        /\ \A v \in Workers : v # w => task'[v] = task[v]
    BY <1>4 DEF FillOom, Becomes, AnswerInv, TasksInv
  <2>2. DOMAIN task'[w] = DOMAIN Idle /\ task'[w].id = task[w].id
    BY <2>1, IdleFacts DEF AnswerInv, TasksInv
  <2>3. /\ oom_hdr' = task[w].id /\ last' = last
        /\ oom_raced' = (oom_raced \/ \E v \in Workers \ {w} : task[v].pc = "oom")
    BY <1>4 DEF FillOom, Filled
  <2>4. TasksInv'
    BY <2>1, <2>2, <2>3 DEF AnswerInv, TasksInv
  <2>5. HeaderInv'
    BY <2>1, <2>2, <2>3 DEF HeaderInv
  <2>6. WrongIdNeedsRace'
    BY <2>3 DEF AnswerInv, TasksInv, WrongIdNeedsRace
  <2> QED
    BY <2>4, <2>5, <2>6 DEF AnswerInv
<1>5. CASE SendOom(w)
  <2>1. CASE oom_raced
    <3>1. oom_raced' = oom_raced /\ oom_hdr' = oom_hdr /\ Becomes(w, Idle)
      BY <1>5 DEF SendOom, Sent, Unsent
    <3>2. last' = [v \in Workers |-> last'[v]]
      BY <1>5 DEF SendOom, Sent, Unsent, AnswerInv, TasksInv
    <3>3. TasksInv'
      BY <3>1, <3>2 DEF AnswerInv, TasksInv, Becomes
    <3> QED
      BY <2>1, <3>1, <3>3 DEF AnswerInv, HeaderInv, WrongIdNeedsRace
  <2>2. CASE ~oom_raced
    <3>1. oom_hdr = task[w].id
      BY <1>5, <2>2 DEF SendOom, AnswerInv, HeaderInv
    <3> QED
      BY <1>1, <1>5, <3>1, SentStep DEF SendOom
  <2> QED
    BY <2>1, <2>2
<1> QED
  BY <1>2, <1>3, <1>4, <1>5

(* A host only ever gets the answer to its own request, unless two workers *)
(* ran out of memory for an answer at once (greybus-core.c:826-846).       *)
THEOREM AnswerIsOwn == RequestsSpec => []WrongIdNeedsRace
<1>1. RequestsInit => AnswerInv
  <2> SUFFICES ASSUME RequestsInit PROVE AnswerInv
    OBVIOUS
  <2>1. TasksInv
    BY DEF RequestsInit, TasksInv
  <2>2. HeaderInv
    BY IdleFacts DEF RequestsInit, HeaderInv
  <2>3. WrongIdNeedsRace
    <3>1. NoAnswer.id = NoAnswer.asked
      BY DEF NoAnswer
    <3> QED
      BY <3>1 DEF RequestsInit, WrongIdNeedsRace
  <2> QED
    BY <2>1, <2>2, <2>3 DEF AnswerInv
<1>2. AnswerInv /\ [RequestsNext]_reqVars => AnswerInv'
  <2> SUFFICES ASSUME AnswerInv, [RequestsNext]_reqVars PROVE AnswerInv'
    OBVIOUS
  <2>1. CASE UNCHANGED reqVars
    BY <2>1 DEF reqVars, AnswerInv, TasksInv, HeaderInv, WrongIdNeedsRace
  <2>2. ASSUME NEW w \in Workers, RequestsStep(w) PROVE AnswerInv'
    <3>1. CASE ExitWorker(w)
      BY <3>1 DEF ExitWorker, AnswerInv, TasksInv, HeaderInv, WrongIdNeedsRace
    <3> QED
      BY <2>2, <3>1, TakeStep, HandlerStep, AnswerStep DEF RequestsStep
  <2> QED
    BY <2>1, <2>2 DEF RequestsNext
<1>3. AnswerInv => WrongIdNeedsRace
  BY DEF AnswerInv
<1> QED
  BY <1>1, <1>2, <1>3, PTL DEF RequestsSpec

-----------------------------------------------------------------------------
(* The handlers.                                                           *)

(* The steps that may make a handler return.                               *)
Fallible == {"need", "in", "alloc", "malloc", "read", "write"}

IsPath(path) == \E S : path \in Seq(S)

(* The buffers that a handler holds before the i-th step of its path.      *)
HeldAt(path, i) ==
  {path[k].what : k \in {k \in 1..i - 1 :
     /\ path[k].do = "malloc"
     /\ \A m \in k + 1..i - 1 : path[m].do = "free" => path[m].what # path[k].what}}

(* The device or the driver's variable has changed before the i-th step.   *)
ChangedAt(path, i) == \E k \in 1..i - 1 : path[k].do \in {"put", "write"}

(* The handlers that go on through a pointer nobody checked.               *)
Crashing == {<<"camera", "configure_streams">>, <<"spi", "device_config">>}

(* Whoever returns has freed what it held.                                 *)
Frees(path) ==
  /\ HeldAt(path, Len(path) + 1) = {}
  /\ \A i \in 1..Len(path) :
       path[i].do \in Fallible /\ path[i].code \notin {"ignored", "fault"} =>
         HeldAt(path, i) \subseteq path[i].frees

(* A failure is no success, and few handlers go on after one.              *)
Honest(path, name) ==
  \A i \in 1..Len(path) :
    /\ path[i].code # "SUCCESS"
    /\ path[i].code = "fault" => name \in Crashing
    /\ path[i].code \in {"ignored", "unless_ETIMEDOUT"} =>
         name \in Careless /\ path[i].do \notin {"need", "in"}

(* Nothing has changed when a step makes the handler return.               *)
AllOrNothing(path) ==
  \A i \in 1..Len(path) :
    path[i].do \in Fallible /\ path[i].code # "ignored" => ~ChangedAt(path, i)

Tidy(path, name) ==
  /\ IsPath(path)
  /\ Frees(path) /\ Honest(path, name)
  /\ name \in Untidy \/ AllOrNothing(path)

AreTidy(d, handlers) ==
  \A op \in DOMAIN handlers : \A path \in handlers[op] : Tidy(path, <<d, op>>)

-----------------------------------------------------------------------------
(* The handlers of the code, table by table.                               *)

Codes == {"INVALID", "UNKNOWN_ERROR", "NO_MEMORY", "NONEXISTENT", "errno"}
IsAsk(s) == s.do \in {"need", "in", "alloc", "read"} /\ s.code \in Codes
IsAct(s) ==
  \/ IsAsk(s)
  \/ s.do = "write" /\ s.code \in Codes
  \/ s.do = "put" /\ s.code = "never"

(* Whatever changes anything is the last step, and there are no buffers.   *)
Plain(path) ==
  /\ IsPath(path)
  /\ \A i \in 1..Len(path) : IsAct(path[i]) /\ (i < Len(path) => IsAsk(path[i]))

LEMMA StepFields ==
  ASSUME NEW what, NEW vals, NEW code, NEW step
  PROVE  /\ Need(what, code).do = "need" /\ Need(what, code).code = code
         /\ In(what, vals, code).do = "in" /\ In(what, vals, code).code = code
         /\ Put(what, vals).do = "put" /\ Put(what, vals).code = "never"
         /\ Alloc.do = "alloc" /\ Alloc.code = "NO_MEMORY"
         /\ TryAlloc.do = "alloc" /\ TryAlloc.code = "ignored"
         /\ MustAlloc.do = "alloc" /\ MustAlloc.code = "fault"
         /\ Reads(what, code).do = "read" /\ Reads(what, code).code = code
         /\ Writes(what, code).do = "write" /\ Writes(what, code).code = code
BY DEF Step, Need, In, Put, Alloc, TryAlloc, MustAlloc, Reads, Writes

LEMMA AskFacts ==
  /\ IsAsk(Alloc)
  /\ \A what, vals : \A code \in Codes :
       IsAsk(Need(what, code)) /\ IsAsk(In(what, vals, code)) /\ IsAsk(Reads(what, code))
BY StepFields DEF IsAsk, Codes

LEMMA ActFacts ==
  /\ IsAct(Alloc)
  /\ \A what, vals : \A code \in Codes :
       /\ IsAct(Need(what, code)) /\ IsAct(In(what, vals, code)) /\ IsAct(Reads(what, code))
       /\ IsAct(Writes(what, code)) /\ IsAct(Put(what, vals))
BY AskFacts, StepFields DEF IsAct

LEMMA PlainPath ==
  ASSUME NEW path, IsPath(path), IsAct(path[Len(path)]),
         \A i \in 1..Len(path) - 1 : IsAsk(path[i])
  PROVE  Plain(path)
<1>1. Len(path) \in Nat
  BY DEF IsPath
<1> QED
  BY <1>1 DEF Plain, IsAct

LEMMA PlainTuples ==
  ASSUME NEW a, IsAsk(a), NEW b, IsAsk(b), NEW c, IsAsk(c), NEW d, IsAsk(d), NEW s, IsAct(s)
  PROVE  /\ Plain(<<>>) /\ Plain(<<s>>) /\ Plain(<<a, s>>) /\ Plain(<<a, b, s>>)
         /\ Plain(<<a, b, c, s>>) /\ Plain(<<a, b, c, d, s>>)
<1>0. Plain(<<>>)
  <2>1. <<>> \in Seq({s})
    OBVIOUS
  <2> QED
    BY <2>1 DEF Plain, IsPath
<1>1. Plain(<<s>>)
  <2> DEFINE p == <<s>>
  <2>1. /\ p \in Seq({s}) /\ Len(p) = 1
        /\ p[1] = s
    OBVIOUS
  <2>2. \A i \in 1..Len(p) - 1 : FALSE
    BY <2>1
  <2>3. IsPath(p)
    BY <2>1 DEF IsPath
  <2> HIDE DEF p
  <2>4. Plain(p)
    BY <2>1, <2>2, <2>3, PlainPath
  <2> QED
    BY <2>4 DEF p
<1>2. Plain(<<a, s>>)
  <2> DEFINE p == <<a, s>>
  <2>1. /\ p \in Seq({a, s}) /\ Len(p) = 2
        /\ p[1] = a /\ p[2] = s
    OBVIOUS
  <2>2. \A i \in 1..Len(p) - 1 : i = 1
    BY <2>1
  <2>3. IsPath(p)
    BY <2>1 DEF IsPath
  <2> HIDE DEF p
  <2>4. Plain(p)
    BY <2>1, <2>2, <2>3, PlainPath
  <2> QED
    BY <2>4 DEF p
<1>3. Plain(<<a, b, s>>)
  <2> DEFINE p == <<a, b, s>>
  <2>1. /\ p \in Seq({a, b, s}) /\ Len(p) = 3
        /\ p[1] = a /\ p[2] = b /\ p[3] = s
    OBVIOUS
  <2>2. \A i \in 1..Len(p) - 1 : i = 1 \/ i = 2
    BY <2>1
  <2>3. IsPath(p)
    BY <2>1 DEF IsPath
  <2> HIDE DEF p
  <2>4. Plain(p)
    BY <2>1, <2>2, <2>3, PlainPath
  <2> QED
    BY <2>4 DEF p
<1>4. Plain(<<a, b, c, s>>)
  <2> DEFINE p == <<a, b, c, s>>
  <2>1. /\ p \in Seq({a, b, c, s}) /\ Len(p) = 4
        /\ p[1] = a /\ p[2] = b /\ p[3] = c /\ p[4] = s
    OBVIOUS
  <2>2. \A i \in 1..Len(p) - 1 : i = 1 \/ i = 2 \/ i = 3
    BY <2>1
  <2>3. IsPath(p)
    BY <2>1 DEF IsPath
  <2> HIDE DEF p
  <2>4. Plain(p)
    BY <2>1, <2>2, <2>3, PlainPath
  <2> QED
    BY <2>4 DEF p
<1>5. Plain(<<a, b, c, d, s>>)
  <2> DEFINE p == <<a, b, c, d, s>>
  <2>1. /\ p \in Seq({a, b, c, d, s}) /\ Len(p) = 5
        /\ p[1] = a /\ p[2] = b /\ p[3] = c /\ p[4] = d /\ p[5] = s
    OBVIOUS
  <2>2. \A i \in 1..Len(p) - 1 : i = 1 \/ i = 2 \/ i = 3 \/ i = 4
    BY <2>1
  <2>3. IsPath(p)
    BY <2>1 DEF IsPath
  <2> HIDE DEF p
  <2>4. Plain(p)
    BY <2>1, <2>2, <2>3, PlainPath
  <2> QED
    BY <2>4 DEF p
<1> QED
  BY <1>0, <1>1, <1>2, <1>3, <1>4, <1>5

LEMMA PlainAfter ==
  ASSUME NEW p, IsPath(p), \A i \in 1..Len(p) : IsAsk(p[i]), NEW q, Plain(q)
  PROVE  Plain(p \o q)
<1>1. PICK S : p \in Seq(S)
  BY DEF IsPath
<1>2. PICK T : q \in Seq(T)
  BY DEF Plain, IsPath
<1>3. p \in Seq(S \cup T) /\ q \in Seq(S \cup T)
  BY <1>1, <1>2
<1>4. p \o q \in Seq(S \cup T) /\ Len(p \o q) = Len(p) + Len(q) /\ Len(p) \in Nat /\ Len(q) \in Nat
  BY <1>3
<1>5. ASSUME NEW i \in 1..Len(p \o q)
      PROVE  \/ i \in 1..Len(p) /\ (p \o q)[i] = p[i]
             \/ i - Len(p) \in 1..Len(q) /\ (p \o q)[i] = q[i - Len(p)]
  BY <1>3, <1>4
<1>6. \A i \in 1..Len(p \o q) : IsAct((p \o q)[i]) /\ (i < Len(p \o q) => IsAsk((p \o q)[i]))
  BY <1>4, <1>5 DEF Plain, IsAct
<1> QED
  BY <1>4, <1>6 DEF Plain, IsPath

LEMMA NoBuffers ==
  ASSUME NEW path, \A i \in 1..Len(path) : path[i].do # "malloc", IsPath(path)
  PROVE  Frees(path)
<1>1. Len(path) \in Nat
  BY DEF IsPath
<1> QED
  BY <1>1 DEF Frees, HeldAt

LEMMA PlainIsTidy ==
  ASSUME NEW path, Plain(path), NEW name
  PROVE  Tidy(path, name)
<1>1. IsPath(path) /\ Len(path) \in Nat
  BY DEF Plain, IsPath
<1>2. \A i \in 1..Len(path) : IsAct(path[i]) /\ (i < Len(path) => IsAsk(path[i]))
  BY DEF Plain
<1>3. ASSUME NEW s, IsAct(s)
      PROVE  s.do # "malloc" /\ s.code \notin {"SUCCESS", "fault", "ignored", "unless_ETIMEDOUT"}
  BY <1>3 DEF IsAct, IsAsk, Codes
<1>4. Frees(path)
  BY <1>1, <1>2, <1>3, NoBuffers
<1>5. Honest(path, name)
  BY <1>2, <1>3 DEF Honest
<1>6. AllOrNothing(path)
  <2>1. ASSUME NEW i \in 1..Len(path), NEW k \in 1..i - 1
        PROVE  path[k].do \notin {"put", "write"}
    BY <1>1, <1>2 DEF IsAsk
  <2> QED
    BY <2>1 DEF AllOrNothing, ChangedAt
<1> QED
  BY <1>1, <1>4, <1>5, <1>6 DEF Tidy

LEMMA VersionPlain == \A path \in VersionHandler \cup EmptyHandler : Plain(path)
  BY AskFacts, ActFacts, PlainTuples DEF VersionHandler, EmptyHandler

LEMMA LightsTidy == AreTidy("lights", gb_lights_handlers)
<1>1. {"INVALID", "errno", "NO_MEMORY"} \subseteq Codes
  BY DEF Codes
<1>2. ASSUME NEW call, NEW path \in Ask(call) \cup Tell(call) PROVE Plain(path)
  BY <1>1, <1>2, AskFacts, ActFacts, PlainTuples DEF Ask, Tell
<1>3. \A path \in gb_lights_get_lights : Plain(path)
  BY <1>1, AskFacts, ActFacts, PlainTuples DEF gb_lights_get_lights
<1>4. ASSUME NEW op \in DOMAIN gb_lights_handlers, NEW path \in gb_lights_handlers[op]
      PROVE  Plain(path)
  BY <1>2, <1>3, VersionPlain
     DEF gb_lights_handlers, gb_lights_protocol_version, gb_lights_get_light_config,
         gb_lights_get_channel_config, gb_lights_get_channel_flash_config,
         gb_lights_set_brightness, gb_lights_set_blink, gb_lights_set_color,
         gb_lights_set_fade, gb_lights_set_flash_intensity, gb_lights_set_flash_strobe,
         gb_lights_set_flash_timeout, gb_lights_get_flash_fault
<1> QED
  BY <1>4, PlainIsTidy DEF AreTidy

(* A step that uses no buffer, and what it may ignore or crash on.         *)
IsSound(s, name) ==
  /\ s.do # "malloc" /\ s.code # "SUCCESS"
  /\ s.code = "fault" => name \in Crashing
  /\ s.code \in {"ignored", "unless_ETIMEDOUT"} =>
       name \in Careless /\ s.do \notin {"need", "in"}

Changing(s) == s.do \in {"put", "write"}

LEMMA SoundIsTidy ==
  ASSUME NEW path, IsPath(path), NEW name, \A i \in 1..Len(path) : IsSound(path[i], name),
         \/ name \in Untidy
         \/ \A i \in 1..Len(path) - 1 : ~Changing(path[i])
         \/ \A i \in 2..Len(path) : path[i].code = "ignored"
  PROVE  Tidy(path, name)
<1>1. Len(path) \in Nat
  BY DEF IsPath
<1>2. Frees(path)
  BY NoBuffers DEF IsSound
<1>3. Honest(path, name)
  BY DEF Honest, IsSound
<1>4. name \in Untidy \/ AllOrNothing(path)
  <2>1. CASE \A i \in 1..Len(path) - 1 : ~Changing(path[i])
    BY <1>1, <2>1 DEF AllOrNothing, ChangedAt, Changing
  <2>2. CASE \A i \in 2..Len(path) : path[i].code = "ignored"
    BY <1>1, <2>2 DEF AllOrNothing, ChangedAt
  <2> QED
    BY <2>1, <2>2
<1> QED
  BY <1>2, <1>3, <1>4 DEF Tidy

LEMMA ActIsSound == ASSUME NEW s, IsAct(s), NEW name PROVE IsSound(s, name)
  BY DEF IsAct, IsAsk, IsSound, Codes

LEMMA OneTidy ==
  ASSUME NEW name, NEW a,
         \A s \in {a} : IsSound(s, name)
  PROVE  Tidy(<<a>>, name)
<1> DEFINE p == <<a>>
<1>1. /\ p \in Seq({a}) /\ Len(p) = 1
      /\ p[1] = a
  OBVIOUS
<1>2. IsPath(p)
  BY <1>1 DEF IsPath
<1> HIDE DEF p
<1>3. \A i \in 1..Len(p) : IsSound(p[i], name)
  BY <1>1
<1>4. \A i \in 1..Len(p) - 1 : ~Changing(p[i])
  BY <1>1
<1>5. Tidy(p, name)
  BY <1>2, <1>3, <1>4, SoundIsTidy
<1> QED
  BY <1>5 DEF p

LEMMA ThreeTidy ==
  ASSUME NEW name, NEW a, NEW b, NEW c,
         \A s \in {a, b, c} : IsSound(s, name),
         \/ name \in Untidy
         \/ \A s \in {a, b} : ~Changing(s)
         \/ \A s \in {b, c} : s.code = "ignored"
  PROVE  Tidy(<<a, b, c>>, name)
<1> DEFINE p == <<a, b, c>>
<1>1. /\ p \in Seq({a, b, c}) /\ Len(p) = 3
      /\ p[1] = a /\ p[2] = b /\ p[3] = c
  OBVIOUS
<1>2. IsPath(p)
  BY <1>1 DEF IsPath
<1> HIDE DEF p
<1>3. \A i \in 1..Len(p) : IsSound(p[i], name)
  BY <1>1
<1>4. \/ name \in Untidy
      \/ \A i \in 1..Len(p) - 1 : ~Changing(p[i])
      \/ \A i \in 2..Len(p) : p[i].code = "ignored"
  BY <1>1
<1>5. Tidy(p, name)
  BY <1>2, <1>3, <1>4, SoundIsTidy
<1> QED
  BY <1>5 DEF p

LEMMA FourTidy ==
  ASSUME NEW name, NEW a, NEW b, NEW c, NEW d,
         \A s \in {a, b, c, d} : IsSound(s, name),
         \/ name \in Untidy
         \/ \A s \in {a, b, c} : ~Changing(s)
         \/ \A s \in {b, c, d} : s.code = "ignored"
  PROVE  Tidy(<<a, b, c, d>>, name)
<1> DEFINE p == <<a, b, c, d>>
<1>1. /\ p \in Seq({a, b, c, d}) /\ Len(p) = 4
      /\ p[1] = a /\ p[2] = b /\ p[3] = c /\ p[4] = d
  OBVIOUS
<1>2. IsPath(p)
  BY <1>1 DEF IsPath
<1> HIDE DEF p
<1>3. \A i \in 1..Len(p) : IsSound(p[i], name)
  BY <1>1
<1>4. \/ name \in Untidy
      \/ \A i \in 1..Len(p) - 1 : ~Changing(p[i])
      \/ \A i \in 2..Len(p) : p[i].code = "ignored"
  BY <1>1
<1>5. Tidy(p, name)
  BY <1>2, <1>3, <1>4, SoundIsTidy
<1> QED
  BY <1>5 DEF p

LEMMA FiveTidy ==
  ASSUME NEW name, NEW a, NEW b, NEW c, NEW d, NEW e,
         \A s \in {a, b, c, d, e} : IsSound(s, name),
         \/ name \in Untidy
         \/ \A s \in {a, b, c, d} : ~Changing(s)
         \/ \A s \in {b, c, d, e} : s.code = "ignored"
  PROVE  Tidy(<<a, b, c, d, e>>, name)
<1> DEFINE p == <<a, b, c, d, e>>
<1>1. /\ p \in Seq({a, b, c, d, e}) /\ Len(p) = 5
      /\ p[1] = a /\ p[2] = b /\ p[3] = c /\ p[4] = d /\ p[5] = e
  OBVIOUS
<1>2. IsPath(p)
  BY <1>1 DEF IsPath
<1> HIDE DEF p
<1>3. \A i \in 1..Len(p) : IsSound(p[i], name)
  BY <1>1
<1>4. \/ name \in Untidy
      \/ \A i \in 1..Len(p) - 1 : ~Changing(p[i])
      \/ \A i \in 2..Len(p) : p[i].code = "ignored"
  BY <1>1
<1>5. Tidy(p, name)
  BY <1>2, <1>3, <1>4, SoundIsTidy
<1> QED
  BY <1>5 DEF p

LEMMA OneBuffer ==
  ASSUME NEW path, IsPath(path), NEW m \in 1..Len(path) - 1, NEW b, NEW name,
         path[m].do = "malloc", path[m].what = b, path[m].code = "NO_MEMORY",
         path[Len(path)].do = "free", path[Len(path)].what = b, path[Len(path)].code = "never",
         \A i \in 1..Len(path) - 1 : i # m => /\ path[i].code \in Codes
                                              /\ path[i].do \notin {"malloc", "free", "put"},
         \A i \in m + 1..Len(path) - 1 : b \in path[i].frees,
         \A i \in 1..Len(path) - 2 : ~Changing(path[i])
  PROVE  Tidy(path, name)
<1>1. Len(path) \in Nat
  BY DEF IsPath
<1>2. ASSUME NEW i \in 1..Len(path), NEW x \in HeldAt(path, i) PROVE i \in m + 1..Len(path) /\ x = b
  BY <1>1 DEF HeldAt
<1>3. HeldAt(path, Len(path) + 1) = {}
  <2>1. ASSUME NEW k \in 1..Len(path), path[k].do = "malloc"
        PROVE  \E n \in k + 1..Len(path) : path[n].do = "free" /\ path[n].what = path[k].what
    BY <1>1, <2>1
  <2>2. (Len(path) + 1) - 1 = Len(path)
    BY <1>1
  <2> QED
    BY <2>1, <2>2 DEF HeldAt
<1>4. Frees(path)
  BY <1>1, <1>2, <1>3 DEF Frees, Fallible
<1>5. Honest(path, name)
  <2>1. \A i \in 1..Len(path) : path[i].code \in Codes \cup {"never"}
    BY <1>1 DEF Codes
  <2> QED
    BY <2>1 DEF Honest, Codes
<1>6. AllOrNothing(path)
  BY <1>1 DEF AllOrNothing, ChangedAt, Changing, Fallible
<1> QED
  BY <1>4, <1>5, <1>6 DEF Tidy

(* Steps of the sorts the tables are made of.                              *)
LEMMA Vocabulary ==
  /\ {"INVALID", "UNKNOWN_ERROR", "NO_MEMORY", "NONEXISTENT", "errno"} \subseteq Codes
  /\ IsAsk(Alloc) /\ IsAct(Alloc)
  /\ \A what, vals : \A code \in Codes :
       /\ IsAsk(Need(what, code)) /\ IsAsk(In(what, vals, code)) /\ IsAsk(Reads(what, code))
       /\ IsAct(Need(what, code)) /\ IsAct(In(what, vals, code)) /\ IsAct(Reads(what, code))
       /\ IsAct(Writes(what, code)) /\ IsAct(Put(what, vals))
BY AskFacts, ActFacts DEF Codes

LEMMA AskIsSound == ASSUME NEW s, IsAsk(s), NEW name PROVE IsSound(s, name) /\ ~Changing(s)
  BY DEF IsAsk, IsSound, Codes, Changing

LEMMA UnseenIsSound ==
  ASSUME NEW call, NEW name \in Careless
  PROVE  /\ IsSound(Reads(call, "ignored"), name) /\ IsSound(Writes(call, "ignored"), name)
         /\ IsSound(Writes(call, "unless_ETIMEDOUT"), name) /\ IsSound(TryAlloc, name)
         /\ Reads(call, "ignored").code = "ignored" /\ Writes(call, "ignored").code = "ignored"
         /\ ~Changing(Reads(call, "ignored"))
  BY StepFields DEF IsSound, Changing

(* gpio.c.                                                                 *)
LEMMA GpioTidy == AreTidy("gpio", gb_gpio_handlers)
<1>0. \A call : IsAct(Writes(call, "errno"))
  BY Vocabulary
<1> DEFINE chip  == Need("device", "INVALID")
           size == Need("size", "INVALID")
           line == Need("which", "INVALID")
<1>1. IsAsk(chip) /\ IsAsk(size) /\ IsAsk(line) /\ IsAct(line) /\ LineChecks = <<chip, size, line>>
  BY Vocabulary DEF LineChecks
<1> HIDE DEF chip, size, line
<1>2. ASSUME NEW act, IsAct(act) PROVE Plain(LineChecks \o <<act>>)
  <2>1. LineChecks \o <<act>> = <<chip, size, line, act>>
    BY <1>1, Join31
  <2> QED
    BY <1>1, <1>2, <2>1, PlainTuples
<1>3. Plain(LineChecks)
  BY <1>1, PlainTuples
<1>4. \A path \in gb_gpio_line_count : Plain(path)
  BY Vocabulary, PlainTuples DEF gb_gpio_line_count
<1>5. \A path \in gb_gpio_irq_type : Plain(path)
  <2> DEFINE type == Need("irq_type", "INVALID")
             act  == Writes("gpio_pin_interrupt_configure", "errno")
  <2>1. IsAsk(type) /\ IsAct(act) /\ gb_gpio_irq_type = {LineChecks \o <<type, act>>}
    BY Vocabulary DEF gb_gpio_irq_type
  <2> HIDE DEF type, act
  <2>2. LineChecks \o <<type, act>> = <<chip, size, line, type, act>>
    BY <1>1, Join32
  <2> QED
    BY <1>1, <2>1, <2>2, PlainTuples
<1>6. ASSUME NEW call, NEW name \in {<<"gpio", "get_direction">>, <<"gpio", "get_value">>}
      PROVE  Tidy(LineChecks \o <<Alloc, Reads(call, "ignored")>>, name)
  <2> DEFINE read == Reads(call, "ignored")
  <2>1. IsSound(read, name) /\ ~Changing(read)
    BY UnseenIsSound DEF Careless
  <2> HIDE DEF read
  <2>2. LineChecks \o <<Alloc, read>> = <<chip, size, line, Alloc, read>>
    BY <1>1, Join32
  <2>3. \A s \in {chip, size, line, Alloc} : IsSound(s, name) /\ ~Changing(s)
    BY <1>1, Vocabulary, AskIsSound
  <2>4. Tidy(<<chip, size, line, Alloc, read>>, name)
    BY <2>1, <2>3, FiveTidy
  <2> QED
    BY <2>2, <2>4 DEF read
<1>7. \A path \in gb_gpio_direction_out : Tidy(path, <<"gpio", "direction_out">>)
  <2> DEFINE one == Writes("gpio_pin_configure", "errno")
             two == Writes("gpio_pin_set", "errno")
             name == <<"gpio", "direction_out">>
  <2>1. IsSound(one, name) /\ IsSound(two, name) /\ gb_gpio_direction_out = {LineChecks \o <<one, two>>}
    BY Vocabulary, ActIsSound DEF gb_gpio_direction_out
  <2>2. name \in Untidy
    BY DEF Untidy
  <2> HIDE DEF one, two, name
  <2>3. LineChecks \o <<one, two>> = <<chip, size, line, one, two>>
    BY <1>1, Join32
  <2>4. \A s \in {chip, size, line} : IsSound(s, name)
    BY <1>1, AskIsSound
  <2>5. Tidy(<<chip, size, line, one, two>>, name)
    BY <2>1, <2>2, <2>4, FiveTidy
  <2> QED
    BY <2>1, <2>3, <2>5 DEF name
<1>12. \A call : Plain(LineChecks \o <<Writes(call, "errno")>>)
  BY <1>0, <1>2
<1> DEFINE Told(call) == LineChecks \o <<Writes(call, "errno")>>
<1>13. /\ gb_gpio_protocol_version = VersionHandler
       /\ gb_gpio_activate = {LineChecks} /\ gb_gpio_deactivate = {LineChecks}
       /\ gb_gpio_direction_in = {Told("gpio_pin_configure")}
       /\ gb_gpio_set_value = {Told("gpio_pin_set")}
       /\ gb_gpio_set_debounce = {LineChecks, Told("gpio_pin_configure")}
       /\ gb_gpio_irq_mask = {Told("gpio_pin_interrupt_configure")}
       /\ gb_gpio_irq_unmask = {Told("gpio_pin_interrupt_configure")}
  BY DEF gb_gpio_protocol_version, gb_gpio_activate, gb_gpio_deactivate,
         gb_gpio_direction_in, gb_gpio_set_value, gb_gpio_set_debounce, gb_gpio_irq_mask,
         gb_gpio_irq_unmask
<1>14. \A call : Plain(Told(call))
  BY <1>12
<1> HIDE DEF Told
<1>8. ASSUME NEW op \in DOMAIN gb_gpio_handlers, NEW path \in gb_gpio_handlers[op],
             op \notin {"get_direction", "get_value", "direction_out"}
      PROVE  Plain(path)
  BY <1>3, <1>4, <1>5, <1>8, <1>13, <1>14, VersionPlain DEF gb_gpio_handlers
<1>9. ASSUME NEW path \in gb_gpio_handlers["get_direction"]
      PROVE  Tidy(path, <<"gpio", "get_direction">>)
  BY <1>6 DEF gb_gpio_handlers, gb_gpio_get_direction
<1>10. ASSUME NEW path \in gb_gpio_handlers["get_value"]
       PROVE  Tidy(path, <<"gpio", "get_value">>)
  BY <1>6 DEF gb_gpio_handlers, gb_gpio_get_value
<1>11. ASSUME NEW path \in gb_gpio_handlers["direction_out"]
       PROVE  Tidy(path, <<"gpio", "direction_out">>)
  BY <1>7 DEF gb_gpio_handlers
<1> QED
  BY <1>8, <1>9, <1>10, <1>11, PlainIsTidy DEF AreTidy

(* pwm-protocol.c.                                                         *)
LEMMA PwmTidy == AreTidy("pwm", gb_pwm_handlers)
<1>0. \A call : IsAct(Writes(call, "UNKNOWN_ERROR"))
  BY Vocabulary
<1>1. \A path \in gb_pwm_protocol_count : Plain(path)
  BY Vocabulary, PlainTuples DEF gb_pwm_protocol_count
<1>2. ASSUME NEW act, IsAct(act) PROVE Plain(GeneratorChecks \o <<act>>)
  <2> DEFINE size == Need("size", "INVALID")
             both == Need("priv_and_dev", "UNKNOWN_ERROR")
             num  == In("num_pwms", {"counted"}, "INVALID")
             gen  == Need("which", "INVALID")
  <2>1. /\ IsAsk(size) /\ IsAsk(both) /\ IsAsk(num) /\ IsAsk(gen)
        /\ GeneratorChecks = <<size, both, num, gen>>
    BY Vocabulary DEF GeneratorChecks
  <2> HIDE DEF size, both, num, gen
  <2>2. GeneratorChecks \o <<act>> = <<size, both, num, gen, act>>
    BY <2>1, Join41
  <2> QED
    BY <1>2, <2>1, <2>2, PlainTuples
<1>4. \A call : Plain(GeneratorChecks \o <<Writes(call, "UNKNOWN_ERROR")>>)
  BY <1>0, <1>2
<1> DEFINE Told(call) == GeneratorChecks \o <<Writes(call, "UNKNOWN_ERROR")>>
<1>5. /\ gb_pwm_protocol_version = VersionHandler
      /\ gb_pwm_protocol_activate = {Told("device_pwm_activate")}
      /\ gb_pwm_protocol_deactivate = {Told("device_pwm_deactivate")}
      /\ gb_pwm_protocol_config = {Told("device_pwm_config")}
      /\ gb_pwm_protocol_polarity = {Told("device_pwm_set_polarity")}
      /\ gb_pwm_protocol_enable = {Told("device_pwm_enable")}
      /\ gb_pwm_protocol_disable = {Told("device_pwm_disable")}
  BY DEF gb_pwm_protocol_version, gb_pwm_protocol_activate,
         gb_pwm_protocol_deactivate, gb_pwm_protocol_config, gb_pwm_protocol_polarity,
         gb_pwm_protocol_enable, gb_pwm_protocol_disable
<1>6. \A call : Plain(Told(call))
  BY <1>4
<1> HIDE DEF Told
<1>3. ASSUME NEW op \in DOMAIN gb_pwm_handlers, NEW path \in gb_pwm_handlers[op]
      PROVE  Plain(path)
  BY <1>1, <1>5, <1>6, VersionPlain DEF gb_pwm_handlers
<1> QED
  BY <1>3, PlainIsTidy DEF AreTidy

(* vibrator.c.                                                             *)
LEMMA VibratorTidy == AreTidy("vibrator", gb_vibrator_handlers)
<1> DEFINE size == Need("size", "INVALID")
           one == Writes("gpio_activate", "ignored")
           two == Writes("gpio_set_value", "ignored")
           three == Writes("gpio_deactivate", "ignored")
<1>1. PinCalls = <<one, two, three>>
  BY DEF PinCalls
<1>2. ASSUME NEW name \in {<<"vibrator", "vibrator_on">>, <<"vibrator", "vibrator_off">>}
      PROVE  /\ \A s \in {one, two, three} : IsSound(s, name) /\ s.code = "ignored"
             /\ IsSound(size, name)
  BY UnseenIsSound, Vocabulary, AskIsSound DEF Careless
<1>3. gb_vibrator_handlers["vibrator_on"] = {<<size>> \o PinCalls}
  BY DEF gb_vibrator_handlers, gb_vibrator_vibrator_on
<1>4. gb_vibrator_handlers["vibrator_off"] = {PinCalls}
  BY DEF gb_vibrator_handlers, gb_vibrator_vibrator_off
<1> HIDE DEF size, one, two, three
<1>5. <<size>> \o PinCalls = <<size, one, two, three>>
  BY <1>1, Join13
<1>6. Tidy(<<size, one, two, three>>, <<"vibrator", "vibrator_on">>)
  BY <1>2, FourTidy
<1>7. Tidy(<<one, two, three>>, <<"vibrator", "vibrator_off">>)
  BY <1>2, ThreeTidy
<1>8. \A path \in gb_vibrator_handlers["protocol_version"] :
        Tidy(path, <<"vibrator", "protocol_version">>)
  BY VersionPlain, PlainIsTidy DEF gb_vibrator_handlers, gb_vibrator_protocol_version
<1>9. DOMAIN gb_vibrator_handlers = {"protocol_version", "vibrator_on", "vibrator_off"}
  BY DEF gb_vibrator_handlers
<1> QED
  BY <1>1, <1>3, <1>4, <1>5, <1>6, <1>7, <1>8, <1>9 DEF AreTidy

LEMMA FreeingFacts ==
  ASSUME NEW what, NEW code, NEW bufs
  PROVE  /\ Freeing(Need(what, code), bufs).do = "need"
         /\ Freeing(Need(what, code), bufs).code = code
         /\ Freeing(Need(what, code), bufs).frees = bufs
         /\ Freeing(Reads(what, code), bufs).do = "read"
         /\ Freeing(Reads(what, code), bufs).code = code
         /\ Freeing(Reads(what, code), bufs).frees = bufs
         /\ Freeing(Writes(what, code), bufs).do = "write"
         /\ Freeing(Writes(what, code), bufs).code = code
         /\ Freeing(Writes(what, code), bufs).frees = bufs
         /\ Freeing(Alloc, bufs).do = "alloc" /\ Freeing(Alloc, bufs).code = "NO_MEMORY"
         /\ Freeing(Alloc, bufs).frees = bufs
         /\ Freeing(Malloc(what), bufs).do = "malloc" /\ Freeing(Malloc(what), bufs).what = what
         /\ Freeing(Malloc(what), bufs).code = "NO_MEMORY"
         /\ Freeing(Malloc(what), bufs).frees = bufs
         /\ Malloc(what).do = "malloc" /\ Malloc(what).what = what
         /\ Malloc(what).code = "NO_MEMORY"
         /\ Free(what).do = "free" /\ Free(what).what = what /\ Free(what).code = "never"
BY DEF Freeing, Step, Need, Reads, Writes, Alloc, Malloc, Free

(* i2c.c.                                                                  *)
LEMMA I2cTidy == AreTidy("i2c", gb_i2c_handlers)
<1> DEFINE a == Need("size", "INVALID")
           b == Need("descriptors", "INVALID")
           c == Malloc("requests")
           d == Freeing(Need("one_address", "INVALID"), {"requests"})
           e == Freeing(Writes("i2c_transfer", "errno"), {"requests"})
           f == Free("requests")
           p == <<a, b, Alloc, c, d, e, f>>
<1>1. gb_i2c_protocol_transfer = {p}
  BY DEF gb_i2c_protocol_transfer
<1>2. \A s \in {a, b, Alloc, d, e} : s.code \in Codes /\ s.do \notin {"malloc", "free", "put"}
  BY StepFields, FreeingFacts DEF Codes
<1>3. /\ c.do = "malloc" /\ c.what = "requests" /\ c.code = "NO_MEMORY"
      /\ f.do = "free" /\ f.what = "requests" /\ f.code = "never"
      /\ d.frees = {"requests"} /\ e.frees = {"requests"} /\ d.do = "need"
      /\ a.do = "need" /\ b.do = "need" /\ Alloc.do = "alloc"
  BY DEF Freeing, Step, Need, Writes, Alloc, Malloc, Free
<1> HIDE DEF a, b, c, d, e, f
<1>4. /\ p \in Seq({a, b, Alloc, c, d, e, f}) /\ Len(p) = 7 /\ p[1] = a /\ p[2] = b
      /\ p[3] = Alloc /\ p[4] = c /\ p[5] = d /\ p[6] = e /\ p[7] = f
  OBVIOUS
<1>5. IsPath(p)
  BY <1>4 DEF IsPath
<1> HIDE DEF p
<1>6. /\ \A i \in 1..Len(p) - 1 : i # 4 => /\ p[i].code \in Codes
                                           /\ p[i].do \notin {"malloc", "free", "put"}
      /\ \A i \in 4 + 1..Len(p) - 1 : "requests" \in p[i].frees
      /\ \A i \in 1..Len(p) - 2 : ~Changing(p[i])
  BY <1>2, <1>3, <1>4 DEF Changing
<1>9. /\ 4 \in 1..Len(p) - 1 /\ p[4].do = "malloc" /\ p[4].what = "requests"
      /\ p[4].code = "NO_MEMORY" /\ p[Len(p)].do = "free" /\ p[Len(p)].what = "requests"
      /\ p[Len(p)].code = "never"
  BY <1>3, <1>4
<1>7. ASSUME NEW name PROVE Tidy(p, name)
  BY <1>5, <1>6, <1>9, OneBuffer
<1>8. \A path \in gb_i2c_protocol_version \cup gb_i2c_protocol_functionality : Plain(path)
  BY VersionPlain DEF gb_i2c_protocol_version, gb_i2c_protocol_functionality, VersionHandler
<1> QED
  BY <1>1, <1>7, <1>8, PlainIsTidy DEF AreTidy, gb_i2c_handlers

(* spi.c.                                                                  *)
LEMMA SpiTransferTidy ==
  ASSUME NEW path \in gb_spi_protocol_transfer, NEW name
  PROVE  Tidy(path, name)
<1> DEFINE bufs == {"tx_buf"}
           a == Need("size", "INVALID")
           b == Need("settings", "INVALID")
           c == Malloc("tx_buf")
           d == Freeing(Need("descriptors", "INVALID"), bufs)
           e == Freeing(Alloc, bufs)
           f == Freeing(Need("rdwr", "INVALID"), bufs)
           g == Freeing(Need("gb_spidev", "NONEXISTENT"), bufs)
           h == Freeing(Writes("spi_transceive", "errno"), bufs)
           i == Free("tx_buf")
           p == <<a, b, c, d, e, f, g, h, i>>
<1>1. gb_spi_protocol_transfer = {<<a>>, p}
  BY DEF gb_spi_protocol_transfer, request_to_spi_config
<1>2. \A s \in {a, b, d, e, f, g, h} : s.code \in Codes /\ s.do \notin {"malloc", "free", "put"}
  BY StepFields, FreeingFacts DEF Codes
<1>3. /\ c.do = "malloc" /\ c.what = "tx_buf" /\ c.code = "NO_MEMORY"
      /\ i.do = "free" /\ i.what = "tx_buf" /\ i.code = "never"
      /\ \A s \in {d, e, f, g, h} : "tx_buf" \in s.frees
      /\ \A s \in {a, b, d, e, f, g} : s.do # "write"
  BY DEF Freeing, Step, Need, Writes, Alloc, Malloc, Free
<1>4. Plain(<<a>>)
  BY Vocabulary, PlainTuples
<1> HIDE DEF a, b, c, d, e, f, g, h, i, bufs
<1>5. /\ p \in Seq({a, b, c, d, e, f, g, h, i}) /\ Len(p) = 9 /\ p[1] = a /\ p[2] = b
      /\ p[3] = c /\ p[4] = d /\ p[5] = e /\ p[6] = f /\ p[7] = g /\ p[8] = h /\ p[9] = i
  OBVIOUS
<1>6. IsPath(p)
  BY <1>5 DEF IsPath
<1> HIDE DEF p
<1>7. /\ \A n \in 1..Len(p) - 1 : n # 3 => /\ p[n].code \in Codes
                                           /\ p[n].do \notin {"malloc", "free", "put"}
      /\ \A n \in 3 + 1..Len(p) - 1 : "tx_buf" \in p[n].frees
      /\ \A n \in 1..Len(p) - 2 : ~Changing(p[n])
  BY <1>2, <1>3, <1>5 DEF Changing
<1>9. /\ 3 \in 1..Len(p) - 1 /\ p[3].do = "malloc" /\ p[3].what = "tx_buf"
      /\ p[3].code = "NO_MEMORY" /\ p[Len(p)].do = "free" /\ p[Len(p)].what = "tx_buf"
      /\ p[Len(p)].code = "never"
  BY <1>3, <1>5
<1>8. Tidy(p, name)
  BY <1>6, <1>7, <1>9, OneBuffer
<1> QED
  BY <1>1, <1>4, <1>8, PlainIsTidy

LEMMA SpiTidy == AreTidy("spi", gb_spi_handlers)
<1> DEFINE size == Need("size", "INVALID")
           chip == Need("gb_spidev", "NONEXISTENT")
           crash == Need("gb_spidev", "fault")
           one == Reads("controller_config_response", "ignored")
           two == Reads("peripheral_config_response", "ignored")
           master == <<"spi", "master_config">>
           device == <<"spi", "device_config">>
<1>1. /\ gb_spi_protocol_master_config = {<<Alloc>> \o <<chip, one>>}
      /\ gb_spi_protocol_device_config = {<<size, Alloc>> \o <<crash, two>>}
  BY DEF gb_spi_protocol_master_config, gb_spi_protocol_device_config,
         device_spi_get_master_config, device_spi_get_device_config
<1>2. master \in Careless /\ device \in Careless /\ device \in Crashing
  BY DEF Careless, Crashing
<1>3. /\ IsSound(one, master) /\ IsSound(two, device) /\ ~Changing(one) /\ ~Changing(two)
      /\ IsSound(crash, device) /\ ~Changing(crash)
  <2>1. IsSound(one, master) /\ IsSound(two, device) /\ ~Changing(one) /\ ~Changing(two)
    BY <1>2, UnseenIsSound
  <2>2. IsSound(crash, device) /\ ~Changing(crash)
    BY <1>2, StepFields DEF IsSound, Changing
  <2> QED
    BY <2>1, <2>2
<1>4. \A s \in {size, chip, Alloc} : IsAsk(s)
  BY Vocabulary
<1>5. \A s \in {size, chip, Alloc} : IsSound(s, master) /\ IsSound(s, device) /\ ~Changing(s)
  BY <1>4, AskIsSound
<1>6. DOMAIN gb_spi_handlers = {"version", "master_config", "device_config", "transfer"}
  BY DEF gb_spi_handlers
<1> HIDE DEF size, chip, crash, one, two
<1>7. <<Alloc>> \o <<chip, one>> = <<Alloc, chip, one>>
  BY Join12
<1>8. <<size, Alloc>> \o <<crash, two>> = <<size, Alloc, crash, two>>
  BY Join22
<1>9. Tidy(<<Alloc, chip, one>>, master)
  BY <1>3, <1>5, ThreeTidy
<1>10. Tidy(<<size, Alloc, crash, two>>, device)
  BY <1>3, <1>5, FourTidy
<1>11. \A path \in gb_spi_handlers["master_config"] : Tidy(path, master)
  BY <1>1, <1>7, <1>9 DEF gb_spi_handlers
<1>12. \A path \in gb_spi_handlers["device_config"] : Tidy(path, device)
  BY <1>1, <1>8, <1>10 DEF gb_spi_handlers
<1>13. ASSUME NEW name
       PROVE  \A path \in gb_spi_handlers["transfer"] \cup gb_spi_handlers["version"] :
                Tidy(path, name)
  BY SpiTransferTidy, VersionPlain, PlainIsTidy DEF gb_spi_handlers, gb_spi_protocol_version
<1> QED
  BY <1>6, <1>11, <1>12, <1>13 DEF AreTidy

(* sdio.c.                                                                 *)
LEMMA SdioTidy == AreTidy("sdio", gb_sdio_handlers)
<1> DEFINE size == Need("size", "INVALID")
           cmd == Writes("device_sdio_send_cmd", "unless_ETIMEDOUT")
           write == Writes("device_sdio_write", "errno")
           read == Reads("device_sdio_read", "errno")
           which == Need("write_or_read", "INVALID")
           command == <<"sdio", "command">>
           transfer == <<"sdio", "transfer">>
<1>1. /\ gb_sdio_protocol_command = {<<size, cmd, Alloc>>}
      /\ gb_sdio_protocol_transfer = {<<size, write, Alloc>>, <<size, which, Alloc, read>>}
  BY DEF gb_sdio_protocol_command, gb_sdio_protocol_transfer
<1>2. command \in Careless /\ command \in Untidy /\ transfer \in Untidy
  BY DEF Careless, Untidy
<1>3. /\ IsAsk(size) /\ IsAsk(Alloc) /\ IsAsk(which) /\ IsAct(write) /\ IsAct(read)
  BY Vocabulary
<1>4. IsSound(cmd, command)
  BY <1>2, UnseenIsSound
<1>5. \A s \in {size, write, Alloc} : IsSound(s, command) /\ IsSound(s, transfer)
  BY <1>3, AskIsSound, ActIsSound
<1>6. \A path \in gb_sdio_protocol_get_capabilities \cup gb_sdio_protocol_set_ios : Plain(path)
  BY Vocabulary, PlainTuples DEF gb_sdio_protocol_get_capabilities, gb_sdio_protocol_set_ios
<1>7. DOMAIN gb_sdio_handlers = {"version", "get_capabilities", "set_ios", "command", "transfer"}
  BY DEF gb_sdio_handlers
<1> HIDE DEF size, cmd, write, read, which
<1>8. Tidy(<<size, cmd, Alloc>>, command)
  BY <1>2, <1>4, <1>5, ThreeTidy
<1>9. Tidy(<<size, write, Alloc>>, transfer)
  BY <1>2, <1>5, ThreeTidy
<1>10. Tidy(<<size, which, Alloc, read>>, transfer)
  BY <1>3, PlainTuples, PlainIsTidy
<1>11. \A path \in gb_sdio_handlers["command"] : Tidy(path, command)
  BY <1>1, <1>8 DEF gb_sdio_handlers
<1>12. \A path \in gb_sdio_handlers["transfer"] : Tidy(path, transfer)
  BY <1>1, <1>9, <1>10 DEF gb_sdio_handlers
<1>13. \A path \in gb_sdio_handlers["version"] \cup gb_sdio_handlers["get_capabilities"]
                     \cup gb_sdio_handlers["set_ios"] : Plain(path)
  BY <1>6, VersionPlain DEF gb_sdio_handlers, gb_sdio_protocol_version
<1> QED
  BY <1>7, <1>11, <1>12, <1>13, PlainIsTidy DEF AreTidy

(* usb.c.                                                                  *)
LEMMA UsbTidy == AreTidy("usb", gb_usb_handlers)
<1>1. \A path \in gb_usb_hcd_stop : Tidy(path, <<"usb", "hcd_stop">>)
  <2> DEFINE stop == Writes("device_usb_hcd_stop", "ignored")
  <2>1. gb_usb_hcd_stop = {<<stop>>} /\ IsSound(stop, <<"usb", "hcd_stop">>)
    BY UnseenIsSound DEF gb_usb_hcd_stop, Careless
  <2> HIDE DEF stop
  <2> QED
    BY <2>1, OneTidy
<1>2. \A path \in gb_usb_hcd_start \cup gb_usb_hub_control : Plain(path)
  BY Vocabulary, PlainTuples DEF gb_usb_hcd_start, gb_usb_hub_control
<1> QED
  BY <1>1, <1>2, VersionPlain, PlainIsTidy DEF AreTidy, gb_usb_handlers, gb_usb_protocol_version

(* uart.c.                                                                 *)
LEMMA UartTidy == AreTidy("uart", gb_uart_handlers)
<1>1. \A path \in gb_uart_send_data : Plain(path)
  BY Vocabulary, PlainTuples DEF gb_uart_send_data
<1>2. \A path \in gb_uart_set_line_coding : Plain(path)
  BY Vocabulary, PlainTuples DEF gb_uart_set_line_coding
<1>3. \A path \in gb_uart_set_control_line_state : Plain(path)
  BY Vocabulary, PlainTuples DEF gb_uart_set_control_line_state
<1>4. \A path \in gb_uart_send_break : Plain(path)
  BY Vocabulary, PlainTuples DEF gb_uart_send_break
<1>5. ASSUME NEW op \in DOMAIN gb_uart_handlers, NEW path \in gb_uart_handlers[op]
      PROVE  Plain(path)
  BY <1>1, <1>2, <1>3, <1>4, VersionPlain DEF gb_uart_handlers, gb_uart_protocol_version
<1> QED
  BY <1>5, PlainIsTidy DEF AreTidy

(* control-gpb.c.                                                          *)
LEMMA ControlTidy == AreTidy("control", gb_control_handlers)
<1>1. \A path \in gb_control_get_manifest \cup gb_control_timesync_enable
                    \cup gb_control_timesync_disable \cup gb_control_timesync_authoritative
                    \cup gb_control_timesync_get_last_event : Plain(path)
  BY Vocabulary, PlainTuples
     DEF gb_control_get_manifest, gb_control_timesync_enable, gb_control_timesync_disable,
         gb_control_timesync_authoritative, gb_control_timesync_get_last_event
<1>2. /\ gb_control_protocol_version = VersionHandler
      /\ gb_control_get_manifest_size = VersionHandler
      /\ gb_control_interface_version = VersionHandler
      /\ gb_control_disconnecting = EmptyHandler
      /\ gb_control_bundle_activate = VersionHandler
      /\ gb_control_bundle_suspend = VersionHandler
      /\ gb_control_bundle_resume = VersionHandler
      /\ gb_control_bundle_deactivate = VersionHandler
      /\ gb_control_intf_suspend_prepare = VersionHandler
      /\ gb_control_intf_deactivate_prepare = VersionHandler
  BY DEF VersionHandler, gb_control_protocol_version, gb_control_get_manifest_size,
         gb_control_interface_version, gb_control_disconnecting, gb_control_bundle_activate,
         gb_control_bundle_suspend, gb_control_bundle_resume, gb_control_bundle_deactivate,
         gb_control_intf_suspend_prepare, gb_control_intf_deactivate_prepare
<1>3. ASSUME NEW op \in DOMAIN gb_control_handlers, NEW path \in gb_control_handlers[op]
      PROVE  Plain(path)
  BY <1>1, <1>2, VersionPlain DEF gb_control_handlers
<1> QED
  BY <1>3, PlainIsTidy DEF AreTidy

(* hid.c.                                                                  *)
LEMMA HidTidy == AreTidy("hid", gb_hid_handlers)
<1>1. IsAsk(Opened)
  BY Vocabulary DEF Opened
<1>2. \A path \in gb_hid_get_descriptor \cup gb_hid_get_report_descriptor : Plain(path)
  BY <1>1, Vocabulary, PlainTuples DEF gb_hid_get_descriptor, gb_hid_get_report_descriptor
<1>3. \A path \in gb_hid_power_on \cup gb_hid_power_off : Plain(path)
  BY <1>1, Vocabulary, PlainTuples DEF gb_hid_power_on, gb_hid_power_off
<1>4. \A path \in gb_hid_get_report : Plain(path)
  BY Vocabulary, PlainTuples DEF gb_hid_get_report
<1>5. \A path \in gb_hid_handlers["set_report"] : Tidy(path, <<"hid", "set_report">>)
  <2> DEFINE size == Need("size", "INVALID")
             read == Reads("device_hid_get_report_length", "ignored")
             len == Need("length", "UNKNOWN_ERROR")
             write == Writes("device_hid_set_report", "UNKNOWN_ERROR")
             name == <<"hid", "set_report">>
  <2>1. gb_hid_handlers["set_report"] = {<<size, read, len, write>>}
    BY DEF gb_hid_handlers, gb_hid_set_report
  <2>2. IsSound(read, name) /\ ~Changing(read)
    BY UnseenIsSound DEF Careless
  <2>3. IsAsk(size) /\ IsAsk(len) /\ IsAct(write)
    BY Vocabulary
  <2> HIDE DEF size, read, len, write, name
  <2>4. /\ \A s \in {size, len} : IsSound(s, name) /\ ~Changing(s)
        /\ IsSound(write, name)
    BY <2>3, AskIsSound, ActIsSound
  <2>5. Tidy(<<size, read, len, write>>, name)
    BY <2>2, <2>4, FourTidy
  <2> QED
    BY <2>1, <2>5 DEF name
<1>6. ASSUME NEW op \in DOMAIN gb_hid_handlers, NEW path \in gb_hid_handlers[op],
             op # "set_report"
      PROVE  Plain(path)
  BY <1>2, <1>3, <1>4, <1>6, VersionPlain DEF gb_hid_handlers, gb_hid_protocol_version
<1> QED
  BY <1>5, <1>6, PlainIsTidy DEF AreTidy

(* power_supply.c.                                                         *)
LEMMA DescriptorsTidy ==
  ASSUME NEW path \in gb_power_supply_get_prop_descriptors, NEW name
  PROVE  Tidy(path, name)
<1> DEFINE bufs == {"descriptors"}
           a == Need("size", "INVALID")
           b == Reads("device_power_supply_get_properties_count", "errno")
           c == Malloc("descriptors")
           d == Freeing(Reads("device_power_supply_get_prop_descriptors", "errno"), bufs)
           e == Freeing(Alloc, bufs)
           f == Free("descriptors")
           p == <<a, b, c, d, e, f>>
<1>1. path = p
  BY DEF gb_power_supply_get_prop_descriptors
<1>2. \A s \in {a, b, d, e} : s.code \in Codes /\ s.do \notin {"malloc", "free", "put"}
  BY DEF Codes, Freeing, Step, Need, Reads, Alloc
<1>3. /\ c.do = "malloc" /\ c.what = "descriptors" /\ c.code = "NO_MEMORY"
      /\ f.do = "free" /\ f.what = "descriptors" /\ f.code = "never"
      /\ \A s \in {d, e} : "descriptors" \in s.frees
      /\ \A s \in {a, b, d, e} : s.do # "write"
  BY DEF Freeing, Step, Need, Reads, Alloc, Malloc, Free
<1> HIDE DEF a, b, c, d, e, f, bufs
<1>4. /\ p \in Seq({a, b, c, d, e, f}) /\ Len(p) = 6 /\ p[1] = a /\ p[2] = b
      /\ p[3] = c /\ p[4] = d /\ p[5] = e /\ p[6] = f
  OBVIOUS
<1>5. IsPath(p)
  BY <1>4 DEF IsPath
<1> HIDE DEF p
<1>6. /\ \A n \in 1..Len(p) - 1 : n # 3 => /\ p[n].code \in Codes
                                           /\ p[n].do \notin {"malloc", "free", "put"}
      /\ \A n \in 3 + 1..Len(p) - 1 : "descriptors" \in p[n].frees
      /\ \A n \in 1..Len(p) - 2 : ~Changing(p[n])
  BY <1>2, <1>3, <1>4 DEF Changing
<1>7. /\ 3 \in 1..Len(p) - 1 /\ p[3].do = "malloc" /\ p[3].what = "descriptors"
      /\ p[3].code = "NO_MEMORY" /\ p[Len(p)].do = "free" /\ p[Len(p)].what = "descriptors"
      /\ p[Len(p)].code = "never"
  BY <1>3, <1>4
<1>8. Tidy(p, name)
  BY <1>5, <1>6, <1>7, OneBuffer
<1> QED
  BY <1>1, <1>8

LEMMA PowerSupplyTidy == AreTidy("power_supply", gb_power_supply_handlers)
<1>1. \A path \in gb_power_supply_get_supplies \cup gb_power_supply_get_description : Plain(path)
  BY Vocabulary, PlainTuples
     DEF gb_power_supply_get_supplies, gb_power_supply_get_description
<1>2. \A path \in gb_power_supply_get_property \cup gb_power_supply_set_property : Plain(path)
  BY Vocabulary, PlainTuples
     DEF gb_power_supply_get_property, gb_power_supply_set_property
<1>3. \A name : \A path \in gb_power_supply_handlers["get_prop_descriptors"] : Tidy(path, name)
  BY DescriptorsTidy DEF gb_power_supply_handlers
<1>4. ASSUME NEW op \in DOMAIN gb_power_supply_handlers,
             NEW path \in gb_power_supply_handlers[op], op # "get_prop_descriptors"
      PROVE  Plain(path)
  BY <1>1, <1>2, <1>4, VersionPlain DEF gb_power_supply_handlers, gb_power_supply_version
<1> QED
  BY <1>3, <1>4, PlainIsTidy DEF AreTidy

(* camera.c.                                                               *)
LEMMA CaptureTidy ==
  ASSUME NEW path \in gb_camera_capture, NEW name
  PROVE  Tidy(path, name)
<1> DEFINE bufs == {"capt_req"}
           a == In("state", {"CONFIGURED"}, "INVALID")
           b == Need("size", "INVALID")
           c == Need("padding", "INVALID")
           d == Malloc("capt_req")
           e == Freeing(Writes("device_camera_capture", "errno"), bufs)
           f == Free("capt_req")
           p == <<a, b, c, d, e, f>>
<1>1. path = p
  BY DEF gb_camera_capture
<1>2. \A s \in {a, b, c, e} : s.code \in Codes /\ s.do \notin {"malloc", "free", "put"}
  BY StepFields, FreeingFacts DEF Codes
<1>3. /\ d.do = "malloc" /\ d.what = "capt_req" /\ d.code = "NO_MEMORY"
      /\ f.do = "free" /\ f.what = "capt_req" /\ f.code = "never"
      /\ "capt_req" \in e.frees
      /\ \A s \in {a, b, c} : s.do # "write"
  BY DEF Freeing, Step, Need, In, Writes, Malloc, Free
<1> HIDE DEF a, b, c, d, e, f, bufs
<1>4. /\ p \in Seq({a, b, c, d, e, f}) /\ Len(p) = 6 /\ p[1] = a /\ p[2] = b
      /\ p[3] = c /\ p[4] = d /\ p[5] = e /\ p[6] = f
  OBVIOUS
<1>5. IsPath(p)
  BY <1>4 DEF IsPath
<1> HIDE DEF p
<1>6. /\ \A n \in 1..Len(p) - 1 : n # 4 => /\ p[n].code \in Codes
                                           /\ p[n].do \notin {"malloc", "free", "put"}
      /\ \A n \in 4 + 1..Len(p) - 1 : "capt_req" \in p[n].frees
      /\ \A n \in 1..Len(p) - 2 : ~Changing(p[n])
  BY <1>2, <1>3, <1>4 DEF Changing
<1>7. /\ 4 \in 1..Len(p) - 1 /\ p[4].do = "malloc" /\ p[4].what = "capt_req"
      /\ p[4].code = "NO_MEMORY" /\ p[Len(p)].do = "free" /\ p[Len(p)].what = "capt_req"
      /\ p[Len(p)].code = "never"
  BY <1>3, <1>4
<1>8. Tidy(p, name)
  BY <1>5, <1>6, <1>7, OneBuffer
<1> QED
  BY <1>1, <1>8

(* Two buffers, and an answer nobody checks.                               *)
LEMMA SetStreamsTidy ==
  ASSUME NEW after PROVE Tidy(SetStreams(after), <<"camera", "configure_streams">>)
<1> DEFINE a == Need("size", "INVALID")
           b == Need("stream_count", "INVALID")
           c == In("state", {"UNCONFIGURED"}, "INVALID")
           d == Malloc("cfg_request")
           e == Freeing(Malloc("cfg_answer"), {"cfg_request"})
           f == Freeing(Writes("device_camera_set_streams_cfg", "INVALID"),
                        {"cfg_request", "cfg_answer"})
           g == Put("state", after)
           h == MustAlloc
           i == Free("cfg_answer")
           j == Free("cfg_request")
           p == <<a, b, c, d, e, f, g, h, i, j>>
           name == <<"camera", "configure_streams">>
<1>1. SetStreams(after) = p
  BY DEF SetStreams
<1>2. name \in Untidy /\ name \in Crashing
  BY DEF Untidy, Crashing
<1>3. /\ \A s \in {a, b, c, f, g, h} : s.do \notin {"malloc", "free"}
      /\ d.do = "malloc" /\ d.what = "cfg_request"
      /\ e.do = "malloc" /\ e.what = "cfg_answer" /\ e.frees = {"cfg_request"}
      /\ f.frees = {"cfg_request", "cfg_answer"}
      /\ g.do = "put" /\ h.code = "fault"
      /\ i.do = "free" /\ i.what = "cfg_answer" /\ j.do = "free" /\ j.what = "cfg_request"
  BY DEF Freeing, Step, Need, In, Put, MustAlloc, Writes, Malloc, Free
<1>4. \A s \in {a, b, c, d, e, f, g, h, i, j} :
        s.code \in {"INVALID", "NO_MEMORY", "never", "fault"}
  BY DEF Freeing, Step, Need, In, Put, MustAlloc, Writes, Malloc, Free
<1> HIDE DEF a, b, c, d, e, f, g, h, i, j, name
<1>5. /\ p \in Seq({a, b, c, d, e, f, g, h, i, j}) /\ Len(p) = 10 /\ p[1] = a /\ p[2] = b
      /\ p[3] = c /\ p[4] = d /\ p[5] = e /\ p[6] = f /\ p[7] = g /\ p[8] = h /\ p[9] = i
      /\ p[10] = j
  OBVIOUS
<1>6. IsPath(p)
  BY <1>5 DEF IsPath
<1> HIDE DEF p
<1>7. \A k \in 1..10 : p[k].do = "malloc" => k \in {4, 5}
  BY <1>3, <1>5
<1>8. HeldAt(p, Len(p) + 1) = {}
  <2>1. ASSUME NEW k \in 1..10, p[k].do = "malloc"
        PROVE  \E m \in k + 1..10 : p[m].do = "free" /\ p[m].what = p[k].what
    <3>1. CASE k = 4
      BY <1>3, <1>5, <3>1
    <3>2. CASE k = 5
      BY <1>3, <1>5, <3>2
    <3> QED
      BY <1>7, <2>1, <3>1, <3>2
  <2>2. (Len(p) + 1) - 1 = 10
    BY <1>5
  <2> QED
    BY <2>1, <2>2 DEF HeldAt
<1>9. ASSUME NEW k \in 1..Len(p), p[k].do \in Fallible, p[k].code \notin {"ignored", "fault"}
      PROVE  HeldAt(p, k) \subseteq p[k].frees
  <2>1. k \in 1..6
    BY <1>3, <1>5, <1>9 DEF Fallible
  <2>2. ASSUME NEW x \in HeldAt(p, k)
        PROVE  \/ x = "cfg_request" /\ k > 4
               \/ x = "cfg_answer" /\ k > 5
    <3>1. PICK m \in 1..k - 1 : p[m].do = "malloc" /\ x = p[m].what
      BY DEF HeldAt
    <3>2. m \in {4, 5}
      BY <1>7, <2>1, <3>1
    <3> QED
      BY <1>3, <1>5, <3>1, <3>2
  <2>3. CASE k < 5
    BY <2>1, <2>2, <2>3
  <2>4. CASE k = 5
    BY <1>3, <1>5, <2>2, <2>4
  <2>5. CASE k = 6
    BY <1>3, <1>5, <2>2, <2>5
  <2> QED
    BY <2>1, <2>3, <2>4, <2>5
<1>10. Honest(p, name)
  <2>1. \A k \in 1..Len(p) : p[k].code \in {"INVALID", "NO_MEMORY", "never", "fault"}
    BY <1>4, <1>5
  <2> QED
    BY <1>2, <2>1 DEF Honest
<1>11. Tidy(p, name)
  BY <1>2, <1>6, <1>8, <1>9, <1>10 DEF Tidy, Frees
<1> QED
  BY <1>1, <1>11 DEF name

LEMMA CameraTidy == AreTidy("camera", gb_camera_handlers)
<1> DEFINE streams == <<"camera", "configure_streams">>
           flush == <<"camera", "flush">>
<1>1. \A path \in gb_camera_capabilities : Plain(path)
  BY Vocabulary, PlainTuples DEF gb_camera_capabilities
<1>2. \A path \in gb_camera_handlers["configure_streams"] : Tidy(path, streams)
  <2> DEFINE size == Need("size", "INVALID")
             in == In("state", Known, "INVALID")
             put == Put("state", "UNCONFIGURED")
             write == Writes("device_camera_set_streams_cfg", "errno")
             p == <<size, in, put, write, TryAlloc>>
  <2>1. gb_camera_handlers["configure_streams"] =
          {p, SetStreams("UNCONFIGURED"), SetStreams("CONFIGURED")}
    BY DEF gb_camera_handlers, gb_camera_configure_streams
  <2>2. streams \in Untidy /\ streams \in Careless
    BY DEF Untidy, Careless
  <2>3. IsAct(size) /\ IsAct(in) /\ IsAct(put) /\ IsAct(write)
    BY Vocabulary
  <2> HIDE DEF size, in, put, write, streams
  <2>4. \A s \in {size, in, put, write, TryAlloc} : IsSound(s, streams)
    BY <2>2, <2>3, ActIsSound, UnseenIsSound
  <2>5. Tidy(p, streams)
    BY <2>2, <2>4, FiveTidy
  <2>6. \A after : Tidy(SetStreams(after), streams)
    BY SetStreamsTidy DEF streams
  <2> QED
    BY <2>1, <2>5, <2>6
<1>3. \A path \in gb_camera_handlers["flush"] : Tidy(path, flush)
  <2> DEFINE in == In("state", {"CONFIGURED"}, "INVALID")
             write == Writes("device_camera_flush", "errno")
             put == Put("state", "CONFIGURED")
  <2>1. gb_camera_handlers["flush"] = {<<in, write, put, Alloc>>}
    BY DEF gb_camera_handlers, gb_camera_flush
  <2>2. flush \in Untidy
    BY DEF Untidy
  <2>3. \A s \in {in, write, put, Alloc} : IsAct(s)
    BY Vocabulary
  <2> HIDE DEF in, write, put, flush
  <2>4. Tidy(<<in, write, put, Alloc>>, flush)
    BY <2>2, <2>3, ActIsSound, FourTidy
  <2> QED
    BY <2>1, <2>4
<1>4. \A name : \A path \in gb_camera_handlers["capture"] : Tidy(path, name)
  BY CaptureTidy DEF gb_camera_handlers
<1>5. \A path \in gb_camera_handlers["version"] \cup gb_camera_handlers["capabilities"] :
        Plain(path)
  BY <1>1, VersionPlain DEF gb_camera_handlers, gb_camera_protocol_version
<1>6. DOMAIN gb_camera_handlers =
        {"version", "capabilities", "configure_streams", "capture", "flush"}
  BY DEF gb_camera_handlers
<1> QED
  BY <1>2, <1>3, <1>4, <1>5, <1>6, PlainIsTidy DEF AreTidy

(* loopback.c.                                                             *)
LEMMA LoopbackTidy == AreTidy("loopback", gb_loopback_handlers)
<1>1. \A path \in gb_loopback_transfer_req_cb : Plain(path)
  BY Vocabulary, PlainTuples DEF gb_loopback_transfer_req_cb
<1>2. ASSUME NEW op \in DOMAIN gb_loopback_handlers, NEW path \in gb_loopback_handlers[op]
      PROVE  Plain(path)
  BY <1>1, VersionPlain
     DEF gb_loopback_handlers, gb_loopback_protocol_ver_cb, gb_loopback_ping_sink_req_cb
<1> QED
  BY <1>2, PlainIsTidy DEF AreTidy

LEMMA HandlersAreTidy == ASSUME NEW d \in Drivers PROVE AreTidy(d, Handlers[d])
<1>1. d \in DOMAIN Handlers
  BY RequestsAssumption
<1> QED
  BY <1>1, GpioTidy, PwmTidy, LightsTidy, VibratorTidy, I2cTidy, SpiTidy, SdioTidy, UsbTidy,
     UartTidy, ControlTidy, HidTidy, PowerSupplyTidy, CameraTidy, LoopbackTidy
     DEF Handlers

-----------------------------------------------------------------------------
(* The handlers at work.                                                   *)

(* A handler before the i-th step of its path.                             *)
Underway(t, path, i) ==
  /\ t.todo = SubSeq(path, i, Len(path))
  /\ t.held \subseteq HeldAt(path, i)
  /\ t.changed => ChangedAt(path, i)

TaskOK(d, t) ==
  /\ DOMAIN t = DOMAIN Idle
  /\ t.pc \in {"idle", "run", "answer", "oom", "fault"} /\ t.resp \in {"none", "payload"}
  /\ t.id \in Workers \cup {NoId}
  /\ t.pc = "oom" => t.resp = "none"
  /\ t.pc = "idle" => t.todo = <<>>
  /\ t.pc \in {"idle", "answer", "oom"} => t.held = {}
  /\ t.pc = "fault" => <<d, t.op>> \in Crashing
  /\ t.pc = "run" =>
       /\ t.op \in DOMAIN Handlers[d]
       /\ \E path \in Handlers[d][t.op] : \E i \in 1..Len(path) + 1 : Underway(t, path, i)
       /\ t.failed => <<d, t.op>> \in Careless
  /\ t.pc \in {"answer", "oom"} =>
       /\ t.result = "SUCCESS" /\ t.failed => <<d, t.op>> \in Careless
       /\ t.result # "SUCCESS" /\ t.changed => <<d, t.op>> \in Untidy

HandlersInv ==
  /\ RequestsTypeOK
  /\ task = [w \in Workers |-> task[w]] /\ last = [w \in Workers |-> last[w]]
  /\ \A w \in Workers : TaskOK(drv, task[w])
  /\ AnswersAreTrue

LEMMA CodeFacts ==
  ASSUME NEW s, NEW err, err # "0"
  PROVE  /\ CodeOf(s, err) = "SUCCESS" => s.code = "SUCCESS"
         /\ CodeOf(s, err) = "ignored" => s.code \in {"ignored", "unless_ETIMEDOUT"}
         /\ CodeOf(s, err) = "fault" <=> s.code = "fault"
         /\ s.code = "ignored" => CodeOf(s, err) = "ignored"
<1>1. gb_errno_to_op_result(err) \notin {"SUCCESS", "ignored", "fault"}
  BY DEF gb_errno_to_op_result
<1> QED
  BY <1>1 DEF CodeOf

(* The step at hand of a handler on its path.                              *)
LEMMA StepAtHand ==
  ASSUME NEW d, AreTidy(d, Handlers[d]), NEW t, TaskOK(d, t), t.pc = "run"
  PROVE  \E path \in Handlers[d][t.op] : \E i \in 1..Len(path) + 1 :
           /\ Tidy(path, <<d, t.op>>) /\ Underway(t, path, i)
           /\ t.todo = <<>> => i = Len(path) + 1
           /\ t.todo # <<>> => /\ i \in 1..Len(path) /\ Head(t.todo) = path[i]
                               /\ Tail(t.todo) = SubSeq(path, i + 1, Len(path))
<1>1. PICK path \in Handlers[d][t.op] : \E i \in 1..Len(path) + 1 : Underway(t, path, i)
  BY DEF TaskOK
<1>2. PICK i \in 1..Len(path) + 1 : Underway(t, path, i)
  BY <1>1
<1>3. Tidy(path, <<d, t.op>>)
  BY DEF TaskOK, AreTidy
<1>4. PICK S : path \in Seq(S) /\ t.todo = SubSeq(path, i, Len(path))
  BY <1>2, <1>3 DEF Tidy, IsPath, Underway
<1>5. /\ t.todo = <<>> => i = Len(path) + 1
      /\ t.todo # <<>> => /\ i \in 1..Len(path) /\ Head(t.todo) = path[i]
                          /\ Tail(t.todo) = SubSeq(path, i + 1, Len(path))
  BY <1>4, SuffixFacts
<1> QED
  BY <1>2, <1>3, <1>5

(* What a handler holds and has changed after one step more.               *)
LEMMA NextHeld ==
  ASSUME NEW path, NEW i \in Nat \ {0}
  PROVE  /\ path[i].do # "free" => HeldAt(path, i) \subseteq HeldAt(path, i + 1)
         /\ HeldAt(path, i) \ {path[i].what} \subseteq HeldAt(path, i + 1)
         /\ path[i].do = "malloc" => path[i].what \in HeldAt(path, i + 1)
         /\ ChangedAt(path, i) => ChangedAt(path, i + 1)
         /\ path[i].do \in {"put", "write"} => ChangedAt(path, i + 1)
<1> DEFINE Kept(k, n) == /\ path[k].do = "malloc"
                         /\ \A m \in k + 1..n - 1 :
                              path[m].do = "free" => path[m].what # path[k].what
<1>1. \A n \in Nat : \A b :
        b \in HeldAt(path, n) <=> \E k \in 1..n - 1 : Kept(k, n) /\ path[k].what = b
  BY DEF HeldAt
<1>2. ASSUME NEW b \in HeldAt(path, i), path[i].do # "free" \/ path[i].what # b
      PROVE  b \in HeldAt(path, i + 1)
  <2>1. PICK k \in 1..i - 1 : Kept(k, i) /\ path[k].what = b
    BY <1>1, <1>2
  <2>2. k \in 1..(i + 1) - 1 /\ \A m \in k + 1..(i + 1) - 1 : m \in k + 1..i - 1 \/ m = i
    OBVIOUS
  <2>3. Kept(k, i + 1)
    BY <1>2, <2>1, <2>2
  <2> QED
    BY <1>1, <2>1, <2>2, <2>3
<1>3. path[i].do = "malloc" => path[i].what \in HeldAt(path, i + 1)
  <2>1. i \in 1..(i + 1) - 1 /\ i + 1..(i + 1) - 1 = {}
    OBVIOUS
  <2> QED
    BY <1>1, <2>1
<1>4. /\ ChangedAt(path, i) => ChangedAt(path, i + 1)
      /\ path[i].do \in {"put", "write"} => ChangedAt(path, i + 1)
  BY DEF ChangedAt
<1> QED
  BY <1>2, <1>3, <1>4

(* The handler goes on to its next step.                                   *)
LEMMA GoesOn ==
  ASSUME NEW d, AreTidy(d, Handlers[d]), NEW t, TaskOK(d, t), t.pc = "run", t.todo # <<>>,
         NEW u, u.todo = Tail(t.todo),
         DOMAIN u = DOMAIN t, u.pc = "run", u.op = t.op, u.id = t.id,
         u.resp \in {"none", "payload"},
         u.failed => <<d, t.op>> \in Careless,
         \/ u.held = t.held /\ Head(t.todo).do # "free"
         \/ u.held = t.held \ {Head(t.todo).what}
         \/ u.held = t.held \cup {Head(t.todo).what} /\ Head(t.todo).do = "malloc",
         u.changed => t.changed \/ Head(t.todo).do \in {"put", "write"}
  PROVE  TaskOK(d, u)
<1>1. PICK path \in Handlers[d][t.op] : \E i \in 1..Len(path) + 1 :
           /\ Tidy(path, <<d, t.op>>) /\ Underway(t, path, i)
           /\ i \in 1..Len(path) /\ Head(t.todo) = path[i]
           /\ Tail(t.todo) = SubSeq(path, i + 1, Len(path))
  BY StepAtHand
<1>2. PICK i \in 1..Len(path) + 1 :
           /\ Tidy(path, <<d, t.op>>) /\ Underway(t, path, i)
           /\ i \in 1..Len(path) /\ Head(t.todo) = path[i]
           /\ Tail(t.todo) = SubSeq(path, i + 1, Len(path))
  BY <1>1
<1>3. Len(path) \in Nat /\ i \in Nat \ {0} /\ i + 1 \in 1..Len(path) + 1
  <2>1. Len(path) \in Nat
    BY <1>2 DEF Tidy, IsPath
  <2> QED
    BY <1>2, <2>1
<1>4. Underway(u, path, i + 1)
  <2> DEFINE now == HeldAt(path, i)
             next == HeldAt(path, i + 1)
  <2>1. u.held \subseteq next
    <3>1. t.held \subseteq now /\ Head(t.todo) = path[i]
      BY <1>2 DEF Underway
    <3>2. /\ path[i].do # "free" => now \subseteq next
          /\ now \ {path[i].what} \subseteq next
          /\ path[i].do = "malloc" => path[i].what \in next
      BY <1>3, NextHeld
    <3> HIDE DEF now, next
    <3> QED
      BY <3>1, <3>2
  <2>2. u.changed => ChangedAt(path, i + 1)
    BY <1>2, <1>3, NextHeld DEF Underway
  <2> QED
    BY <1>2, <2>1, <2>2 DEF Underway
<1> QED
  BY <1>1, <1>3, <1>4 DEF TaskOK

LEMMA ReturnedIs ==
  ASSUME NEW t, DOMAIN t = DOMAIN Idle, NEW code, NEW frees
  PROVE  LET r == Returned(t, code, frees) IN
         /\ DOMAIN r = DOMAIN Idle
         /\ r.id \in {NoId, t.id}
         /\ code = "fault" => /\ r.pc = "fault" /\ r.op = t.op /\ r.resp = t.resp
         /\ code # "fault" =>
              /\ r.held = t.held \ frees
              /\ \/ r.pc = "idle" /\ r.todo = <<>> /\ r.resp = "none"
                 \/ /\ r.pc = "answer" /\ r.result = code /\ r.op = t.op /\ r.resp = t.resp
                    /\ r.failed = t.failed /\ r.changed = t.changed
<1>1. {"pc", "op", "id", "answer", "held", "todo", "result"} \subseteq DOMAIN Idle
      /\ Idle.pc = "idle" /\ Idle.todo = <<>> /\ Idle.resp = "none"
      /\ Idle.id = NoId
  BY DEF Idle
<1> QED
  BY <1>1 DEF Returned

(* The handler returns before the end of its path.                         *)
LEMMA GivesUp ==
  ASSUME NEW d, AreTidy(d, Handlers[d]), NEW t, TaskOK(d, t), t.pc = "run", t.todo # <<>>,
         NEW u, DOMAIN u = DOMAIN t, u.op = t.op, u.resp = t.resp, u.held = t.held,
         u.changed = t.changed, u.id = t.id, Head(t.todo).do \in Fallible,
         NEW code, code # "SUCCESS", Head(t.todo).code # "ignored",
         code = "fault" <=> Head(t.todo).code = "fault"
  PROVE  TaskOK(d, Returned(u, code, Head(t.todo).frees))
<1> DEFINE r == Returned(u, code, Head(t.todo).frees)
<1>1. PICK path \in Handlers[d][t.op] : \E i \in 1..Len(path) + 1 :
           /\ Tidy(path, <<d, t.op>>) /\ Underway(t, path, i)
           /\ i \in 1..Len(path) /\ Head(t.todo) = path[i]
  BY StepAtHand
<1>2. PICK i \in 1..Len(path) :
           Tidy(path, <<d, t.op>>) /\ Underway(t, path, i) /\ Head(t.todo) = path[i]
  BY <1>1
<1>3. /\ DOMAIN u = DOMAIN Idle /\ t.resp \in {"none", "payload"}
      /\ u.id = t.id /\ t.id \in Workers \cup {NoId}
  BY DEF TaskOK
<1>4. CASE code = "fault"
  <2>1. <<d, t.op>> \in Crashing
    BY <1>2, <1>4 DEF Tidy, Honest
  <2>2. /\ DOMAIN r = DOMAIN Idle /\ r.id \in {NoId, t.id} /\ r.pc = "fault"
        /\ r.op = t.op /\ r.resp = t.resp
    BY <1>3, <1>4, ReturnedIs
  <2> HIDE DEF r
  <2>3. TaskOK(d, r)
    BY <1>3, <2>1, <2>2 DEF TaskOK
  <2> QED
    BY <2>3 DEF r
<1>5. CASE code # "fault"
  <2>1. t.held \ path[i].frees = {}
    BY <1>2, <1>5 DEF Tidy, Frees, Underway
  <2>2. t.changed => <<d, t.op>> \in Untidy
    BY <1>2 DEF Tidy, AllOrNothing, Underway
  <2>3. /\ DOMAIN r = DOMAIN Idle /\ r.held = {} /\ r.id \in {NoId, t.id}
        /\ \/ r.pc = "idle" /\ r.todo = <<>> /\ r.resp = "none"
           \/ /\ r.pc = "answer" /\ r.result = code /\ r.op = t.op /\ r.resp = t.resp
              /\ r.changed = t.changed
    BY <1>2, <1>3, <1>5, <2>1, ReturnedIs
  <2> HIDE DEF r
  <2>4. TaskOK(d, r)
    BY <1>3, <2>2, <2>3 DEF TaskOK
  <2> QED
    BY <2>4 DEF r
<1> QED
  BY <1>4, <1>5

(* A worker's task becomes t, and what its host received stays or is this. *)
LEMMA TaskStep ==
  ASSUME HandlersInv, NEW w \in Workers, NEW t, Becomes(w, t), TaskOK(drv, t),
         drv' = drv, exiting' = exiting, oom_hdr' \in Workers \cup {NoId},
         taken' \in 0..MaxRequests[drv], oom_raced' \in BOOLEAN,
         \/ last' = last
         \/ \E a : /\ last' = [last EXCEPT ![w] = a]
                   /\ a.result = "SUCCESS" /\ a.failed => <<drv, a.op>> \in Careless
                   /\ a.result # "SUCCESS" /\ a.changed =>
                        <<drv, a.op>> \in Untidy \/ a.resp = "static"
  PROVE  HandlersInv'
<1>1. /\ task' = [v \in Workers |-> task'[v]] /\ task'[w] = t
      /\ \A v \in Workers : v # w => task'[v] = task[v]
  BY DEF HandlersInv, Becomes
<1>2. \A v \in Workers : TaskOK(drv, task'[v])
  BY <1>1 DEF HandlersInv
<1>3. last' = [v \in Workers |-> last'[v]]
  BY DEF HandlersInv
<1>4. RequestsTypeOK'
  BY <1>2 DEF HandlersInv, RequestsTypeOK, TaskOK
<1>5. \A v \in Workers :
        /\ last'[v].result = "SUCCESS" /\ last'[v].failed => <<drv, last'[v].op>> \in Careless
        /\ last'[v].result # "SUCCESS" /\ last'[v].changed =>
             <<drv, last'[v].op>> \in Untidy \/ last'[v].resp = "static"
  BY DEF HandlersInv, AnswersAreTrue, SuccessIsTrue, FailureLeavesDevice
<1>6. AnswersAreTrue'
  BY <1>5 DEF AnswersAreTrue, SuccessIsTrue, FailureLeavesDevice
<1>7. \A v \in Workers : TaskOK(drv, task[v])'
  BY <1>2 DEF TaskOK, Underway
<1> QED
  BY <1>1, <1>3, <1>4, <1>6, <1>7 DEF HandlersInv

LEMMA TaskTaken ==
  ASSUME HandlersInv, NEW w \in Workers, NEW t, Take(w, t), TaskOK(drv, t)
  PROVE  HandlersInv'
<1>1. taken \in Nat /\ MaxRequests[drv] \in Nat /\ taken + 1 \in 0..MaxRequests[drv]
  BY RequestsAssumption DEF HandlersInv, RequestsTypeOK, Take
<1>2. \E a : /\ last' = [last EXCEPT ![w] = a]
             /\ a.result = "SUCCESS" /\ a.failed => <<drv, a.op>> \in Careless
             /\ a.result # "SUCCESS" /\ a.changed =>
                  <<drv, a.op>> \in Untidy \/ a.resp = "static"
  <2>1. NoAnswer.result # "SUCCESS" /\ ~NoAnswer.changed
    BY DEF NoAnswer
  <2> QED
    BY <2>1 DEF Take
<1>3. /\ Becomes(w, t) /\ drv' = drv /\ exiting' = exiting /\ oom_hdr' = oom_hdr
      /\ taken' = taken + 1 /\ oom_raced' = oom_raced
  BY DEF Take
<1> QED
  BY <1>1, <1>2, <1>3, TaskStep DEF HandlersInv, RequestsTypeOK

LEMMA RequestTaken ==
  ASSUME HandlersInv, NEW w \in Workers,
         TakePing(w) \/ TakeUnknown(w) \/ TakeRequest(w)
  PROVE  HandlersInv'
<1>1. ASSUME NEW id \in {NoId, w}, NEW op, NEW result, NEW t,
             t = [Idle EXCEPT !.pc = "answer", !.op = op, !.id = id,
                              !.answer = TRUE, !.result = result]
      PROVE  TaskOK(drv, t)
  <2>1. /\ DOMAIN t = DOMAIN Idle /\ t.pc = "answer" /\ t.resp = "none" /\ t.held = {}
        /\ ~t.failed /\ ~t.changed /\ t.id = id
    BY <1>1 DEF Idle
  <2> QED
    BY <2>1 DEF TaskOK
<1>2. CASE TakePing(w)
  BY <1>1, <1>2, TaskTaken DEF TakePing
<1>3. CASE TakeUnknown(w)
  BY <1>1, <1>3, TaskTaken DEF TakeUnknown
<1>4. CASE TakeRequest(w)
  <2>1. PICK id \in {NoId, w}, op \in DOMAIN Handlers[drv] : \E path \in Handlers[drv][op] :
           Take(w, [Idle EXCEPT !.pc = "run", !.op = op, !.todo = path,
                                !.id = id, !.answer = id # NoId])
    BY <1>4 DEF TakeRequest
  <2>2. PICK path \in Handlers[drv][op] :
           Take(w, [Idle EXCEPT !.pc = "run", !.op = op, !.todo = path,
                                !.id = id, !.answer = id # NoId])
    BY <2>1
  <2> DEFINE t == [Idle EXCEPT !.pc = "run", !.op = op, !.todo = path,
                               !.id = id, !.answer = id # NoId]
  <2>3. /\ DOMAIN t = DOMAIN Idle /\ t.pc = "run" /\ t.resp = "none" /\ t.held = {}
        /\ ~t.failed /\ ~t.changed /\ t.id = id /\ t.op = op /\ t.todo = path
    BY DEF Idle
  <2> HIDE DEF t
  <2>4. PICK S : path \in Seq(S)
    BY <2>2, HandlersAreTidy DEF HandlersInv, RequestsTypeOK, AreTidy, Tidy, IsPath
  <2>5. 1 \in 1..Len(path) + 1 /\ path = SubSeq(path, 1, Len(path))
    BY <2>4
  <2>6. Underway(t, path, 1)
    BY <2>3, <2>5 DEF Underway
  <2>7. TaskOK(drv, t)
    BY <2>2, <2>3, <2>5, <2>6 DEF TaskOK
  <2> QED
    BY <2>2, <2>7, TaskTaken DEF t
<1> QED
  BY <1>2, <1>3, <1>4

(* A step of a handler: its task becomes one of these.                     *)
LEMMA TaskQuiet ==
  ASSUME HandlersInv, NEW w \in Workers, NEW t, Becomes(w, t), TaskOK(drv, t), Quiet
  PROVE  HandlersInv'
BY TaskStep DEF Quiet, HandlersInv, RequestsTypeOK

LEMMA FailedStep ==
  ASSUME HandlersInv, NEW w \in Workers, NEW kinds, At(w, kinds), kinds \subseteq Fallible,
         "need" \notin kinds, "in" \notin kinds, NEW err, err # "0", FailsWith(w, err)
  PROVE  HandlersInv'
<1> DEFINE t == task[w]
           s == Head(t.todo)
           code == CodeOf(s, err)
           u == [t EXCEPT !.failed = TRUE]
           v == [u EXCEPT !.todo = Tail(@)]
<1>1. /\ TaskOK(drv, t) /\ t.pc = "run" /\ t.todo # <<>> /\ s.do \in kinds
      /\ AreTidy(drv, Handlers[drv])
  BY HandlersAreTidy DEF HandlersInv, RequestsTypeOK, At, Running
<1>2. /\ DOMAIN t = DOMAIN Idle
      /\ {"pc", "op", "id", "todo", "held", "failed", "changed", "resp"} \subseteq DOMAIN Idle
  BY <1>1 DEF TaskOK, Idle
<1>3. /\ DOMAIN u = DOMAIN t /\ u.pc = "run" /\ u.op = t.op /\ u.id = t.id /\ u.resp = t.resp
      /\ u.held = t.held /\ u.changed = t.changed
  BY <1>1, <1>2
<1>4. /\ DOMAIN v = DOMAIN t /\ v.pc = "run" /\ v.op = t.op /\ v.id = t.id /\ v.resp = t.resp
      /\ v.held = t.held /\ v.changed = t.changed /\ v.todo = Tail(t.todo)
  BY <1>1, <1>2
<1>5. PICK path \in Handlers[drv][t.op] : \E i \in 1..Len(path) + 1 :
           /\ Tidy(path, <<drv, t.op>>)
           /\ i \in 1..Len(path) /\ Head(t.todo) = path[i]
  BY <1>1, StepAtHand
<1>6. PICK i \in 1..Len(path) : Tidy(path, <<drv, t.op>>) /\ s = path[i]
  BY <1>5
<1>7. /\ s.code # "SUCCESS"
      /\ s.code \in {"ignored", "unless_ETIMEDOUT"} => <<drv, t.op>> \in Careless
  BY <1>6 DEF Tidy, Honest
<1>8. Quiet /\ Becomes(w, IF code = "ignored" THEN v ELSE Returned(u, code, s.frees))
  BY DEF FailsWith, Now
<1>9. CASE code = "ignored"
  <2>1. <<drv, t.op>> \in Careless
    BY <1>7, <1>9, CodeFacts
  <2>2. t.resp \in {"none", "payload"} /\ s.do # "free"
    BY <1>1 DEF TaskOK, Fallible
  <2> HIDE DEF v
  <2>3. TaskOK(drv, v)
    BY <1>1, <1>4, <2>1, <2>2, GoesOn
  <2> QED
    BY <1>8, <1>9, <2>3, TaskQuiet
<1>10. CASE code # "ignored"
  <2>1. /\ code # "SUCCESS" /\ s.code # "ignored"
        /\ code = "fault" <=> s.code = "fault"
        /\ s.do \in Fallible
    BY <1>1, <1>7, <1>10, CodeFacts
  <2> HIDE DEF u, code
  <2>2. TaskOK(drv, Returned(u, code, s.frees))
    BY <1>1, <1>3, <2>1, GivesUp
  <2> QED
    BY <1>8, <1>10, <2>2, TaskQuiet
<1> QED
  BY <1>9, <1>10

LEMMA TidyHandler ==
  ASSUME HandlersInv, NEW w \in Workers,
         \/ Require(w) \/ Check(w) \/ Store(w) \/ Release(w) \/ AllocResponse(w)
         \/ AllocBuffer(w) \/ CallDevice(w) \/ Finish(w)
  PROVE  HandlersInv'
<1> DEFINE t == task[w]
           s == Head(t.todo)
           v == On(w)
<1>1. /\ TaskOK(drv, t) /\ t.pc = "run" /\ AreTidy(drv, Handlers[drv])
  BY HandlersAreTidy
     DEF HandlersInv, RequestsTypeOK, Require, Check, Store, Release, AllocResponse,
         AllocBuffer, CallDevice, Finish, At, Running, FailsWith
<1>2. /\ DOMAIN t = DOMAIN Idle /\ t.resp \in {"none", "payload"}
      /\ {"pc", "op", "id", "todo", "held", "failed", "changed", "resp"} \subseteq DOMAIN Idle
      /\ t.failed => <<drv, t.op>> \in Careless
      /\ t.id \in Workers \cup {NoId}
  BY <1>1 DEF TaskOK, Idle
<1>3. /\ DOMAIN v = DOMAIN t /\ v.pc = "run" /\ v.op = t.op /\ v.id = t.id /\ v.resp = t.resp
      /\ v.held = t.held /\ v.changed = t.changed /\ v.failed = t.failed
      /\ v.todo = Tail(t.todo)
  BY <1>1, <1>2 DEF On
<1>4. ASSUME NEW kinds, At(w, kinds)
      PROVE  t.todo # <<>> /\ s.do \in kinds /\ s = Now(w)
  BY <1>4 DEF At, Now
<1>5. ASSUME NEW kinds, At(w, kinds), "free" \notin kinds PROVE TaskOK(drv, v)
  BY <1>1, <1>2, <1>3, <1>4, <1>5, GoesOn
<1>6. ASSUME At(w, {"need", "in"}) PROVE TaskOK(drv, Returned(t, s.code, s.frees))
  <2>1. t.todo # <<>> /\ s.do \in {"need", "in"}
    BY <1>4, <1>6
  <2>2. PICK path \in Handlers[drv][t.op] : \E i \in 1..Len(path) + 1 :
           /\ Tidy(path, <<drv, t.op>>)
           /\ i \in 1..Len(path) /\ s = path[i]
    BY <1>1, <2>1, StepAtHand
  <2>3. s.code # "SUCCESS" /\ s.code # "ignored" /\ s.do \in Fallible
    BY <2>1, <2>2 DEF Tidy, Honest, Fallible
  <2> QED
    BY <1>1, <2>1, <2>3, GivesUp
<1>7. CASE Require(w)
  BY <1>4, <1>5, <1>6, <1>7, TaskQuiet DEF Require, At
<1>8. CASE Check(w)
  BY <1>4, <1>5, <1>6, <1>8, TaskQuiet DEF Check, At
<1>9. CASE Store(w)
  <2> DEFINE u == [v EXCEPT !.changed = TRUE]
  <2>1. t.todo # <<>> /\ s.do = "put"
    BY <1>4, <1>9 DEF Store
  <2>2. /\ DOMAIN u = DOMAIN t /\ u.pc = "run" /\ u.op = t.op /\ u.id = t.id /\ u.resp = t.resp
        /\ u.held = t.held /\ u.failed = t.failed /\ u.todo = Tail(t.todo)
    BY <1>2, <1>3
  <2> HIDE DEF u
  <2>3. TaskOK(drv, u)
    BY <1>1, <1>2, <2>1, <2>2, GoesOn
  <2> QED
    BY <1>9, <2>3, TaskQuiet DEF Store, u
<1>10. CASE Release(w)
  <2> DEFINE u == [v EXCEPT !.held = @ \ {Now(w).what}]
  <2>1. t.todo # <<>> /\ s = Now(w)
    BY <1>4, <1>10 DEF Release
  <2>2. /\ DOMAIN u = DOMAIN t /\ u.pc = "run" /\ u.op = t.op /\ u.id = t.id /\ u.resp = t.resp
        /\ u.held = t.held \ {s.what} /\ u.failed = t.failed /\ u.todo = Tail(t.todo)
        /\ u.changed = t.changed
    BY <1>2, <1>3, <2>1
  <2> HIDE DEF u
  <2>3. TaskOK(drv, u)
    BY <1>1, <1>2, <2>1, <2>2, GoesOn
  <2> QED
    BY <1>10, <2>3, TaskQuiet DEF Release, u
<1>11. CASE AllocResponse(w)
  <2>1. CASE FailsWith(w, "ENOMEM")
    BY <1>11, <2>1, FailedStep DEF AllocResponse, Fallible
  <2>2. CASE Becomes(w, [v EXCEPT !.resp = "payload"]) /\ Quiet
    <3> DEFINE u == [v EXCEPT !.resp = "payload"]
    <3>1. t.todo # <<>> /\ s.do = "alloc"
      BY <1>4, <1>11 DEF AllocResponse
    <3>2. /\ DOMAIN u = DOMAIN t /\ u.pc = "run" /\ u.op = t.op /\ u.id = t.id /\ u.resp = "payload"
          /\ u.held = t.held /\ u.failed = t.failed /\ u.todo = Tail(t.todo)
          /\ u.changed = t.changed
      BY <1>2, <1>3
    <3> HIDE DEF u
    <3>3. TaskOK(drv, u)
      BY <1>1, <1>2, <3>1, <3>2, GoesOn
    <3> QED
      BY <2>2, <3>3, TaskQuiet DEF u
  <2> QED
    BY <1>11, <2>1, <2>2 DEF AllocResponse
<1>12. CASE AllocBuffer(w)
  <2>1. CASE FailsWith(w, "ENOMEM")
    BY <1>12, <2>1, FailedStep DEF AllocBuffer, Fallible
  <2>2. CASE Becomes(w, [v EXCEPT !.held = @ \cup {Now(w).what}]) /\ Quiet
    <3> DEFINE u == [v EXCEPT !.held = @ \cup {Now(w).what}]
    <3>1. t.todo # <<>> /\ s.do = "malloc" /\ s = Now(w)
      BY <1>4, <1>12 DEF AllocBuffer
    <3>2. /\ DOMAIN u = DOMAIN t /\ u.pc = "run" /\ u.op = t.op /\ u.id = t.id /\ u.resp = t.resp
          /\ u.held = t.held \cup {s.what} /\ u.failed = t.failed /\ u.todo = Tail(t.todo)
          /\ u.changed = t.changed
      BY <1>2, <1>3, <3>1
    <3> HIDE DEF u
    <3>3. /\ u.resp \in {"none", "payload"} /\ (u.failed => <<drv, t.op>> \in Careless)
          /\ u.held = t.held \cup {Head(t.todo).what} /\ Head(t.todo).do = "malloc"
          /\ u.changed => t.changed
      BY <1>2, <3>1, <3>2
    <3>4. TaskOK(drv, u)
      BY <1>1, <3>1, <3>2, <3>3, GoesOn
    <3> QED
      BY <2>2, <3>4, TaskQuiet DEF u
  <2> QED
    BY <1>12, <2>1, <2>2 DEF AllocBuffer
<1>13. CASE CallDevice(w)
  <2>1. ASSUME NEW err \in Errnos[drv], FailsWith(w, err) PROVE HandlersInv'
    <3>1. err # "0"
      BY RequestsAssumption DEF HandlersInv, RequestsTypeOK
    <3>2. At(w, {"read", "write"})
      BY <1>13 DEF CallDevice
    <3> QED
      BY <2>1, <3>1, <3>2, FailedStep DEF Fallible
  <2>2. CASE Becomes(w, [v EXCEPT !.changed = @ \/ Now(w).do = "write"]) /\ Quiet
    <3> DEFINE u == [v EXCEPT !.changed = @ \/ Now(w).do = "write"]
    <3>1. t.todo # <<>> /\ s.do \in {"read", "write"} /\ s = Now(w)
      BY <1>4, <1>13 DEF CallDevice
    <3>2. /\ DOMAIN u = DOMAIN t /\ u.pc = "run" /\ u.op = t.op /\ u.id = t.id /\ u.resp = t.resp
          /\ u.held = t.held /\ u.failed = t.failed /\ u.todo = Tail(t.todo)
          /\ u.changed => t.changed \/ s.do = "write"
      BY <1>2, <1>3, <3>1
    <3> HIDE DEF u
    <3>3. TaskOK(drv, u)
      BY <1>1, <1>2, <3>1, <3>2, GoesOn
    <3> QED
      BY <2>2, <3>3, TaskQuiet DEF u
  <2> QED
    BY <1>13, <2>1, <2>2 DEF CallDevice
<1>14. CASE Finish(w)
  <2>1. t.todo = <<>>
    BY <1>14 DEF Finish
  <2>2. t.held = {}
    BY <1>1, <2>1, StepAtHand DEF Tidy, Frees, Underway
  <2> DEFINE r == Returned(t, "SUCCESS", {})
  <2>3. /\ DOMAIN r = DOMAIN Idle /\ r.held = {} /\ r.id \in {NoId, t.id}
        /\ \/ r.pc = "idle" /\ r.todo = <<>> /\ r.resp = "none"
           \/ /\ r.pc = "answer" /\ r.result = "SUCCESS" /\ r.op = t.op /\ r.resp = t.resp
              /\ r.failed = t.failed
    BY <1>2, <2>2, ReturnedIs
  <2>4. Becomes(w, r) /\ Quiet
    BY <1>14 DEF Finish
  <2> HIDE DEF r
  <2>5. TaskOK(drv, r)
    BY <1>2, <2>3 DEF TaskOK
  <2> QED
    BY <2>4, <2>5, TaskQuiet
<1> QED
  BY <1>7, <1>8, <1>9, <1>10, <1>11, <1>12, <1>13, <1>14

(* The answer is sent, filled in or lost.                                  *)
LEMMA IdleTask == ASSUME NEW d PROVE TaskOK(d, Idle)
  BY DEF TaskOK, Idle

LEMMA TidyAnswer ==
  ASSUME HandlersInv, NEW w \in Workers,
         NetDown(w) \/ SendResponse(w) \/ FillOom(w) \/ SendOom(w)
  PROVE  HandlersInv'
<1> DEFINE t == task[w]
<1>1. TaskOK(drv, t) /\ t.pc \in {"answer", "oom"}
  BY DEF HandlersInv, NetDown, SendResponse, FillOom, SendOom, Answering
<1>2. ASSUME Unsent(w) PROVE HandlersInv'
  BY <1>2, IdleTask, TaskStep DEF Unsent, HandlersInv, RequestsTypeOK
<1>3. ASSUME NEW id, NEW result, NEW resp, Sent(w, id, result, resp),
             \/ result = t.result
             \/ result # "SUCCESS" /\ resp = "static"
      PROVE  HandlersInv'
  <2> DEFINE a == [op |-> t.op, asked |-> t.id, id |-> id, result |-> result,
                   resp |-> resp, failed |-> t.failed, changed |-> t.changed]
  <2>1. /\ Becomes(w, Idle) /\ last' = [last EXCEPT ![w] = a]
        /\ UNCHANGED <<drv, st, exiting, oom_hdr, oom_raced, taken>>
    BY <1>3 DEF Sent
  <2>2. /\ a.result = "SUCCESS" /\ a.failed => <<drv, a.op>> \in Careless
        /\ a.result # "SUCCESS" /\ a.changed => <<drv, a.op>> \in Untidy \/ a.resp = "static"
    BY <1>1, <1>3 DEF TaskOK
  <2> HIDE DEF a
  <2> QED
    BY <2>1, <2>2, IdleTask, TaskStep DEF HandlersInv, RequestsTypeOK
<1>4. CASE NetDown(w)
  BY <1>2, <1>4 DEF NetDown
<1>5. CASE SendResponse(w)
  BY <1>2, <1>3, <1>5 DEF SendResponse
<1>6. CASE FillOom(w)
  <2> DEFINE u == [t EXCEPT !.pc = "oom"]
  <2>1. /\ DOMAIN u = DOMAIN t /\ u.pc = "oom" /\ u.resp = "none" /\ u.held = t.held
        /\ u.op = t.op /\ u.id = t.id /\ u.result = t.result
        /\ u.failed = t.failed /\ u.changed = t.changed
    BY <1>1, <1>6 DEF FillOom, TaskOK, Idle
  <2>2. t.id \in Workers \cup {NoId}
    BY <1>1 DEF TaskOK
  <2> HIDE DEF u
  <2>3. TaskOK(drv, u)
    BY <1>1, <2>1 DEF TaskOK
  <2>4. /\ Becomes(w, u) /\ oom_hdr' = t.id /\ last' = last /\ drv' = drv
        /\ exiting' = exiting /\ taken' = taken
    BY <1>6 DEF FillOom, Filled, u
  <2>5. oom_raced' \in BOOLEAN
    BY <1>6 DEF FillOom, HandlersInv, RequestsTypeOK
  <2> QED
    BY <2>2, <2>3, <2>4, <2>5, TaskStep DEF HandlersInv, RequestsTypeOK
<1>7. CASE SendOom(w)
  BY <1>2, <1>3, <1>7 DEF SendOom
<1> QED
  BY <1>4, <1>5, <1>6, <1>7

(* Every worker's task keeps to a tidy path, and so every answer is true.  *)
LEMMA HandlersHold == RequestsSpec => []HandlersInv
<1>1. RequestsInit => HandlersInv
  <2> SUFFICES ASSUME RequestsInit PROVE HandlersInv
    OBVIOUS
  <2>1. MaxRequests[drv] \in Nat
    BY RequestsAssumption DEF RequestsInit
  <2>2. \A w \in Workers : TaskOK(drv, task[w])
    BY IdleTask DEF RequestsInit
  <2>3. RequestsTypeOK
    <3>1. \A w \in Workers : task[w].pc = "idle" /\ task[w].resp = "none" /\ task[w].todo = <<>>
      BY DEF RequestsInit, Idle
    <3>2. taken \in 0..MaxRequests[drv]
      BY <2>1 DEF RequestsInit
    <3>3. drv \in Drivers /\ exiting = {} /\ oom_hdr = NoId /\ oom_raced = FALSE
      BY DEF RequestsInit
    <3> QED
      BY <3>1, <3>2, <3>3 DEF RequestsTypeOK
  <2>4. AnswersAreTrue
    BY DEF RequestsInit, AnswersAreTrue, SuccessIsTrue, FailureLeavesDevice, NoAnswer
  <2> QED
    BY <2>2, <2>3, <2>4 DEF RequestsInit, HandlersInv
<1>2. HandlersInv /\ [RequestsNext]_reqVars => HandlersInv'
  <2> SUFFICES ASSUME HandlersInv, [RequestsNext]_reqVars PROVE HandlersInv'
    OBVIOUS
  <2>1. ASSUME task' = task, last' = last, drv' = drv, oom_hdr' = oom_hdr, taken' = taken,
               oom_raced' = oom_raced, exiting' \subseteq Serving[drv]
        PROVE  HandlersInv'
    <3>1. RequestsTypeOK' /\ AnswersAreTrue'
      BY <2>1 DEF HandlersInv, RequestsTypeOK, AnswersAreTrue, SuccessIsTrue,
                  FailureLeavesDevice
    <3> QED
      BY <2>1, <3>1 DEF HandlersInv, TaskOK, Underway
  <2>2. CASE UNCHANGED reqVars
    BY <2>1, <2>2 DEF reqVars, HandlersInv, RequestsTypeOK
  <2>3. ASSUME NEW w \in Workers, RequestsStep(w) PROVE HandlersInv'
    <3>1. CASE ExitWorker(w)
      BY <2>1, <3>1 DEF ExitWorker, HandlersInv, RequestsTypeOK
    <3> QED
      BY <2>3, <3>1, RequestTaken, TidyHandler, TidyAnswer DEF RequestsStep
  <2> QED
    BY <2>2, <2>3 DEF RequestsNext
<1> QED
  BY <1>1, <1>2, PTL DEF RequestsSpec

(* What the host is told of a request is true, of a success and of a       *)
(* failure, but for the handlers listed (greybus-core.c:258-273).          *)
THEOREM AnswersCorrect == RequestsSpec => []AnswersAreTrue
<1>1. HandlersInv => AnswersAreTrue
  BY DEF HandlersInv
<1> QED
  BY <1>1, HandlersHold, PTL

(* Every way out of a handler frees what it allocated, and only two        *)
(* handlers go on through an unchecked pointer (camera.c:281-283,          *)
(* spi.c:134-143).                                                         *)
THEOREM NothingIsHeld == RequestsSpec => []NothingHeld
<1>1. HandlersInv => NothingHeld
  BY DEF HandlersInv, NothingHeld, TaskOK, Crashing
<1> QED
  BY <1>1, HandlersHold, PTL

-----------------------------------------------------------------------------
(* The life of a driver.                                                   *)

Kinds == {"zalloc", "open", "prepare", "attach", "keep", "bind", "close", "close_if_open",
          "free", "free_kept", "forget", "detach"}
LifeSteps == [do : Kinds, undo : {<<>>, <<FreeInfo>>, <<CloseDev, FreeInfo>>}]

Made == BundleCPorts \X (1..MaxLives)

(* What the state always is, with two cports in a bundle too.              *)
JobsOK ==
  /\ LifeTypeOK
  /\ job \in [BundleCPorts -> [pc : {"off", "init", "undo", "on", "exit"}, todo : Seq(LifeSteps)]]
  /\ dev \in [Homes -> Made \cup {Null, Array}] /\ priv \in [Homes -> Made \cup {Null}]
  /\ \A c \in BundleCPorts :
       /\ job[c].pc # "off" => lives[c] > 0
       /\ job[c].pc \in {"off", "on"} => job[c].todo = <<>>

(* A step of this kind comes before the i-th.                              *)
StepDone(s, i, kind) == \E j \in 1..i - 1 : s[j].do = kind

Allocs == {"pwm", "lights", "hid", "sdio", "power_supply", "camera"}
Opens == Allocs \cup {"usb"}
Attaches == {"lights", "hid", "sdio", "power_supply"}
Keeps == {"pwm", "lights", "hid", "camera"}

Has(c, info, handle, attached) ==
  /\ Own(c) \in infos <=> info
  /\ Own(c) \in handles <=> handle
  /\ <<Own(c), Own(c)>> \in callbacks <=> attached
  /\ handle => dev[HomeOf(c)] = Own(c)

OffInv(c) ==
  job[c].pc = "off" =>
    /\ Own(c) \notin handles /\ <<Own(c), Own(c)>> \notin callbacks
    /\ Own(c) \in infos => driverOf[c] \in Leaky

Todo(c, s, i) == job[c].todo = SubSeq(s, i, Len(s))

InitAt(c, s, i) ==
  /\ Todo(c, s, i)
  /\ Has(c, StepDone(s, i, "zalloc"), StepDone(s, i, "open"), StepDone(s, i, "attach"))
  /\ StepDone(s, i, "keep") \/ (driverOf[c] = "camera" /\ StepDone(s, i, "zalloc")) =>
       priv[HomeOf(c)] = Own(c)

InitInv(c) ==
  job[c].pc = "init" =>
    LET s == InitOf(driverOf[c]) IN \E i \in 1..Len(s) + 1 : InitAt(c, s, i)

UndoInv(c) ==
  job[c].pc = "undo" =>
    /\ job[c].todo \in {<<>>, <<FreeInfo>>, <<CloseDev, FreeInfo>>}
    /\ Has(c, Own(c) \in infos, job[c].todo = <<CloseDev, FreeInfo>>, FALSE)
    /\ job[c].todo # <<>> => Own(c) \in infos
    /\ job[c].todo = <<>> /\ Own(c) \in infos => driverOf[c] = "camera"

OnInv(c) ==
  job[c].pc = "on" =>
    LET d == driverOf[c] IN
    /\ job[c].todo = <<>>
    /\ Has(c, d \in Allocs, d \in Opens, d \in Attaches)
    /\ d \in Keeps => priv[HomeOf(c)] = Own(c)

ExitAt(c, s, i) ==
  LET d == driverOf[c] IN
  /\ Todo(c, s, i)
  /\ Has(c, d \in Allocs /\ ~(d \in Keeps /\ StepDone(s, i, "free_kept")),
            d \in Opens /\ ~StepDone(s, i, "close") /\ ~StepDone(s, i, "close_if_open"),
            d \in Attaches /\ ~StepDone(s, i, "detach"))
  /\ d \in Keeps /\ ~StepDone(s, i, "forget") => priv[HomeOf(c)] = Own(c)

ExitInv(c) ==
  job[c].pc = "exit" =>
    LET s == ExitOf(driverOf[c]) IN \E i \in 1..Len(s) + 1 : ExitAt(c, s, i)

BackInv(c) ==
  lives[c] > 0 =>
    /\ driverOf[c] \in OfArray => dev[HomeOf(c)] = Array
    /\ driverOf[c] \in Attaches \ Keeps => priv[HomeOf(c)] = Null

CPortInv(c) == OffInv(c) /\ InitInv(c) /\ UndoInv(c) /\ OnInv(c) /\ ExitInv(c) /\ BackInv(c)

AloneInv ==
  \A b, c \in BundleCPorts :
    b # c /\ lives[b] > 0 /\ lives[c] > 0 => HomeOf(b) # HomeOf(c)

FreshInv ==
  \A p \in Homes :
    (\A c \in BundleCPorts : HomeOf(c) = p => lives[c] = 0) =>
      dev[p] = (IF p = "bundle" THEN Array ELSE Null) /\ priv[p] = Null

MadeInv ==
  /\ handles \subseteq {Own(c) : c \in BundleCPorts}
  /\ callbacks \subseteq {<<Own(c), Own(c)>> : c \in BundleCPorts}
  /\ \A x \in infos : /\ x[2] <= lives[x[1]]
                      /\ x[2] = lives[x[1]] \/ driverOf[x[1]] \in Leaky

SoundInv ==
  ~crowded => /\ ~misused /\ AloneInv /\ FreshInv /\ MadeInv
              /\ \A c \in BundleCPorts : CPortInv(c)

LifeIInv == JobsOK /\ SoundInv

-----------------------------------------------------------------------------
(* The functions of the drivers, step by step.                             *)

LEMMA DoneNext ==
  ASSUME NEW s, NEW i \in Nat \ {0}, NEW kind
  PROVE  StepDone(s, i + 1, kind) <=> StepDone(s, i, kind) \/ s[i].do = kind
  BY DEF StepDone

LEMMA DoneFirst == ASSUME NEW s, NEW kind PROVE ~StepDone(s, 1, kind)
  BY DEF StepDone

(* The init functions: what has been done before each step of theirs, and  *)
(* what is undone when it fails.                                           *)
InitRow(d, s, i) ==
  LET undo == s[i].undo
      Before(kind) == StepDone(s, i, kind) IN
  /\ s[i].do \in {"zalloc", "open", "prepare", "attach", "keep", "bind"}
  /\ s[i].do = "zalloc" =>
       /\ d \in Allocs /\ undo = <<>>
       /\ ~Before("zalloc") /\ ~Before("open") /\ ~Before("attach") /\ ~Before("keep")
  /\ s[i].do = "open" =>
       /\ d \in Opens /\ ~Before("open") /\ ~Before("attach") /\ ~Before("keep")
       /\ \/ undo = <<FreeInfo>> /\ Before("zalloc")
          \/ undo = <<>> /\ (Before("zalloc") => d = "camera")
  /\ s[i].do \in {"prepare", "attach"} =>
       /\ undo = <<CloseDev, FreeInfo>>
       /\ Before("zalloc") /\ Before("open") /\ ~Before("attach") /\ ~Before("keep")
  /\ s[i].do = "keep" => d \in Keeps
  /\ s[i].do = "bind" =>
       /\ d \in OfArray /\ undo = <<>>
       /\ ~Before("zalloc") /\ ~Before("open") /\ ~Before("attach") /\ ~Before("keep")

InitEnd(d, s) ==
  LET n == Len(s) + 1 IN
  /\ StepDone(s, n, "zalloc") <=> d \in Allocs
  /\ StepDone(s, n, "open") <=> d \in Opens
  /\ StepDone(s, n, "attach") <=> d \in Attaches
  /\ d \in Keeps => StepDone(s, n, "keep") \/ d = "camera"

LEMMA InitTable ==
  ASSUME NEW d \in ClassDrivers, NEW s, s = InitOf(d)
  PROVE  /\ s \in Seq(LifeSteps)
         /\ \A i \in 1..Len(s) : InitRow(d, s, i)
         /\ \A i \in 1..Len(s) + 1 : StepDone(s, i, "attach") => StepDone(s, i, "zalloc")
         /\ InitEnd(d, s)
<1> USE DEF InitOf, LifeSteps, Kinds, InitRow, InitEnd, StepDone, Allocs, Opens, Attaches, Keeps,
            OfArray, Try, Do, CloseDev, FreeInfo
<1>1. CASE d = "pwm"
  BY <1>1 DEF gb_pwm_init
<1>2. CASE d = "lights"
  BY <1>2 DEF gb_lights_init
<1>3. CASE d = "hid"
  BY <1>3 DEF gb_hid_init
<1>4. CASE d = "sdio"
  BY <1>4 DEF gb_sdio_init
<1>5. CASE d = "power_supply"
  BY <1>5 DEF gb_power_supply_init
<1>6. CASE d = "camera"
  BY <1>6 DEF gb_camera_init
<1>7. CASE d = "usb"
  BY <1>7 DEF gb_usb_init
<1>8. CASE d = "gpio"
  BY <1>8 DEF gb_gpio_init
<1>9. CASE d = "i2c"
  BY <1>9 DEF gb_i2c_init
<1>10. CASE d = "spi"
  BY <1>10 DEF gb_spi_init
<1> QED
  BY <1>1, <1>2, <1>3, <1>4, <1>5, <1>6, <1>7, <1>8, <1>9, <1>10 DEF ClassDrivers

(* The exit functions.                                                     *)
ExitRow(d, s, i) ==
  LET Before(kind) == StepDone(s, i, kind)
      closed == Before("close") \/ Before("close_if_open") IN
  /\ s[i].do \in {"close", "close_if_open", "free_kept", "forget", "detach"}
  /\ s[i].do \in {"close", "close_if_open"} => d \in Opens /\ ~closed
  /\ s[i].do = "detach" => d \in Attaches /\ ~closed /\ ~Before("detach")
  /\ s[i].do = "free_kept" =>
       /\ d \in Allocs /\ ~Before("free_kept") /\ ~Before("forget")
       /\ d \in Attaches => Before("detach")
  /\ s[i].do = "forget" => d = "camera" /\ closed /\ Before("free_kept")

ExitEnd(d, s) ==
  LET n == Len(s) + 1 IN
  /\ d \in Opens => StepDone(s, n, "close") \/ StepDone(s, n, "close_if_open")
  /\ d \in Attaches => StepDone(s, n, "detach")
  /\ d \in Keeps => StepDone(s, n, "free_kept")

LEMMA ExitTable ==
  ASSUME NEW d \in ClassDrivers, NEW s, s = ExitOf(d)
  PROVE  /\ s \in Seq(LifeSteps)
         /\ \A i \in 1..Len(s) : ExitRow(d, s, i)
         /\ \A i \in 1..Len(s) + 1 :
              d \in Attaches /\ StepDone(s, i, "free_kept") => StepDone(s, i, "detach")
         /\ ExitEnd(d, s)
<1> USE DEF ExitOf, LifeSteps, Kinds, ExitRow, ExitEnd, StepDone, Allocs, Opens, Attaches, Keeps,
            OfArray, Do, CloseDev, FreeInfo
<1>1. CASE d = "pwm"
  BY <1>1 DEF gb_pwm_exit
<1>2. CASE d = "lights"
  BY <1>2 DEF gb_lights_exit
<1>3. CASE d = "hid"
  BY <1>3 DEF gb_hid_exit
<1>4. CASE d = "sdio"
  BY <1>4 DEF gb_sdio_exit
<1>5. CASE d = "power_supply"
  BY <1>5 DEF gb_power_supply_exit
<1>6. CASE d = "camera"
  BY <1>6 DEF gb_camera_exit
<1>7. CASE d = "usb"
  BY <1>7 DEF gb_usb_exit
<1>8. CASE d = "gpio"
  BY <1>8 DEF gb_gpio_exit
<1>9. CASE d = "i2c"
  BY <1>9 DEF gb_i2c_exit
<1>10. CASE d = "spi"
  BY <1>10 DEF gb_spi_exit
<1> QED
  BY <1>1, <1>2, <1>3, <1>4, <1>5, <1>6, <1>7, <1>8, <1>9, <1>10 DEF ClassDrivers

-----------------------------------------------------------------------------
(* Type correctness.                                                       *)

LEMMA OwnFacts ==
  ASSUME JobsOK, NEW c \in BundleCPorts
  PROVE  /\ driverOf[c] \in ClassDrivers /\ HomeOf(c) \in Homes
         /\ lives[c] \in Nat
         /\ lives[c] > 0 => Own(c) \in Made
         /\ \A b \in BundleCPorts : Own(b) = Own(c) => b = c
         /\ Null \notin infos
<1>1. driverOf[c] \in ClassDrivers /\ lives[c] \in 0..MaxLives /\ MaxLives \in Nat
  BY LifeAssumption DEF JobsOK, LifeTypeOK
<1>2. HomeOf(c) \in Homes
  BY DEF HomeOf, Homes
<1>3. lives[c] > 0 => Own(c) \in Made
  BY <1>1 DEF Own, Made
<1>4. \A b \in BundleCPorts : Own(b) = Own(c) => b = c
  BY DEF Own
<1>5. Null \notin infos
  BY NullAssumption DEF JobsOK, LifeTypeOK
<1> QED
  BY <1>1, <1>2, <1>3, <1>4, <1>5

UndoLists == {<<>>, <<FreeInfo>>, <<CloseDev, FreeInfo>>}
Jobs == [pc : {"off", "init", "undo", "on", "exit"}, todo : Seq(LifeSteps)]

LEMMA UndoFacts ==
  /\ UndoLists \subseteq Seq(LifeSteps)
  /\ <<FreeInfo>> # <<>> /\ Head(<<FreeInfo>>).do = "free" /\ Tail(<<FreeInfo>>) = <<>>
  /\ <<CloseDev, FreeInfo>> # <<>> /\ <<CloseDev, FreeInfo>> # <<FreeInfo>>
  /\ Head(<<CloseDev, FreeInfo>>).do = "close" /\ Tail(<<CloseDev, FreeInfo>>) = <<FreeInfo>>
  BY DEF UndoLists, LifeSteps, Kinds, FreeInfo, CloseDev, Do

(* A step of cport c changes its own job and what it says.                 *)
LEMMA JobsKept ==
  ASSUME JobsOK, NEW c \in BundleCPorts, Same, lives[c] > 0,
         NEW j \in Jobs, job' = [job EXCEPT ![c] = j], j.pc \in {"off", "on"} => j.todo = <<>>,
         infos' \subseteq Made, handles' \subseteq Made,
         dev' \in [Homes -> Made \cup {Null, Array}], priv' \in [Homes -> Made \cup {Null}],
         misused' \in BOOLEAN
  PROVE  JobsOK'
<1>1. LifeTypeOK'
  BY DEF JobsOK, LifeTypeOK, Same, Made, Jobs
<1>2. job' \in [BundleCPorts -> Jobs]
  BY DEF JobsOK, Jobs
<1>3. \A b \in BundleCPorts : /\ job'[b].pc # "off" => lives'[b] > 0
                              /\ job'[b].pc \in {"off", "on"} => job'[b].todo = <<>>
  BY DEF JobsOK, Same
<1> QED
  BY <1>1, <1>2, <1>3 DEF JobsOK, Jobs

(* What a step of a job is taken from.                                     *)
LEMMA StepFacts ==
  ASSUME JobsOK, NEW c \in BundleCPorts, job[c].todo # <<>>
  PROVE  /\ job[c] \in Jobs /\ job[c].pc \in {"init", "undo", "exit"} /\ lives[c] > 0
         /\ Own(c) \in Made
         /\ GoOn(c) => /\ job' = [job EXCEPT ![c] = [pc |-> job[c].pc, todo |-> Tail(job[c].todo)]]
                       /\ [pc |-> job[c].pc, todo |-> Tail(job[c].todo)] \in Jobs
         /\ GiveUp(c) => /\ Head(job[c].todo).undo \in UndoLists
                         /\ [pc |-> "undo", todo |-> Head(job[c].todo).undo] \in Jobs
<1>1. job[c] \in Jobs /\ job[c].pc \in {"init", "undo", "exit"} /\ lives[c] > 0
  BY DEF JobsOK, Jobs
<1>2. Head(job[c].todo) \in LifeSteps /\ Tail(job[c].todo) \in Seq(LifeSteps)
  BY <1>1 DEF Jobs
<1>3. Own(c) \in Made
  BY <1>1, OwnFacts
<1>4. [pc |-> job[c].pc, todo |-> Tail(job[c].todo)] \in Jobs
  BY <1>1, <1>2 DEF Jobs
<1>5. GoOn(c) => job' = [job EXCEPT ![c] = [pc |-> job[c].pc, todo |-> Tail(job[c].todo)]]
  BY <1>1 DEF GoOn, Jobs
<1>6. Head(job[c].todo).undo \in UndoLists
  BY <1>2 DEF LifeSteps, UndoLists
<1>7. [pc |-> "undo", todo |-> Head(job[c].todo).undo] \in Jobs
  BY <1>6, UndoFacts DEF Jobs
<1> QED
  BY <1>1, <1>3, <1>4, <1>5, <1>6, <1>7

(* The steps of an init, its undoing and an exit.                          *)
JobStep(c) ==
  \/ Zalloc(c) \/ Open(c) \/ Attach(c) \/ Prepare(c) \/ Keep(c) \/ Bind(c)
  \/ CloseIt(c) \/ FreeOwn(c) \/ FreeKept(c) \/ Forget(c) \/ Detach(c)

LEMMA JobStepType ==
  ASSUME JobsOK, NEW c \in BundleCPorts, JobStep(c)
  PROVE  JobsOK'
<1>1. job[c].todo # <<>> /\ Same /\ (GoOn(c) \/ GiveUp(c))
  BY DEF JobStep, Zalloc, Open, Attach, Prepare, Keep, Bind, CloseIt, FreeOwn, FreeKept,
         Forget, Detach, Does
<1>2. PICK j \in Jobs : job' = [job EXCEPT ![c] = j] /\ (j.pc \in {"off", "on"} => j.todo = <<>>)
  BY <1>1, StepFacts DEF GiveUp
<1>3. Own(c) \in Made /\ lives[c] > 0 /\ HomeOf(c) \in Homes
  BY <1>1, StepFacts, OwnFacts
<1>4. /\ infos \subseteq Made /\ handles \subseteq Made /\ misused \in BOOLEAN
      /\ dev \in [Homes -> Made \cup {Null, Array}] /\ priv \in [Homes -> Made \cup {Null}]
  BY DEF JobsOK, LifeTypeOK, Made
<1>5. infos' \subseteq Made /\ handles' \subseteq Made /\ misused' \in BOOLEAN
  BY <1>3, <1>4 DEF JobStep, Zalloc, Open, Attach, Prepare, Keep, Bind, CloseIt, FreeOwn,
                    FreeKept, Forget, Detach
<1>6. /\ dev' = dev \/ \E x \in Made \cup {Null} : dev' = [dev EXCEPT ![HomeOf(c)] = x]
      /\ priv' = priv \/ \E x \in Made \cup {Null} : priv' = [priv EXCEPT ![HomeOf(c)] = x]
  BY <1>3 DEF JobStep, Zalloc, Open, Attach, Prepare, Keep, Bind, CloseIt, FreeOwn,
              FreeKept, Forget, Detach, Emptied
<1>7. dev' \in [Homes -> Made \cup {Null, Array}] /\ priv' \in [Homes -> Made \cup {Null}]
  BY <1>4, <1>6
<1> QED
  BY <1>1, <1>2, <1>3, <1>5, <1>7, JobsKept

LEMMA ServedType ==
  ASSUME JobsOK, NEW c \in BundleCPorts, Served(c) \/ BeginExit(c)
  PROVE  JobsOK'
<1>1. ExitOf(driverOf[c]) \in Seq(LifeSteps)
  BY OwnFacts, ExitTable
<1>2. PICK j \in Jobs : job' = [job EXCEPT ![c] = j] /\ (j.pc \in {"off", "on"} => j.todo = <<>>)
  <2>1. /\ [pc |-> "on", todo |-> <<>>] \in Jobs /\ [pc |-> "off", todo |-> <<>>] \in Jobs
        /\ [pc |-> "exit", todo |-> ExitOf(driverOf[c])] \in Jobs
    BY <1>1, UndoFacts DEF Jobs, UndoLists
  <2> QED
    BY <2>1 DEF Served, BeginExit
<1>3. /\ infos \subseteq Made /\ handles \subseteq Made /\ misused \in BOOLEAN
      /\ dev \in [Homes -> Made \cup {Null, Array}] /\ priv \in [Homes -> Made \cup {Null}]
  BY DEF JobsOK, LifeTypeOK, Made
<1>4. lives[c] > 0
  BY DEF JobsOK, Served, BeginExit
<1>5. Same /\ UNCHANGED <<dev, priv, infos, handles, callbacks, misused>>
  BY DEF Served, BeginExit
<1> QED
  BY <1>2, <1>3, <1>4, <1>5, JobsKept

LEMMA BeginInitType ==
  ASSUME JobsOK, NEW c \in BundleCPorts, BeginInit(c)
  PROVE  JobsOK'
<1>1. InitOf(driverOf[c]) \in Seq(LifeSteps)
  BY OwnFacts, InitTable
<1>2. job' \in [BundleCPorts -> Jobs]
  <2>1. [pc |-> "init", todo |-> InitOf(driverOf[c])] \in Jobs
    BY <1>1 DEF Jobs
  <2> QED
    BY <2>1 DEF BeginInit, JobsOK, Jobs
<1>3. lives' \in [BundleCPorts -> 0..MaxLives]
  BY LifeAssumption DEF BeginInit, JobsOK, LifeTypeOK
<1>4. LifeTypeOK'
  BY <1>2, <1>3 DEF BeginInit, JobsOK, LifeTypeOK, Jobs
<1>5. \A b \in BundleCPorts : /\ job'[b].pc # "off" => lives'[b] > 0
                              /\ job'[b].pc \in {"off", "on"} => job'[b].todo = <<>>
  BY LifeAssumption DEF BeginInit, JobsOK, LifeTypeOK
<1> QED
  BY <1>2, <1>4, <1>5 DEF BeginInit, JobsOK, Jobs

LEMMA EventType ==
  ASSUME JobsOK, UNCHANGED <<job, dev, priv, infos, handles, callbacks>>, Same,
         misused' \in BOOLEAN
  PROVE  JobsOK'
  BY DEF JobsOK, LifeTypeOK, Same

-----------------------------------------------------------------------------
(* What a step of one cport's driver leaves alone.                         *)

(* Another cport of its own place is where it was.                         *)
LEMMA SameCPort ==
  ASSUME NEW b \in BundleCPorts, CPortInv(b), Same, job'[b] = job[b],
         Own(b) \in infos' <=> Own(b) \in infos, Own(b) \in handles' <=> Own(b) \in handles,
         <<Own(b), Own(b)>> \in callbacks' <=> <<Own(b), Own(b)>> \in callbacks,
         lives[b] > 0 \/ job[b].pc = "off",
         lives[b] > 0 => dev'[HomeOf(b)] = dev[HomeOf(b)] /\ priv'[HomeOf(b)] = priv[HomeOf(b)]
  PROVE  CPortInv(b)'
<1>1. /\ driverOf' = driverOf /\ Own(b)' = Own(b) /\ HomeOf(b)' = HomeOf(b)
      /\ lives' = lives
  BY DEF Same, Own, HomeOf
<1>2. OffInv(b)'
  BY <1>1 DEF CPortInv, OffInv
<1>3. CASE lives[b] > 0
  <2>1. ASSUME NEW x, NEW y, NEW z
        PROVE  Has(b, x, y, z) <=>
                 /\ Own(b)' \in infos' <=> x
                 /\ Own(b)' \in handles' <=> y
                 /\ <<Own(b)', Own(b)'>> \in callbacks' <=> z
                 /\ y => dev'[HomeOf(b)'] = Own(b)'
    BY <1>1, <1>3 DEF Has
  <2>2. InitInv(b)'
    BY <1>1, <1>3, <2>1 DEF CPortInv, InitInv, InitAt, Todo, Has
  <2>3. UndoInv(b)'
    BY <1>1, <1>3, <2>1 DEF CPortInv, UndoInv, Has
  <2>4. OnInv(b)'
    BY <1>1, <1>3, <2>1 DEF CPortInv, OnInv, Has
  <2>5. ExitInv(b)'
    BY <1>1, <1>3, <2>1 DEF CPortInv, ExitInv, ExitAt, Todo, Has
  <2>6. BackInv(b)'
    BY <1>1, <1>3 DEF CPortInv, BackInv
  <2> QED
    BY <1>2, <2>2, <2>3, <2>4, <2>5, <2>6 DEF CPortInv
<1>4. CASE ~(lives[b] > 0)
  BY <1>1, <1>2, <1>4 DEF CPortInv, InitInv, UndoInv, OnInv, ExitInv, BackInv
<1> QED
  BY <1>3, <1>4

(* A step of cport c that keeps its invariant and touches its own place,   *)
(* info, handle and callback only.                                         *)
Touches(c) ==
  /\ \A b \in BundleCPorts \ {c} : job'[b] = job[b]
  /\ \A p \in Homes \ {HomeOf(c)} : dev'[p] = dev[p] /\ priv'[p] = priv[p]
  /\ infos' \ {Own(c)} = infos \ {Own(c)}
  /\ handles' \ {Own(c)} = handles \ {Own(c)}
  /\ callbacks' \ {<<Own(c), Own(c)>>} = callbacks \ {<<Own(c), Own(c)>>}

LEMMA SoundStep ==
  ASSUME JobsOK, SoundInv, ~crowded, NEW c \in BundleCPorts, lives[c] > 0, Same,
         ~misused', Touches(c), CPortInv(c)'
  PROVE  SoundInv'
<1>1. driverOf' = driverOf /\ lives' = lives /\ crowded' = crowded
  BY DEF Same
<1>2. \A b \in BundleCPorts : Own(b)' = Own(b) /\ HomeOf(b)' = HomeOf(b)
  BY <1>1 DEF Own, HomeOf
<1>3. AloneInv'
  BY <1>1, <1>2 DEF SoundInv, AloneInv
<1>4. FreshInv'
  <2> SUFFICES ASSUME NEW p \in Homes, \A b \in BundleCPorts : HomeOf(b)' = p => lives'[b] = 0
               PROVE  dev'[p] = (IF p = "bundle" THEN Array ELSE Null) /\ priv'[p] = Null
    BY DEF FreshInv
  <2>1. p # HomeOf(c) /\ \A b \in BundleCPorts : HomeOf(b) = p => lives[b] = 0
    BY <1>1, <1>2
  <2> QED
    BY <2>1 DEF SoundInv, FreshInv, Touches
<1>5. MadeInv'
  <2>1. handles' \subseteq {Own(b) : b \in BundleCPorts}
    BY DEF Touches, SoundInv, MadeInv
  <2>2. callbacks' \subseteq {<<Own(b), Own(b)>> : b \in BundleCPorts}
    BY DEF Touches, SoundInv, MadeInv
  <2>3. Own(c)[2] = lives[Own(c)[1]]
    BY DEF Own
  <2>4. lives[Own(c)[1]] \in Nat
    BY OwnFacts DEF Own
  <2>5. ASSUME NEW x \in infos'
        PROVE  x[2] <= lives[x[1]] /\ (x[2] = lives[x[1]] \/ driverOf[x[1]] \in Leaky)
    <3>1. x \in infos \/ x = Own(c)
      BY DEF Touches
    <3> QED
      BY <2>3, <2>4, <3>1 DEF SoundInv, MadeInv
  <2>6. {Own(b)' : b \in BundleCPorts} = {Own(b) : b \in BundleCPorts}
        /\ {<<Own(b)', Own(b)'>> : b \in BundleCPorts} = {<<Own(b), Own(b)>> : b \in BundleCPorts}
    BY <1>2
  <2> QED
    BY <1>1, <2>1, <2>2, <2>5, <2>6 DEF MadeInv
<1>6. ASSUME NEW b \in BundleCPorts PROVE CPortInv(b)'
  <2>1. CASE b # c
    <3>1. Own(b) # Own(c) /\ HomeOf(b) \in Homes /\ lives[b] \in Nat
      BY <2>1, OwnFacts
    <3>2. lives[b] > 0 => HomeOf(b) # HomeOf(c)
      BY <2>1 DEF SoundInv, AloneInv
    <3>3. lives[b] > 0 \/ job[b].pc = "off"
      BY DEF JobsOK
    <3>4. /\ Own(b) \in infos' <=> Own(b) \in infos
          /\ Own(b) \in handles' <=> Own(b) \in handles
          /\ <<Own(b), Own(b)>> \in callbacks' <=> <<Own(b), Own(b)>> \in callbacks
      BY <3>1 DEF Touches
    <3>5. lives[b] > 0 => dev'[HomeOf(b)] = dev[HomeOf(b)] /\ priv'[HomeOf(b)] = priv[HomeOf(b)]
      BY <3>1, <3>2 DEF Touches
    <3>6. job'[b] = job[b] /\ CPortInv(b)
      BY <2>1 DEF Touches, SoundInv
    <3> QED
      BY <3>3, <3>4, <3>5, <3>6, SameCPort
  <2> QED
    BY <2>1
<1> QED
  BY <1>1, <1>3, <1>4, <1>5, <1>6 DEF SoundInv

-----------------------------------------------------------------------------
(* Where a cport is, from the kind of the step it takes.                   *)

InitHere(c, s, i) ==
  /\ job[c].pc = "init" /\ s = InitOf(driverOf[c]) /\ i \in 1..Len(s)
  /\ InitAt(c, s, i) /\ InitRow(driverOf[c], s, i)
  /\ job[c].todo # <<>> /\ Head(job[c].todo) = s[i]
  /\ Tail(job[c].todo) = SubSeq(s, i + 1, Len(s))

ExitHere(c, s, i) ==
  /\ job[c].pc = "exit" /\ s = ExitOf(driverOf[c]) /\ i \in 1..Len(s)
  /\ ExitAt(c, s, i) /\ ExitRow(driverOf[c], s, i)
  /\ job[c].todo # <<>> /\ Head(job[c].todo) = s[i]
  /\ Tail(job[c].todo) = SubSeq(s, i + 1, Len(s))

LEMMA Where ==
  ASSUME JobsOK, NEW c \in BundleCPorts, CPortInv(c), job[c].todo # <<>>
  PROVE  \/ \E s, i : InitHere(c, s, i)
         \/ job[c].pc = "undo" /\ job[c].todo \in {<<FreeInfo>>, <<CloseDev, FreeInfo>>}
         \/ \E s, i : ExitHere(c, s, i)
<1>1. job[c].pc \in {"init", "undo", "exit"} /\ driverOf[c] \in ClassDrivers
  BY StepFacts, OwnFacts
<1>2. CASE job[c].pc = "init"
  <2>1. PICK s : s = InitOf(driverOf[c])
    OBVIOUS
  <2>2. s \in Seq(LifeSteps) /\ \A i \in 1..Len(s) : InitRow(driverOf[c], s, i)
    BY <1>1, <2>1, InitTable
  <2>3. PICK i \in 1..Len(s) + 1 : InitAt(c, s, i)
    BY <1>2, <2>1 DEF CPortInv, InitInv
  <2>4. /\ i \in 1..Len(s) /\ Head(job[c].todo) = s[i]
        /\ Tail(job[c].todo) = SubSeq(s, i + 1, Len(s))
    BY <2>2, <2>3, SuffixFacts DEF InitAt, Todo
  <2>5. InitHere(c, s, i)
    BY <1>2, <2>1, <2>2, <2>3, <2>4 DEF InitHere
  <2> QED
    BY <2>5
<1>3. CASE job[c].pc = "undo"
  BY <1>3 DEF CPortInv, UndoInv
<1>4. CASE job[c].pc = "exit"
  <2>1. PICK s : s = ExitOf(driverOf[c])
    OBVIOUS
  <2>2. s \in Seq(LifeSteps) /\ \A i \in 1..Len(s) : ExitRow(driverOf[c], s, i)
    BY <1>1, <2>1, ExitTable
  <2>3. PICK i \in 1..Len(s) + 1 : ExitAt(c, s, i)
    BY <1>4, <2>1 DEF CPortInv, ExitInv
  <2>4. /\ i \in 1..Len(s) /\ Head(job[c].todo) = s[i]
        /\ Tail(job[c].todo) = SubSeq(s, i + 1, Len(s))
    BY <2>2, <2>3, SuffixFacts DEF ExitAt, Todo
  <2>5. ExitHere(c, s, i)
    BY <1>4, <2>1, <2>2, <2>3, <2>4 DEF ExitHere
  <2> QED
    BY <2>5
<1> QED
  BY <1>1, <1>2, <1>3, <1>4

LEMMA WhereKind ==
  ASSUME JobsOK, NEW c \in BundleCPorts, CPortInv(c), NEW kinds, Does(c, kinds)
  PROVE  /\ kinds \subseteq {"zalloc", "open", "prepare", "attach", "keep", "bind"} =>
              \E s, i : InitHere(c, s, i)
         /\ kinds \subseteq {"close_if_open", "free_kept", "forget", "detach"} =>
              \E s, i : ExitHere(c, s, i)
         /\ kinds = {"free"} => job[c].pc = "undo" /\ job[c].todo = <<FreeInfo>>
         /\ kinds \subseteq {"close", "close_if_open"} =>
              \/ job[c].pc = "undo" /\ job[c].todo = <<CloseDev, FreeInfo>>
              \/ \E s, i : ExitHere(c, s, i)
<1>1. job[c].todo # <<>> /\ Head(job[c].todo).do \in kinds
  BY DEF Does
<1>2. CASE \E s, i : InitHere(c, s, i)
  <2>1. Head(job[c].todo).do \in {"zalloc", "open", "prepare", "attach", "keep", "bind"}
    BY <1>2 DEF InitHere, InitRow
  <2> QED
    BY <1>1, <1>2, <2>1
<1>3. CASE job[c].pc = "undo" /\ job[c].todo \in {<<FreeInfo>>, <<CloseDev, FreeInfo>>}
  BY <1>1, <1>3, UndoFacts
<1>4. CASE \E s, i : ExitHere(c, s, i)
  <2>1. Head(job[c].todo).do \in {"close", "close_if_open", "free_kept", "forget", "detach"}
    BY <1>4 DEF ExitHere, ExitRow
  <2> QED
    BY <1>1, <1>4, <2>1
<1> QED
  BY <1>1, <1>2, <1>3, <1>4, Where

(* The invariant of a cport from the part of it that says something.       *)
LEMMA OnePart ==
  ASSUME NEW c \in BundleCPorts, BackInv(c)',
         \/ job'[c].pc = "off" /\ OffInv(c)'
         \/ job'[c].pc = "init" /\ InitInv(c)'
         \/ job'[c].pc = "undo" /\ UndoInv(c)'
         \/ job'[c].pc = "on" /\ OnInv(c)'
         \/ job'[c].pc = "exit" /\ ExitInv(c)'
  PROVE  CPortInv(c)'
  BY DEF CPortInv, OffInv, InitInv, UndoInv, OnInv, ExitInv

(* An init and an exit that go on.                                         *)
LEMMA InitGoesOn ==
  ASSUME JobsOK, NEW c \in BundleCPorts, NEW s, NEW i, InitHere(c, s, i), GoOn(c), Same,
         NEW info, NEW handle, NEW attached,
         info <=> Own(c) \in infos', handle <=> Own(c) \in handles',
         attached <=> <<Own(c), Own(c)>> \in callbacks',
         info <=> StepDone(s, i, "zalloc") \/ s[i].do = "zalloc",
         handle <=> StepDone(s, i, "open") \/ s[i].do = "open",
         attached <=> StepDone(s, i, "attach") \/ s[i].do = "attach",
         handle => dev'[HomeOf(c)] = Own(c),
         \/ StepDone(s, i, "keep") \/ s[i].do = "keep"
         \/ driverOf[c] = "camera" /\ info
         => priv'[HomeOf(c)] = Own(c)
  PROVE  job'[c].pc = "init" /\ InitInv(c)'
<1>1. s \in Seq(LifeSteps) /\ Len(s) \in Nat
  BY InitTable, OwnFacts DEF InitHere
<1>2. i \in Nat \ {0} /\ i + 1 \in 1..Len(s) + 1
  BY <1>1 DEF InitHere
<1>3. job'[c].pc = "init" /\ job'[c].todo = SubSeq(s, i + 1, Len(s))
  <2>1. job[c].todo # <<>>
    BY DEF InitHere
  <2>2. job' = [job EXCEPT ![c] = [pc |-> job[c].pc, todo |-> Tail(job[c].todo)]]
    BY <2>1, StepFacts
  <2>3. job[c].pc = "init" /\ Tail(job[c].todo) = SubSeq(s, i + 1, Len(s))
    BY DEF InitHere
  <2>4. c \in DOMAIN job
    BY DEF JobsOK
  <2> QED
    BY <2>2, <2>3, <2>4
<1>4. /\ driverOf' = driverOf /\ Own(c)' = Own(c) /\ HomeOf(c)' = HomeOf(c)
  BY DEF Same, Own, HomeOf
<1>5. Has(c, StepDone(s, i + 1, "zalloc"), StepDone(s, i + 1, "open"), StepDone(s, i + 1, "attach"))'
  BY <1>2, <1>4, DoneNext DEF Has
<1>6. InitAt(c, s, i + 1)'
  <2>1. Todo(c, s, i + 1)'
    BY <1>3 DEF Todo
  <2>2. StepDone(s, i + 1, "keep") \/ (driverOf[c] = "camera" /\ StepDone(s, i + 1, "zalloc"))
        => priv'[HomeOf(c)] = Own(c)
    BY <1>2, DoneNext
  <2> QED
    BY <1>4, <1>5, <2>1, <2>2 DEF InitAt
<1> QED
  BY <1>2, <1>3, <1>4, <1>6 DEF InitInv, InitHere

LEMMA ExitGoesOn ==
  ASSUME JobsOK, NEW c \in BundleCPorts, NEW s, NEW i, ExitHere(c, s, i), GoOn(c), Same,
         NEW info, NEW handle, NEW attached,
         info <=> Own(c) \in infos', handle <=> Own(c) \in handles',
         attached <=> <<Own(c), Own(c)>> \in callbacks',
         info <=> /\ driverOf[c] \in Allocs
                  /\ ~(driverOf[c] \in Keeps /\ (StepDone(s, i, "free_kept") \/ s[i].do = "free_kept")),
         handle <=> /\ driverOf[c] \in Opens
                    /\ ~(StepDone(s, i, "close") \/ s[i].do = "close")
                    /\ ~(StepDone(s, i, "close_if_open") \/ s[i].do = "close_if_open"),
         attached <=> /\ driverOf[c] \in Attaches
                      /\ ~(StepDone(s, i, "detach") \/ s[i].do = "detach"),
         handle => dev'[HomeOf(c)] = Own(c),
         driverOf[c] \in Keeps /\ ~(StepDone(s, i, "forget") \/ s[i].do = "forget")
           => priv'[HomeOf(c)] = Own(c)
  PROVE  job'[c].pc = "exit" /\ ExitInv(c)'
<1>1. s \in Seq(LifeSteps) /\ Len(s) \in Nat
  BY ExitTable, OwnFacts DEF ExitHere
<1>2. i \in Nat \ {0} /\ i + 1 \in 1..Len(s) + 1
  BY <1>1 DEF ExitHere
<1>3. job'[c].pc = "exit" /\ job'[c].todo = SubSeq(s, i + 1, Len(s))
  <2>1. job[c].todo # <<>>
    BY DEF ExitHere
  <2>2. job' = [job EXCEPT ![c] = [pc |-> job[c].pc, todo |-> Tail(job[c].todo)]]
    BY <2>1, StepFacts
  <2>3. job[c].pc = "exit" /\ Tail(job[c].todo) = SubSeq(s, i + 1, Len(s))
    BY DEF ExitHere
  <2>4. c \in DOMAIN job
    BY DEF JobsOK
  <2> QED
    BY <2>2, <2>3, <2>4
<1>4. /\ driverOf' = driverOf /\ Own(c)' = Own(c) /\ HomeOf(c)' = HomeOf(c)
  BY DEF Same, Own, HomeOf
<1>5. \A kind : StepDone(s, i + 1, kind) <=> StepDone(s, i, kind) \/ s[i].do = kind
  BY <1>2, DoneNext
<1>6. Has(c, driverOf[c] \in Allocs /\ ~(driverOf[c] \in Keeps /\ StepDone(s, i + 1, "free_kept")),
             /\ driverOf[c] \in Opens
             /\ ~StepDone(s, i + 1, "close") /\ ~StepDone(s, i + 1, "close_if_open"),
             driverOf[c] \in Attaches /\ ~StepDone(s, i + 1, "detach"))'
  BY <1>4, <1>5 DEF Has
<1>7. ExitAt(c, s, i + 1)'
  <2>1. Todo(c, s, i + 1)'
    BY <1>3 DEF Todo
  <2>2. driverOf[c] \in Keeps /\ ~StepDone(s, i + 1, "forget") => priv'[HomeOf(c)] = Own(c)
    BY <1>5
  <2> QED
    BY <1>4, <1>6, <2>1, <2>2 DEF ExitAt
<1> QED
  BY <1>2, <1>3, <1>4, <1>7 DEF ExitInv, ExitHere

(* A failed step of an init, that changes no more than its place: what is  *)
(* left to undo.                                                           *)
LEMMA InitGivesUp ==
  ASSUME JobsOK, NEW c \in BundleCPorts, NEW s, NEW i, InitHere(c, s, i), GiveUp(c), Same,
         s[i].do # "keep",
         UNCHANGED <<infos, handles, callbacks>>,
         dev'[HomeOf(c)] = dev[HomeOf(c)] \/ ~StepDone(s, i, "open")
  PROVE  job'[c].pc = "undo" /\ UndoInv(c)'
<1>1. job'[c] = [pc |-> "undo", todo |-> s[i].undo]
  BY DEF GiveUp, InitHere, JobsOK
<1>2. /\ driverOf' = driverOf /\ Own(c)' = Own(c) /\ HomeOf(c)' = HomeOf(c)
  BY DEF Same, Own, HomeOf
<1>3. Has(c, StepDone(s, i, "zalloc"), StepDone(s, i, "open"), StepDone(s, i, "attach"))
  BY DEF InitHere, InitAt
<1>4. \/ /\ s[i].undo = <<>> /\ ~StepDone(s, i, "open") /\ ~StepDone(s, i, "attach")
         /\ StepDone(s, i, "zalloc") => driverOf[c] = "camera"
      \/ /\ s[i].undo = <<FreeInfo>> /\ StepDone(s, i, "zalloc")
         /\ ~StepDone(s, i, "open") /\ ~StepDone(s, i, "attach")
      \/ /\ s[i].undo = <<CloseDev, FreeInfo>> /\ StepDone(s, i, "zalloc")
         /\ StepDone(s, i, "open") /\ ~StepDone(s, i, "attach")
  BY DEF InitHere, InitRow
<1> QED
  BY <1>1, <1>2, <1>3, <1>4, UndoFacts DEF UndoInv, Has

-----------------------------------------------------------------------------
(* The steps, one by one, while the cport shares its place with no other.  *)

LEMMA SetFacts ==
  /\ Keeps \subseteq Allocs /\ Attaches \subseteq Allocs /\ Allocs \subseteq Opens
  /\ Opens \cap OfArray = {} /\ ClassDrivers = Opens \cup OfArray
  /\ "camera" \in Keeps /\ "camera" \notin Attaches /\ "camera" \in Leaky
  /\ \A d \in Allocs \ Keeps : d \in Attaches /\ d \in Leaky
  /\ ReadsInfo \subseteq Keeps
  BY DEF Keeps, Attaches, Allocs, Opens, OfArray, ClassDrivers, Leaky, ReadsInfo

LEMMA Ready ==
  ASSUME JobsOK, SoundInv, ~crowded, NEW c \in BundleCPorts, job[c].todo # <<>>
  PROVE  /\ CPortInv(c) /\ BackInv(c) /\ lives[c] > 0 /\ ~misused /\ HomeOf(c) \in Homes
         /\ (GoOn(c) \/ GiveUp(c)) => \A b \in BundleCPorts \ {c} : job'[b] = job[b]
         /\ DOMAIN dev = Homes /\ DOMAIN priv = Homes
<1>1. CPortInv(c) /\ BackInv(c) /\ ~misused
  BY DEF SoundInv, CPortInv
<1>2. lives[c] > 0 /\ HomeOf(c) \in Homes
  BY StepFacts, OwnFacts
<1>3. (GoOn(c) \/ GiveUp(c)) => \A b \in BundleCPorts \ {c} : job'[b] = job[b]
  BY DEF GoOn, GiveUp, JobsOK
<1> QED
  BY <1>1, <1>2, <1>3 DEF JobsOK

LEMMA GoneOn ==
  ASSUME JobsOK, NEW c \in BundleCPorts, job[c].todo # <<>>, GoOn(c)
  PROVE  job'[c].pc = job[c].pc /\ job'[c].todo = Tail(job[c].todo)
<1>1. job' = [job EXCEPT ![c] = [pc |-> job[c].pc, todo |-> Tail(job[c].todo)]]
  BY StepFacts
<1>2. c \in DOMAIN job
  BY DEF JobsOK
<1> QED
  BY <1>1, <1>2

LEMMA BackKept ==
  ASSUME NEW c \in BundleCPorts, BackInv(c), Same,
         driverOf[c] \in OfArray => dev'[HomeOf(c)] = dev[HomeOf(c)],
         driverOf[c] \in Attaches \ Keeps => priv'[HomeOf(c)] = priv[HomeOf(c)]
  PROVE  BackInv(c)'
<1>1. driverOf' = driverOf /\ lives' = lives /\ HomeOf(c)' = HomeOf(c)
  BY DEF Same, HomeOf
<1> QED
  BY <1>1 DEF BackInv

LEMMA ZallocSound ==
  ASSUME JobsOK, SoundInv, ~crowded, NEW c \in BundleCPorts, Zalloc(c)
  PROVE  Touches(c) /\ CPortInv(c)' /\ ~misused'
<1>1. Does(c, {"zalloc"}) /\ Same /\ UNCHANGED <<handles, callbacks, misused>>
      /\ job[c].todo # <<>> /\ (GoOn(c) \/ GiveUp(c))
  BY DEF Zalloc, Does
<1>2. PICK s, i : InitHere(c, s, i)
  BY <1>1, Ready, WhereKind
<1>3. /\ s[i].do = "zalloc" /\ driverOf[c] \in Allocs
      /\ ~StepDone(s, i, "zalloc") /\ ~StepDone(s, i, "open") /\ ~StepDone(s, i, "attach") /\ ~StepDone(s, i, "keep")
  BY <1>1, <1>2 DEF InitHere, InitRow, Does
<1>4. /\ Own(c) \notin infos /\ Own(c) \notin handles /\ <<Own(c), Own(c)>> \notin callbacks
  BY <1>2, <1>3 DEF InitHere, InitAt, Has
<1>5. BackInv(c)'
  <2>1. driverOf[c] \notin OfArray /\ (driverOf[c] \in Attaches \ Keeps => driverOf[c] # "camera")
    BY <1>3, SetFacts
  <2> QED
    BY <1>1, <2>1, Ready, BackKept DEF Zalloc, Emptied
<1>6. Touches(c) /\ ~misused'
  BY <1>1, Ready DEF Zalloc, Emptied, Touches
<1>7. CASE GoOn(c) /\ infos' = infos \cup {Own(c)} /\ Emptied(c, Own(c))
  <2>1. driverOf[c] = "camera" => priv'[HomeOf(c)] = Own(c)
    BY <1>1, <1>7, Ready DEF Emptied
  <2>2. /\ Own(c) \in infos' /\ Own(c) \notin handles' /\ <<Own(c), Own(c)>> \notin callbacks'
    BY <1>1, <1>4, <1>7
  <2>3. job'[c].pc = "init" /\ InitInv(c)'
    BY <1>1, <1>2, <1>3, <1>7, <2>1, <2>2, InitGoesOn
  <2> QED
    BY <1>5, <1>6, <2>3, OnePart
<1>8. CASE GiveUp(c) /\ UNCHANGED infos
  <2>1. job'[c].pc = "undo" /\ UndoInv(c)'
    BY <1>1, <1>2, <1>3, <1>8, InitGivesUp
  <2> QED
    BY <1>5, <1>6, <2>1, OnePart
<1> QED
  BY <1>7, <1>8 DEF Zalloc

LEMMA OpenSound ==
  ASSUME JobsOK, SoundInv, ~crowded, NEW c \in BundleCPorts, Open(c)
  PROVE  Touches(c) /\ CPortInv(c)' /\ ~misused'
<1>1. Does(c, {"open"}) /\ Same /\ UNCHANGED <<priv, infos, callbacks, misused>>
      /\ job[c].todo # <<>> /\ (GoOn(c) \/ GiveUp(c))
  BY DEF Open, Does
<1>2. PICK s, i : InitHere(c, s, i)
  BY <1>1, Ready, WhereKind
<1>3. /\ s[i].do = "open" /\ driverOf[c] \in Opens
      /\ ~StepDone(s, i, "open") /\ ~StepDone(s, i, "attach") /\ ~StepDone(s, i, "keep")
  BY <1>1, <1>2 DEF InitHere, InitRow, Does
<1>4. /\ Own(c) \in infos <=> StepDone(s, i, "zalloc")
      /\ Own(c) \notin handles /\ <<Own(c), Own(c)>> \notin callbacks
      /\ driverOf[c] = "camera" /\ Own(c) \in infos => priv[HomeOf(c)] = Own(c)
  BY <1>2, <1>3 DEF InitHere, InitAt, Has
<1>5. BackInv(c)'
  <2>1. driverOf[c] \notin OfArray
    BY <1>3, SetFacts
  <2> QED
    BY <1>1, <2>1, Ready, BackKept
<1>6. Touches(c) /\ ~misused'
  BY <1>1, Ready DEF Open, Touches
<1>7. CASE GoOn(c) /\ handles' = handles \cup {Own(c)} /\ dev' = [dev EXCEPT ![HomeOf(c)] = Own(c)]
  <2>1. dev'[HomeOf(c)] = Own(c)
    BY <1>1, <1>7, Ready
  <2>2. /\ Own(c) \in infos' <=> Own(c) \in infos
        /\ Own(c) \in handles' /\ <<Own(c), Own(c)>> \notin callbacks'
        /\ priv' = priv
    BY <1>1, <1>4, <1>7
  <2>3. job'[c].pc = "init" /\ InitInv(c)'
    BY <1>1, <1>2, <1>3, <1>4, <1>7, <2>1, <2>2, InitGoesOn
  <2> QED
    BY <1>5, <1>6, <2>3, OnePart
<1>8. CASE GiveUp(c) /\ UNCHANGED handles
  <2>1. job'[c].pc = "undo" /\ UndoInv(c)'
    BY <1>1, <1>2, <1>3, <1>8, InitGivesUp
  <2> QED
    BY <1>5, <1>6, <2>1, OnePart
<1> QED
  BY <1>7, <1>8 DEF Open

LEMMA AttachSound ==
  ASSUME JobsOK, SoundInv, ~crowded, NEW c \in BundleCPorts, Attach(c)
  PROVE  Touches(c) /\ CPortInv(c)' /\ ~misused'
<1>1. Does(c, {"attach"}) /\ Same /\ UNCHANGED <<dev, priv, infos, handles, misused>>
      /\ job[c].todo # <<>> /\ (GoOn(c) \/ GiveUp(c))
  BY DEF Attach, Does
<1>2. PICK s, i : InitHere(c, s, i)
  BY <1>1, Ready, WhereKind
<1>3. /\ s[i].do = "attach" /\ StepDone(s, i, "zalloc") /\ StepDone(s, i, "open")
      /\ ~StepDone(s, i, "attach") /\ ~StepDone(s, i, "keep")
  BY <1>1, <1>2 DEF InitHere, InitRow, Does
<1>4. /\ Own(c) \in infos /\ Own(c) \in handles /\ dev[HomeOf(c)] = Own(c)
      /\ driverOf[c] = "camera" => priv[HomeOf(c)] = Own(c)
  BY <1>2, <1>3 DEF InitHere, InitAt, Has
<1>5. BackInv(c)'
  BY <1>1, Ready, BackKept
<1>6. Touches(c) /\ ~misused'
  BY <1>1, <1>4, Ready DEF Attach, Touches
<1>7. CASE GoOn(c) /\ callbacks' = callbacks \cup {<<dev[HomeOf(c)], Own(c)>>}
  <2>1. /\ Own(c) \in infos' /\ Own(c) \in handles' /\ <<Own(c), Own(c)>> \in callbacks'
        /\ dev'[HomeOf(c)] = Own(c) /\ priv' = priv
    BY <1>1, <1>4, <1>7
  <2>2. job'[c].pc = "init" /\ InitInv(c)'
    BY <1>1, <1>2, <1>3, <1>4, <1>7, <2>1, InitGoesOn
  <2> QED
    BY <1>5, <1>6, <2>2, OnePart
<1>8. CASE GiveUp(c) /\ UNCHANGED callbacks
  <2>1. job'[c].pc = "undo" /\ UndoInv(c)'
    BY <1>1, <1>2, <1>3, <1>8, InitGivesUp
  <2> QED
    BY <1>5, <1>6, <2>1, OnePart
<1> QED
  BY <1>7, <1>8 DEF Attach

LEMMA PrepareSound ==
  ASSUME JobsOK, SoundInv, ~crowded, NEW c \in BundleCPorts, Prepare(c)
  PROVE  Touches(c) /\ CPortInv(c)' /\ ~misused'
<1>1. Does(c, {"prepare"}) /\ Same /\ UNCHANGED <<dev, priv, infos, handles, callbacks, misused>>
      /\ job[c].todo # <<>> /\ (GoOn(c) \/ GiveUp(c))
  BY DEF Prepare, Does
<1>2. PICK s, i : InitHere(c, s, i)
  BY <1>1, Ready, WhereKind
<1>3. /\ s[i].do = "prepare" /\ StepDone(s, i, "zalloc") /\ StepDone(s, i, "open")
      /\ ~StepDone(s, i, "attach") /\ ~StepDone(s, i, "keep")
  BY <1>1, <1>2 DEF InitHere, InitRow, Does
<1>4. /\ Own(c) \in infos /\ Own(c) \in handles /\ <<Own(c), Own(c)>> \notin callbacks
      /\ dev[HomeOf(c)] = Own(c)
      /\ driverOf[c] = "camera" => priv[HomeOf(c)] = Own(c)
  BY <1>2, <1>3 DEF InitHere, InitAt, Has
<1>5. BackInv(c)'
  BY <1>1, Ready, BackKept
<1>6. Touches(c) /\ ~misused'
  BY <1>1, Ready DEF Touches
<1>7. CASE GoOn(c)
  <2>1. /\ Own(c) \in infos' /\ Own(c) \in handles' /\ <<Own(c), Own(c)>> \notin callbacks'
        /\ dev'[HomeOf(c)] = Own(c) /\ priv' = priv
    BY <1>1, <1>4
  <2>2. job'[c].pc = "init" /\ InitInv(c)'
    BY <1>1, <1>2, <1>3, <1>4, <1>7, <2>1, InitGoesOn
  <2> QED
    BY <1>5, <1>6, <2>2, OnePart
<1>8. CASE GiveUp(c)
  <2>1. job'[c].pc = "undo" /\ UndoInv(c)'
    BY <1>1, <1>2, <1>3, <1>8, InitGivesUp
  <2> QED
    BY <1>5, <1>6, <2>1, OnePart
<1> QED
  BY <1>1, <1>7, <1>8

LEMMA KeepSound ==
  ASSUME JobsOK, SoundInv, ~crowded, NEW c \in BundleCPorts, Keep(c)
  PROVE  Touches(c) /\ CPortInv(c)' /\ ~misused'
<1>1. /\ Does(c, {"keep"}) /\ Same /\ UNCHANGED <<dev, infos, handles, callbacks, misused>>
      /\ job[c].todo # <<>> /\ GoOn(c) /\ priv' = [priv EXCEPT ![HomeOf(c)] = Own(c)]
  BY DEF Keep, Does
<1>2. PICK s, i : InitHere(c, s, i)
  BY <1>1, Ready, WhereKind
<1>3. s[i].do = "keep" /\ driverOf[c] \in Keeps
  BY <1>1, <1>2 DEF InitHere, InitRow, Does
<1>4. Has(c, StepDone(s, i, "zalloc"), StepDone(s, i, "open"), StepDone(s, i, "attach"))
  BY <1>2 DEF InitHere, InitAt
<1>5. BackInv(c)'
  BY <1>1, <1>3, Ready, BackKept
<1>6. Touches(c) /\ ~misused'
  BY <1>1, Ready DEF Touches
<1>7. priv'[HomeOf(c)] = Own(c)
  BY <1>1, Ready
<1>8. /\ Own(c) \in infos' <=> StepDone(s, i, "zalloc")
      /\ Own(c) \in handles' <=> StepDone(s, i, "open")
      /\ <<Own(c), Own(c)>> \in callbacks' <=> StepDone(s, i, "attach")
      /\ StepDone(s, i, "open") => dev'[HomeOf(c)] = Own(c)
  BY <1>1, <1>4 DEF Has
<1>9. job'[c].pc = "init" /\ InitInv(c)'
  BY <1>1, <1>2, <1>3, <1>7, <1>8, InitGoesOn
<1> QED
  BY <1>5, <1>6, <1>9, OnePart

LEMMA BindSound ==
  ASSUME JobsOK, SoundInv, ~crowded, NEW c \in BundleCPorts, Bind(c)
  PROVE  Touches(c) /\ CPortInv(c)' /\ ~misused'
<1>1. Does(c, {"bind"}) /\ Same /\ UNCHANGED <<dev, priv, infos, handles, callbacks>>
      /\ job[c].todo # <<>> /\ (GoOn(c) \/ GiveUp(c))
      /\ misused' = (misused \/ dev[HomeOf(c)] # Array)
  BY DEF Bind, Does
<1>2. PICK s, i : InitHere(c, s, i)
  BY <1>1, Ready, WhereKind
<1>3. /\ s[i].do = "bind" /\ driverOf[c] \in OfArray
      /\ ~StepDone(s, i, "zalloc") /\ ~StepDone(s, i, "open") /\ ~StepDone(s, i, "attach") /\ ~StepDone(s, i, "keep")
  BY <1>1, <1>2 DEF InitHere, InitRow, Does
<1>4. Own(c) \notin infos /\ Own(c) \notin handles /\ <<Own(c), Own(c)>> \notin callbacks
  BY <1>2, <1>3 DEF InitHere, InitAt, Has
<1>5. BackInv(c)'
  BY <1>1, Ready, BackKept
<1>6. Touches(c) /\ ~misused'
  <2>1. dev[HomeOf(c)] = Array
    BY <1>1, <1>3, Ready DEF BackInv
  <2> QED
    BY <1>1, <2>1, Ready DEF Touches
<1>7. CASE GoOn(c)
  <2>1. Own(c) \notin infos' /\ Own(c) \notin handles' /\ <<Own(c), Own(c)>> \notin callbacks'
    BY <1>1, <1>4
  <2>2. job'[c].pc = "init" /\ InitInv(c)'
    BY <1>1, <1>2, <1>3, <1>7, <2>1, InitGoesOn
  <2> QED
    BY <1>5, <1>6, <2>2, OnePart
<1>8. CASE GiveUp(c)
  <2>1. job'[c].pc = "undo" /\ UndoInv(c)'
    BY <1>1, <1>2, <1>3, <1>8, InitGivesUp
  <2> QED
    BY <1>5, <1>6, <2>1, OnePart
<1> QED
  BY <1>1, <1>7, <1>8

(* An exit closes the device it has open; so does the undoing of an init.  *)
LEMMA CloseSound ==
  ASSUME JobsOK, SoundInv, ~crowded, NEW c \in BundleCPorts, CloseIt(c)
  PROVE  Touches(c) /\ CPortInv(c)' /\ ~misused'
<1>1. /\ Does(c, {"close", "close_if_open"}) /\ Same /\ UNCHANGED <<dev, priv, infos, callbacks>>
      /\ job[c].todo # <<>> /\ GoOn(c)
      /\ handles' = handles \ {dev[HomeOf(c)]}
      /\ dev[HomeOf(c)] \in handles /\ ~misused => ~misused'
  BY DEF CloseIt, Does
<1>2. BackInv(c)'
  BY <1>1, Ready, BackKept
<1>3. ASSUME Own(c) \in handles, dev[HomeOf(c)] = Own(c)
      PROVE  Touches(c) /\ ~misused' /\ Own(c) \notin handles'
  BY <1>1, <1>3, Ready DEF Touches
<1>4. CASE job[c].pc = "undo" /\ job[c].todo = <<CloseDev, FreeInfo>>
  <2>1. /\ Own(c) \in infos /\ Own(c) \in handles /\ <<Own(c), Own(c)>> \notin callbacks
        /\ dev[HomeOf(c)] = Own(c)
    BY <1>1, <1>4, UndoFacts, Ready DEF CPortInv, UndoInv, Has
  <2>2. Touches(c) /\ ~misused' /\ Own(c) \notin handles'
    BY <1>3, <2>1
  <2>3. job'[c].pc = "undo" /\ job'[c].todo = <<FreeInfo>>
    BY <1>1, <1>4, UndoFacts, GoneOn
  <2>4. Own(c)' = Own(c)
    BY <1>1 DEF Own, Same
  <2>5. UndoInv(c)'
    BY <1>1, <2>1, <2>2, <2>3, <2>4, UndoFacts DEF UndoInv, Has
  <2> QED
    BY <1>2, <2>2, <2>3, <2>5, OnePart
<1>5. ASSUME NEW s, NEW i, ExitHere(c, s, i) PROVE Touches(c) /\ CPortInv(c)' /\ ~misused'
  <2>1. /\ s[i].do \in {"close", "close_if_open"} /\ driverOf[c] \in Opens
        /\ ~StepDone(s, i, "close") /\ ~StepDone(s, i, "close_if_open")
    BY <1>1, <1>5 DEF ExitHere, ExitRow, Does
  <2>2. /\ Own(c) \in infos <=>
             driverOf[c] \in Allocs /\ ~(driverOf[c] \in Keeps /\ StepDone(s, i, "free_kept"))
        /\ Own(c) \in handles /\ dev[HomeOf(c)] = Own(c)
        /\ <<Own(c), Own(c)>> \in callbacks <=> driverOf[c] \in Attaches /\ ~StepDone(s, i, "detach")
        /\ driverOf[c] \in Keeps /\ ~StepDone(s, i, "forget") => priv[HomeOf(c)] = Own(c)
    BY <1>5, <2>1 DEF ExitHere, ExitAt, Has
  <2>3. Touches(c) /\ ~misused' /\ Own(c) \notin handles'
    BY <1>3, <2>2
  <2>4. /\ Own(c) \in infos' <=> Own(c) \in infos
        /\ <<Own(c), Own(c)>> \in callbacks' <=> <<Own(c), Own(c)>> \in callbacks
        /\ priv' = priv
    BY <1>1
  <2>5. job'[c].pc = "exit" /\ ExitInv(c)'
    BY <1>1, <1>5, <2>1, <2>2, <2>3, <2>4, ExitGoesOn
  <2> QED
    BY <1>2, <2>3, <2>5, OnePart
<1> QED
  BY <1>1, <1>4, <1>5, Ready, WhereKind

LEMMA FreeOwnSound ==
  ASSUME JobsOK, SoundInv, ~crowded, NEW c \in BundleCPorts, FreeOwn(c)
  PROVE  Touches(c) /\ CPortInv(c)' /\ ~misused'
<1>1. /\ Does(c, {"free"}) /\ Same /\ UNCHANGED <<dev, priv, handles, callbacks, misused>>
      /\ job[c].todo # <<>> /\ GoOn(c) /\ infos' = infos \ {Own(c)}
  BY DEF FreeOwn, Does
<1>2. BackInv(c)'
  BY <1>1, Ready, BackKept
<1>3. Touches(c) /\ ~misused'
  BY <1>1, Ready DEF Touches
<1>4. job[c].pc = "undo" /\ job[c].todo = <<FreeInfo>>
  BY <1>1, Ready, WhereKind
<1>5. Own(c) \notin handles /\ <<Own(c), Own(c)>> \notin callbacks
  BY <1>1, <1>4, UndoFacts, Ready DEF CPortInv, UndoInv, Has
<1>6. job'[c].pc = "undo" /\ job'[c].todo = <<>>
  BY <1>1, <1>4, UndoFacts, GoneOn
<1>7. Own(c)' = Own(c)
  BY <1>1 DEF Own, Same
<1>8. UndoInv(c)'
  BY <1>1, <1>5, <1>6, <1>7, UndoFacts DEF UndoInv, Has
<1> QED
  BY <1>2, <1>3, <1>6, <1>8, OnePart

(* An exit frees the info its init kept; sdio.c's and power_supply.c's     *)
(* kept none, and free the null pointer.                                   *)
LEMMA FreeKeptSound ==
  ASSUME JobsOK, SoundInv, ~crowded, NEW c \in BundleCPorts, FreeKept(c)
  PROVE  Touches(c) /\ CPortInv(c)' /\ ~misused'
<1>1. /\ Does(c, {"free_kept"}) /\ Same /\ UNCHANGED <<dev, priv, handles, callbacks>>
      /\ job[c].todo # <<>> /\ GoOn(c)
      /\ infos' = infos \ {priv[HomeOf(c)]}
      /\ misused' = (misused \/ priv[HomeOf(c)] \notin infos \cup {Null})
  BY DEF FreeKept, Does
<1>2. PICK s, i : ExitHere(c, s, i)
  BY <1>1, Ready, WhereKind
<1>3. /\ s[i].do = "free_kept" /\ driverOf[c] \in Allocs
      /\ ~StepDone(s, i, "free_kept") /\ ~StepDone(s, i, "forget")
      /\ driverOf[c] \in Attaches => StepDone(s, i, "detach")
  BY <1>1, <1>2 DEF ExitHere, ExitRow, Does
<1>4. /\ Own(c) \in infos
      /\ Own(c) \in handles <=>
           /\ driverOf[c] \in Opens
           /\ ~StepDone(s, i, "close") /\ ~StepDone(s, i, "close_if_open")
      /\ Own(c) \in handles => dev[HomeOf(c)] = Own(c)
      /\ <<Own(c), Own(c)>> \in callbacks <=> driverOf[c] \in Attaches /\ ~StepDone(s, i, "detach")
      /\ driverOf[c] \in Keeps => priv[HomeOf(c)] = Own(c)
  BY <1>2, <1>3 DEF ExitHere, ExitAt, Has
<1>5. BackInv(c)'
  BY <1>1, Ready, BackKept
<1>6. driverOf[c] \notin Keeps => priv[HomeOf(c)] = Null /\ Null \notin infos
  BY <1>1, <1>3, SetFacts, Ready, OwnFacts DEF BackInv
<1>7. Touches(c) /\ ~misused'
  BY <1>1, <1>4, <1>6, Ready DEF Touches
<1>8. /\ Own(c) \in infos' <=> driverOf[c] \notin Keeps
      /\ Own(c) \in handles' <=> Own(c) \in handles
      /\ <<Own(c), Own(c)>> \in callbacks' <=> <<Own(c), Own(c)>> \in callbacks
      /\ priv' = priv /\ dev' = dev
  BY <1>1, <1>4, <1>6
<1>9. job'[c].pc = "exit" /\ ExitInv(c)'
  BY <1>1, <1>2, <1>3, <1>4, <1>8, ExitGoesOn
<1> QED
  BY <1>5, <1>7, <1>9, OnePart

LEMMA ForgetSound ==
  ASSUME JobsOK, SoundInv, ~crowded, NEW c \in BundleCPorts, Forget(c)
  PROVE  Touches(c) /\ CPortInv(c)' /\ ~misused'
<1>1. /\ Does(c, {"forget"}) /\ Same /\ UNCHANGED <<infos, handles, callbacks, misused>>
      /\ job[c].todo # <<>> /\ GoOn(c)
      /\ priv' = [priv EXCEPT ![HomeOf(c)] = Null] /\ dev' = [dev EXCEPT ![HomeOf(c)] = Null]
  BY DEF Forget, Does
<1>2. PICK s, i : ExitHere(c, s, i)
  BY <1>1, Ready, WhereKind
<1>3. /\ s[i].do = "forget" /\ driverOf[c] = "camera"
      /\ StepDone(s, i, "close") \/ StepDone(s, i, "close_if_open")
      /\ StepDone(s, i, "free_kept")
  BY <1>1, <1>2 DEF ExitHere, ExitRow, Does
<1>4. Own(c) \notin infos /\ Own(c) \notin handles /\ <<Own(c), Own(c)>> \notin callbacks
  BY <1>2, <1>3, SetFacts DEF ExitHere, ExitAt, Has
<1>5. BackInv(c)'
  <2>1. driverOf[c] \notin OfArray /\ driverOf[c] \notin Attaches \ Keeps
    BY <1>3, SetFacts
  <2> QED
    BY <1>1, <2>1, Ready, BackKept
<1>6. Touches(c) /\ ~misused'
  BY <1>1, Ready DEF Touches
<1>7. Own(c) \notin infos' /\ Own(c) \notin handles' /\ <<Own(c), Own(c)>> \notin callbacks'
  BY <1>1, <1>4
<1>8. job'[c].pc = "exit" /\ ExitInv(c)'
  BY <1>1, <1>2, <1>3, <1>7, SetFacts, ExitGoesOn
<1> QED
  BY <1>5, <1>6, <1>8, OnePart

LEMMA DetachSound ==
  ASSUME JobsOK, SoundInv, ~crowded, NEW c \in BundleCPorts, Detach(c)
  PROVE  Touches(c) /\ CPortInv(c)' /\ ~misused'
<1>1. /\ Does(c, {"detach"}) /\ Same /\ UNCHANGED <<dev, priv, infos, handles>>
      /\ job[c].todo # <<>> /\ GoOn(c)
      /\ callbacks' = {a \in callbacks : a[1] # dev[HomeOf(c)]}
      /\ misused' = (misused \/ dev[HomeOf(c)] \notin handles)
  BY DEF Detach, Does
<1>2. PICK s, i : ExitHere(c, s, i)
  BY <1>1, Ready, WhereKind
<1>3. /\ s[i].do = "detach" /\ driverOf[c] \in Attaches
      /\ ~StepDone(s, i, "close") /\ ~StepDone(s, i, "close_if_open") /\ ~StepDone(s, i, "detach")
  BY <1>1, <1>2 DEF ExitHere, ExitRow, Does
<1>4. /\ Own(c) \in infos <=>
           driverOf[c] \in Allocs /\ ~(driverOf[c] \in Keeps /\ StepDone(s, i, "free_kept"))
      /\ Own(c) \in handles /\ dev[HomeOf(c)] = Own(c) /\ driverOf[c] \in Opens
      /\ driverOf[c] \in Keeps /\ ~StepDone(s, i, "forget") => priv[HomeOf(c)] = Own(c)
  BY <1>2, <1>3, SetFacts DEF ExitHere, ExitAt, Has
<1>5. BackInv(c)'
  BY <1>1, Ready, BackKept
<1>6. callbacks \subseteq {<<Own(b), Own(b)>> : b \in BundleCPorts}
  BY DEF SoundInv, MadeInv
<1>7. callbacks' = callbacks \ {<<Own(c), Own(c)>>}
  BY <1>1, <1>4, <1>6
<1>8. Touches(c) /\ ~misused'
  BY <1>1, <1>4, <1>7, Ready DEF Touches
<1>9. /\ Own(c) \in infos' <=> Own(c) \in infos
      /\ Own(c) \in handles' /\ <<Own(c), Own(c)>> \notin callbacks'
      /\ priv' = priv /\ dev' = dev
  BY <1>1, <1>4, <1>7
<1>10. job'[c].pc = "exit" /\ ExitInv(c)'
  BY <1>1, <1>2, <1>3, <1>4, <1>9, ExitGoesOn
<1> QED
  BY <1>5, <1>8, <1>10, OnePart

-----------------------------------------------------------------------------
(* The core's steps.                                                       *)

(* An init and an exit that have come to their end.                        *)
LEMMA InitDone ==
  ASSUME JobsOK, NEW c \in BundleCPorts, CPortInv(c), job[c].pc = "init", job[c].todo = <<>>
  PROVE  LET d == driverOf[c] IN
         /\ Has(c, d \in Allocs, d \in Opens, d \in Attaches)
         /\ d \in Keeps => priv[HomeOf(c)] = Own(c)
<1>1. PICK s : s = InitOf(driverOf[c])
  OBVIOUS
<1>2. s \in Seq(LifeSteps) /\ InitEnd(driverOf[c], s)
  BY <1>1, OwnFacts, InitTable
<1>3. PICK i \in 1..Len(s) + 1 : InitAt(c, s, i)
  BY <1>1 DEF CPortInv, InitInv
<1>4. i = Len(s) + 1
  BY <1>2, <1>3, SuffixFacts DEF InitAt, Todo
<1>5. Has(c, driverOf[c] \in Allocs, driverOf[c] \in Opens, driverOf[c] \in Attaches)
  BY <1>2, <1>3, <1>4 DEF InitAt, InitEnd, Has
<1>6. driverOf[c] \in Keeps => priv[HomeOf(c)] = Own(c)
  BY <1>2, <1>3, <1>4, SetFacts DEF InitAt, InitEnd
<1> QED
  BY <1>5, <1>6

LEMMA ExitDone ==
  ASSUME JobsOK, NEW c \in BundleCPorts, CPortInv(c), job[c].pc = "exit", job[c].todo = <<>>
  PROVE  /\ Own(c) \notin handles /\ <<Own(c), Own(c)>> \notin callbacks
         /\ Own(c) \in infos => driverOf[c] \in Leaky
<1>1. PICK s : s = ExitOf(driverOf[c])
  OBVIOUS
<1>2. s \in Seq(LifeSteps) /\ ExitEnd(driverOf[c], s)
  BY <1>1, OwnFacts, ExitTable
<1>3. PICK i \in 1..Len(s) + 1 : ExitAt(c, s, i)
  BY <1>1 DEF CPortInv, ExitInv
<1>4. i = Len(s) + 1
  BY <1>2, <1>3, SuffixFacts DEF ExitAt, Todo
<1> QED
  BY <1>2, <1>3, <1>4, SetFacts DEF ExitAt, ExitEnd, Has

(* An exit that begins.                                                    *)
LEMMA ExitBegins ==
  ASSUME JobsOK, NEW c \in BundleCPorts, Same, UNCHANGED <<dev, priv, infos, handles, callbacks>>,
         Has(c, driverOf[c] \in Allocs, driverOf[c] \in Opens, driverOf[c] \in Attaches),
         driverOf[c] \in Keeps => priv[HomeOf(c)] = Own(c),
         job' = [job EXCEPT ![c] = [pc |-> "exit", todo |-> ExitOf(driverOf[c])]]
  PROVE  job'[c].pc = "exit" /\ ExitInv(c)'
<1>1. PICK s : s = ExitOf(driverOf[c])
  OBVIOUS
<1>2. s \in Seq(LifeSteps)
  BY <1>1, OwnFacts, ExitTable
<1>3. job'[c].pc = "exit" /\ job'[c].todo = s
  BY <1>1 DEF JobsOK
<1>4. s = SubSeq(s, 1, Len(s)) /\ 1 \in 1..Len(s) + 1
  BY <1>2
<1>5. driverOf' = driverOf /\ Own(c)' = Own(c) /\ HomeOf(c)' = HomeOf(c)
  BY DEF Same, Own, HomeOf
<1>6. \A kind : ~StepDone(s, 1, kind)
  BY DoneFirst
<1>7. Todo(c, s, 1)'
  BY <1>3, <1>4 DEF Todo
<1>8. ExitAt(c, s, 1)'
  BY <1>5, <1>6, <1>7 DEF ExitAt, Has
<1> QED
  BY <1>1, <1>3, <1>4, <1>5, <1>8 DEF ExitInv

LEMMA CoreStepSound ==
  ASSUME JobsOK, SoundInv, ~crowded, NEW c \in BundleCPorts, Served(c) \/ BeginExit(c)
  PROVE  Touches(c) /\ CPortInv(c)' /\ ~misused'
<1>1. /\ Same /\ UNCHANGED <<dev, priv, infos, handles, callbacks, misused>>
      /\ job[c].pc # "off" /\ CPortInv(c) /\ BackInv(c) /\ ~misused
  BY DEF Served, BeginExit, SoundInv, CPortInv
<1>2. BackInv(c)'
  BY <1>1, BackKept
<1>3. Touches(c) /\ ~misused'
  BY <1>1 DEF Served, BeginExit, JobsOK, Touches
<1>4. driverOf' = driverOf /\ Own(c)' = Own(c) /\ HomeOf(c)' = HomeOf(c)
  BY <1>1 DEF Same, Own, HomeOf
<1>5. c \in DOMAIN job
  BY DEF JobsOK
<1>6. CASE job[c].pc = "init" /\ Served(c)
  <2>1. /\ Has(c, driverOf[c] \in Allocs, driverOf[c] \in Opens, driverOf[c] \in Attaches)
        /\ driverOf[c] \in Keeps => priv[HomeOf(c)] = Own(c)
    BY <1>1, <1>6, InitDone DEF Served
  <2>2. CASE job' = [job EXCEPT ![c] = [pc |-> "on", todo |-> <<>>]]
    <3>1. job'[c].pc = "on" /\ job'[c].todo = <<>>
      BY <1>5, <2>2
    <3>2. OnInv(c)'
      BY <1>1, <1>4, <2>1, <3>1 DEF OnInv, Has
    <3> QED
      BY <1>2, <1>3, <3>1, <3>2, OnePart
  <2>3. CASE job' = [job EXCEPT ![c] = [pc |-> "exit", todo |-> ExitOf(driverOf[c])]]
    BY <1>1, <1>2, <1>3, <2>1, <2>3, ExitBegins, OnePart
  <2> QED
    BY <1>6, <2>2, <2>3 DEF Served
<1>7. CASE job[c].pc \in {"undo", "exit"} /\ Served(c)
  <2>1. /\ Own(c) \notin handles /\ <<Own(c), Own(c)>> \notin callbacks
        /\ Own(c) \in infos => driverOf[c] \in Leaky
    <3>1. job[c].todo = <<>>
      BY <1>7 DEF Served
    <3>2. CASE job[c].pc = "undo"
      BY <1>1, <3>1, <3>2, UndoFacts, SetFacts DEF CPortInv, UndoInv, Has
    <3>3. CASE job[c].pc = "exit"
      BY <1>1, <3>1, <3>3, ExitDone
    <3> QED
      BY <1>7, <3>2, <3>3
  <2>2. job'[c].pc = "off"
    BY <1>5, <1>7 DEF Served
  <2>3. OffInv(c)'
    BY <1>1, <1>4, <2>1, <2>2 DEF OffInv
  <2> QED
    BY <1>2, <1>3, <2>2, <2>3, OnePart
<1>8. CASE BeginExit(c)
  <2>1. /\ Has(c, driverOf[c] \in Allocs, driverOf[c] \in Opens, driverOf[c] \in Attaches)
        /\ driverOf[c] \in Keeps => priv[HomeOf(c)] = Own(c)
    BY <1>1, <1>8 DEF BeginExit, CPortInv, OnInv
  <2> QED
    BY <1>1, <1>2, <1>3, <1>8, <2>1, ExitBegins, OnePart DEF BeginExit
<1> QED
  BY <1>6, <1>7, <1>8 DEF Served

(* A new life of a cport: its place was nobody's, or its own.              *)
LEMMA BeginInitSound ==
  ASSUME JobsOK, SoundInv, NEW c \in BundleCPorts, BeginInit(c), ~crowded'
  PROVE  SoundInv'
<1>1. /\ ~crowded /\ ~misused /\ ~misused' /\ job[c].pc = "off"
      /\ driverOf' = driverOf /\ UNCHANGED <<dev, priv, infos, handles, callbacks>>
      /\ \A b \in BundleCPorts \ {c} : lives[b] > 0 => HomeOf(b) # HomeOf(c)
  BY DEF BeginInit, SoundInv
<1>2. /\ \A b \in BundleCPorts : lives[b] \in Nat
      /\ lives'[c] = lives[c] + 1 /\ \A b \in BundleCPorts \ {c} : lives'[b] = lives[b]
  BY OwnFacts DEF BeginInit, JobsOK, LifeTypeOK
<1>3. /\ \A b \in BundleCPorts : HomeOf(b)' = HomeOf(b)
      /\ \A b \in BundleCPorts \ {c} : Own(b)' = Own(b)
      /\ Own(c)' = <<c, lives[c] + 1>>
  BY <1>1, <1>2 DEF HomeOf, Own
<1>4. /\ AloneInv /\ FreshInv /\ MadeInv /\ \A b \in BundleCPorts : CPortInv(b)
  BY <1>1 DEF SoundInv
<1>5. /\ Own(c) \notin handles /\ <<Own(c), Own(c)>> \notin callbacks
      /\ Own(c) \in infos => driverOf[c] \in Leaky
  BY <1>1, <1>4 DEF CPortInv, OffInv
<1>6. AloneInv'
  <2> SUFFICES ASSUME NEW a \in BundleCPorts, NEW b \in BundleCPorts, a # b,
                      lives'[a] > 0, lives'[b] > 0
               PROVE  HomeOf(a)' # HomeOf(b)'
    BY DEF AloneInv
  <2>1. CASE a = c
    BY <1>1, <1>2, <1>3, <2>1
  <2>2. CASE b = c
    BY <1>1, <1>2, <1>3, <2>2
  <2>3. CASE a # c /\ b # c
    BY <1>2, <1>3, <1>4, <2>3 DEF AloneInv
  <2> QED
    BY <2>1, <2>2, <2>3
<1>7. FreshInv'
  <2> SUFFICES ASSUME NEW p \in Homes, \A b \in BundleCPorts : HomeOf(b)' = p => lives'[b] = 0
               PROVE  dev'[p] = (IF p = "bundle" THEN Array ELSE Null) /\ priv'[p] = Null
    BY DEF FreshInv
  <2>1. \A b \in BundleCPorts : HomeOf(b) = p => lives[b] = 0
    BY <1>2, <1>3
  <2> QED
    BY <1>1, <1>4, <2>1 DEF FreshInv
<1>8. MadeInv'
  <2>1. handles' \subseteq {Own(b)' : b \in BundleCPorts}
    BY <1>1, <1>3, <1>4, <1>5 DEF MadeInv
  <2>2. callbacks' \subseteq {<<Own(b)', Own(b)'>> : b \in BundleCPorts}
    BY <1>1, <1>3, <1>4, <1>5 DEF MadeInv
  <2>3. ASSUME NEW x \in infos'
        PROVE  x[2] <= lives'[x[1]] /\ (x[2] = lives'[x[1]] \/ driverOf[x[1]] \in Leaky)
    <3>1. PICK b \in BundleCPorts, n \in 1..MaxLives : x = <<b, n>>
      BY <1>1 DEF JobsOK, LifeTypeOK
    <3>2. n <= lives[b] /\ (n = lives[b] \/ driverOf[b] \in Leaky)
      BY <1>1, <1>4, <3>1 DEF MadeInv
    <3>3. CASE b = c
      <4>1. n = lives[c] => driverOf[c] \in Leaky
        BY <1>1, <1>5, <3>1, <3>3 DEF Own
      <4> QED
        BY <1>2, <3>1, <3>2, <3>3, <4>1, LifeAssumption
    <3>4. CASE b # c
      BY <1>2, <3>1, <3>2, <3>4
    <3> QED
      BY <3>3, <3>4
  <2> QED
    BY <1>1, <2>1, <2>2, <2>3 DEF MadeInv
<1>9. ASSUME NEW b \in BundleCPorts, b # c PROVE CPortInv(b)'
  <2>1. /\ driverOf' = driverOf /\ lives'[b] = lives[b] /\ Own(b)' = Own(b) /\ HomeOf(b)' = HomeOf(b)
        /\ UNCHANGED <<dev, priv, infos, handles, callbacks>>
    BY <1>1, <1>2, <1>3, <1>9
  <2>2. job'[b] = job[b]
    BY <1>9 DEF BeginInit, JobsOK
  <2>3. job[b].pc \in {"off", "on"}
    BY DEF BeginInit
  <2>4. BackInv(b)'
    BY <1>4, <2>1 DEF CPortInv, BackInv
  <2>5. CASE job[b].pc = "off"
    <3>1. OffInv(b)'
      BY <1>4, <2>1, <2>2 DEF CPortInv, OffInv
    <3> QED
      BY <2>2, <2>4, <2>5, <3>1, OnePart
  <2>6. CASE job[b].pc = "on"
    <3>1. OnInv(b)'
      BY <1>4, <2>1, <2>2 DEF CPortInv, OnInv, Has
    <3> QED
      BY <2>2, <2>4, <2>6, <3>1, OnePart
  <2> QED
    BY <2>3, <2>5, <2>6
<1>10. CPortInv(c)'
  <2>1. PICK s : s = InitOf(driverOf[c])
    OBVIOUS
  <2>2. s \in Seq(LifeSteps)
    BY <2>1, OwnFacts, InitTable
  <2>3. job'[c].pc = "init" /\ job'[c].todo = s
    BY <2>1 DEF BeginInit, JobsOK
  <2>4. s = SubSeq(s, 1, Len(s)) /\ 1 \in 1..Len(s) + 1
    BY <2>2
  <2>5. \A kind : ~StepDone(s, 1, kind)
    BY DoneFirst
  <2>6. Own(c)' \notin infos' /\ Own(c)' \notin handles' /\ <<Own(c)', Own(c)'>> \notin callbacks'
    <3>1. ASSUME <<c, lives[c] + 1>> \in infos PROVE FALSE
      BY <1>2, <1>4, <3>1 DEF MadeInv
    <3>2. \A b \in BundleCPorts : Own(b) # <<c, lives[c] + 1>>
      BY <1>2 DEF Own
    <3> QED
      BY <1>1, <1>3, <1>4, <3>1, <3>2 DEF MadeInv
  <2>7. Todo(c, s, 1)'
    BY <2>3, <2>4 DEF Todo
  <2>8. InitAt(c, s, 1)'
    BY <2>5, <2>6, <2>7 DEF InitAt, Has
  <2>9. InitInv(c)'
    BY <1>1, <2>1, <2>4, <2>8 DEF InitInv
  <2>10. BackInv(c)'
    <3>1. CASE lives[c] > 0
      BY <1>1, <1>3, <1>4, <3>1 DEF CPortInv, BackInv
    <3>2. CASE lives[c] = 0
      <4>1. \A b \in BundleCPorts : HomeOf(b) = HomeOf(c) => lives[b] = 0
        BY <1>1, <1>2, <3>2
      <4>2. HomeOf(c) \in Homes
        BY OwnFacts
      <4>3. dev[HomeOf(c)] = (IF HomeOf(c) = "bundle" THEN Array ELSE Null)
            /\ priv[HomeOf(c)] = Null
        BY <1>4, <4>1, <4>2 DEF FreshInv
      <4>4. driverOf[c] \in OfArray => HomeOf(c) = "bundle"
        BY DEF HomeOf, Homes, OfArray
      <4> QED
        BY <1>1, <1>3, <4>3, <4>4 DEF BackInv
    <3> QED
      BY <1>2, <3>1, <3>2
  <2> QED
    BY <2>3, <2>9, <2>10, OnePart
<1> QED
  BY <1>1, <1>6, <1>7, <1>8, <1>9, <1>10 DEF SoundInv

(* Handlers and callbacks only see what is there.                          *)
LEMMA HandleSound ==
  ASSUME JobsOK, SoundInv, ~crowded, NEW c \in BundleCPorts, Handle(c)
  PROVE  ~misused'
<1>1. job[c].pc = "on" /\ ~misused /\ OnInv(c) /\ BackInv(c)
  BY DEF Handle, SoundInv, CPortInv
<1>2. lives[c] > 0 /\ driverOf[c] \in ClassDrivers
  BY <1>1, OwnFacts DEF JobsOK
<1>3. CASE driverOf[c] \in OfArray
  BY <1>1, <1>2, <1>3 DEF Handle, BackInv
<1>4. CASE driverOf[c] \notin OfArray
  <2>1. Own(c) \in handles /\ dev[HomeOf(c)] = Own(c)
    BY <1>1, <1>2, <1>4, SetFacts DEF OnInv, Has
  <2>2. driverOf[c] \in ReadsInfo => Own(c) \in infos /\ priv[HomeOf(c)] = Own(c)
    BY <1>1, SetFacts DEF OnInv, Has
  <2> QED
    BY <1>1, <1>4, <2>1, <2>2 DEF Handle
<1> QED
  BY <1>3, <1>4

LEMMA CallbackSound ==
  ASSUME JobsOK, SoundInv, ~crowded, NEW a \in callbacks, Callback(a)
  PROVE  ~misused'
<1>1. PICK c \in BundleCPorts : a = <<Own(c), Own(c)>>
  BY DEF SoundInv, MadeInv
<1>2. CPortInv(c) /\ ~misused
  BY DEF SoundInv
<1>3. job[c].pc \in {"off", "init", "undo", "on", "exit"}
  BY DEF JobsOK, LifeTypeOK
<1>4. CASE job[c].pc = "init"
  <2>1. PICK s : s = InitOf(driverOf[c])
    OBVIOUS
  <2>2. \A i \in 1..Len(s) + 1 : StepDone(s, i, "attach") => StepDone(s, i, "zalloc")
    BY <2>1, OwnFacts, InitTable
  <2>3. PICK i \in 1..Len(s) + 1 : InitAt(c, s, i)
    BY <1>2, <1>4, <2>1 DEF CPortInv, InitInv
  <2> QED
    BY <1>1, <1>2, <2>2, <2>3 DEF Callback, InitAt, Has
<1>5. CASE job[c].pc = "exit"
  <2>1. PICK s : s = ExitOf(driverOf[c])
    OBVIOUS
  <2>2. \A i \in 1..Len(s) + 1 :
          driverOf[c] \in Attaches /\ StepDone(s, i, "free_kept") => StepDone(s, i, "detach")
    BY <2>1, OwnFacts, ExitTable
  <2>3. PICK i \in 1..Len(s) + 1 : ExitAt(c, s, i)
    BY <1>2, <1>5, <2>1 DEF CPortInv, ExitInv
  <2>4. driverOf[c] \in Attaches /\ ~StepDone(s, i, "detach")
    BY <1>1, <2>3 DEF ExitAt, Has
  <2>5. Own(c) \in infos
    BY <2>2, <2>3, <2>4, SetFacts DEF ExitAt, Has
  <2> QED
    BY <1>1, <1>2, <2>5 DEF Callback
<1>6. CASE job[c].pc = "on"
  BY <1>1, <1>2, <1>6, SetFacts DEF CPortInv, OnInv, Has, Callback
<1>7. CASE job[c].pc \in {"off", "undo"}
  BY <1>1, <1>2, <1>7 DEF CPortInv, OffInv, UndoInv, Has
<1> QED
  BY <1>3, <1>4, <1>5, <1>6, <1>7

(* What is only used changes nothing.                                      *)
LEMMA EventSound ==
  ASSUME JobsOK, SoundInv, UNCHANGED <<job, dev, priv, infos, handles, callbacks>>, Same,
         crowded \/ ~misused'
  PROVE  SoundInv'
<1>1. /\ driverOf' = driverOf /\ lives' = lives /\ crowded' = crowded
      /\ \A b \in BundleCPorts : Own(b)' = Own(b) /\ HomeOf(b)' = HomeOf(b)
  BY DEF Same, Own, HomeOf
<1>2. CASE ~crowded
  <2>1. AloneInv' /\ FreshInv'
    BY <1>1, <1>2 DEF SoundInv, AloneInv, FreshInv
  <2>2. MadeInv'
    BY <1>1, <1>2 DEF SoundInv, MadeInv
  <2>3. ASSUME NEW b \in BundleCPorts PROVE CPortInv(b)'
    <3>1. lives[b] > 0 \/ job[b].pc = "off"
      BY DEF JobsOK
    <3>2. CPortInv(b)
      BY <1>2 DEF SoundInv
    <3> QED
      BY <3>1, <3>2, SameCPort
  <2> QED
    BY <1>2, <2>1, <2>2, <2>3 DEF SoundInv
<1> QED
  BY <1>1, <1>2 DEF SoundInv

LEMMA LifeStarts == LifeInit => LifeIInv
<1> SUFFICES ASSUME LifeInit PROVE LifeIInv
  OBVIOUS
<1>1. \A c \in BundleCPorts :
        job[c].pc = "off" /\ job[c].todo = <<>> /\ job[c] \in Jobs /\ lives[c] = 0
  <2>1. [pc |-> "off", todo |-> <<>>] \in Jobs
    BY DEF Jobs
  <2> QED
    BY <2>1 DEF LifeInit
<1>2. JobsOK
  <2>1. job \in [BundleCPorts -> Jobs]
    BY <1>1 DEF LifeInit
  <2>2. LifeTypeOK
    <3>1. lives \in [BundleCPorts -> 0..MaxLives]
      BY LifeAssumption DEF LifeInit
    <3>2. \A c \in BundleCPorts : job[c].pc \in {"off", "init", "undo", "on", "exit"}
      BY <1>1
    <3>3. driverOf \in [BundleCPorts -> LifeDrivers] /\ {crowded, misused} \subseteq BOOLEAN
      BY DEF LifeInit
    <3>4. infos \cup handles \subseteq BundleCPorts \X (1..MaxLives)
      BY DEF LifeInit
    <3> QED
      BY <3>1, <3>2, <3>3, <3>4 DEF LifeTypeOK
  <2>3. dev \in [Homes -> Made \cup {Null, Array}] /\ priv \in [Homes -> Made \cup {Null}]
    BY DEF LifeInit
  <2> QED
    BY <1>1, <2>1, <2>2, <2>3 DEF JobsOK, Jobs
<1>3. ASSUME NEW c \in BundleCPorts PROVE CPortInv(c)
  <2>1. OffInv(c)
    BY DEF LifeInit, OffInv
  <2>2. BackInv(c)
    BY <1>1 DEF BackInv
  <2> QED
    BY <1>1, <2>1, <2>2 DEF CPortInv, InitInv, UndoInv, OnInv, ExitInv
<1>4. AloneInv /\ FreshInv /\ MadeInv
  BY DEF LifeInit, AloneInv, FreshInv, MadeInv
<1> QED
  BY <1>2, <1>3, <1>4 DEF LifeIInv, SoundInv, LifeInit

LEMMA LifeStep == LifeIInv /\ [LifeNext]_lifeVars => LifeIInv'
<1> SUFFICES ASSUME JobsOK, SoundInv, [LifeNext]_lifeVars PROVE JobsOK' /\ SoundInv'
  BY DEF LifeIInv
<1>1. CASE UNCHANGED lifeVars
  <2>1. /\ Same /\ UNCHANGED <<job, dev, priv, infos, handles, callbacks>>
        /\ misused' = misused
    BY <1>1 DEF lifeVars, Same
  <2>2. misused' \in BOOLEAN /\ (crowded \/ ~misused')
    BY <2>1 DEF JobsOK, LifeTypeOK, SoundInv
  <2> QED
    BY <2>1, <2>2, EventType, EventSound
<1>2. ASSUME NEW c \in BundleCPorts, BeginInit(c) PROVE JobsOK' /\ SoundInv'
  <2>1. crowded' => SoundInv'
    BY DEF SoundInv
  <2> QED
    BY <1>2, <2>1, BeginInitType, BeginInitSound
<1>3. ASSUME NEW c \in BundleCPorts, JobStep(c) \/ Served(c) \/ BeginExit(c)
      PROVE  JobsOK' /\ SoundInv'
  <2>1. JobsOK'
    BY <1>3, JobStepType, ServedType
  <2>2. Same /\ lives[c] > 0
    BY <1>3, StepFacts DEF JobStep, Zalloc, Open, Attach, Prepare, Keep, Bind, CloseIt, FreeOwn,
       FreeKept, Forget, Detach, Does, Served, BeginExit, JobsOK
  <2>3. CASE crowded
    <3>1. crowded'
      BY <2>2, <2>3 DEF Same
    <3> QED
      BY <2>1, <3>1 DEF SoundInv
  <2>4. CASE ~crowded
    <3>1. Touches(c) /\ CPortInv(c)' /\ ~misused'
      BY <1>3, <2>4, ZallocSound, OpenSound, AttachSound, PrepareSound, KeepSound, BindSound,
         CloseSound, FreeOwnSound, FreeKeptSound, ForgetSound, DetachSound, CoreStepSound
         DEF JobStep
    <3> QED
      BY <2>1, <2>2, <2>4, <3>1, SoundStep
  <2> QED
    BY <2>1, <2>3, <2>4
<1>4. ASSUME NEW c \in BundleCPorts, Handle(c) PROVE JobsOK' /\ SoundInv'
  <2>1. Same /\ UNCHANGED <<job, dev, priv, infos, handles, callbacks>> /\ misused' \in BOOLEAN
    BY <1>4 DEF Handle, JobsOK, LifeTypeOK
  <2> QED
    BY <1>4, <2>1, HandleSound, EventType, EventSound
<1>5. ASSUME NEW a \in callbacks, Callback(a) PROVE JobsOK' /\ SoundInv'
  <2>1. Same /\ UNCHANGED <<job, dev, priv, infos, handles, callbacks>> /\ misused' \in BOOLEAN
    BY <1>5 DEF Callback, JobsOK, LifeTypeOK
  <2> QED
    BY <1>5, <2>1, CallbackSound, EventType, EventSound
<1> QED
  BY <1>1, <1>2, <1>3, <1>4, <1>5 DEF LifeNext, JobStep

LEMMA LifeHolds == LifeSpec => []LifeIInv
  BY LifeStarts, LifeStep, PTL DEF LifeSpec

(* No handler, callback or exit of a driver that is alone in its bundle    *)
(* uses what was freed or closed, whatever fails in its init and however   *)
(* often it is registered again (greybus-core.c:585-618).                  *)
THEOREM NoFaultAlone == LifeSpec => []FaultNeedsCrowd
<1>1. LifeIInv => FaultNeedsCrowd
  BY DEF LifeIInv, SoundInv, FaultNeedsCrowd
<1> QED
  BY <1>1, LifeHolds, PTL

(* When every cport is unregistered nothing is open or attached, and only  *)
(* sdio.c, power_supply.c and camera.c leave an info behind                *)
(* (sdio.c:387-446, power_supply.c:346-406, camera.c:446-496).             *)
THEOREM NothingLeftAlone == LifeSpec => []OnlyLeakyLeak
<1>1. LifeIInv => OnlyLeakyLeak
  <2> SUFFICES ASSUME LifeIInv PROVE OnlyLeakyLeak
    OBVIOUS
  <2>1. LifeTypeOK
    BY DEF LifeIInv, JobsOK
  <2>2. ASSUME \A c \in BundleCPorts : job[c].pc = "off", ~crowded, ~misused
        PROVE  /\ handles = {} /\ callbacks = {}
               /\ \A i \in infos : driverOf[i[1]] \in Leaky
    <3>1. MadeInv /\ \A c \in BundleCPorts : OffInv(c)
      BY <2>2 DEF LifeIInv, SoundInv, CPortInv
    <3>2. \A c \in BundleCPorts : /\ Own(c) \notin handles /\ <<Own(c), Own(c)>> \notin callbacks
                                  /\ Own(c) \in infos => driverOf[c] \in Leaky
      BY <2>2, <3>1 DEF OffInv
    <3>3. handles = {} /\ callbacks = {}
      BY <3>1, <3>2 DEF MadeInv
    <3>4. ASSUME NEW x \in infos PROVE driverOf[x[1]] \in Leaky
      <4>1. PICK c \in BundleCPorts, n \in 1..MaxLives : x = <<c, n>>
        BY <2>1 DEF LifeTypeOK
      <4>2. n = lives[c] \/ driverOf[c] \in Leaky
        BY <3>1, <4>1 DEF MadeInv
      <4> QED
        BY <3>2, <4>1, <4>2 DEF Own
    <3> QED
      BY <3>3, <3>4
  <2> QED
    BY <2>1, <2>2 DEF OnlyLeakyLeak
<1> QED
  BY <1>1, LifeHolds, PTL

-----------------------------------------------------------------------------
(* The input reports of the HID driver.                                    *)

Held == HidNodes \cup {NoHidNode}

HidTyped ==
  /\ phase \in {"alloc", "thread", "failed", "attach", "on", "down", "join", "gone"}
  /\ nodes \subseteq HidNodes
  /\ hid_free_queue \in Seq(HidNodes) /\ hid_data_queue \in Seq(HidNodes)
  /\ report_node \in Held /\ node_request \in BOOLEAN /\ crossed \in BOOLEAN
  /\ active_sem \in Nat
  /\ cb \in [pc : {"idle", "queue", "take", "request", "keep", "post"}, node : Held]
  /\ proc \in [pc : {"none", "wait", "send", "give", "look", "hand", "clear", "ended"},
               node : Held]
  /\ report \in [HidNodes -> Nat]
  /\ hid_arrived \in Nat
  /\ hid_sent \in Seq(Nat)

(* The callback has put away the node of its last report and has not got   *)
(* the next one.                                                           *)
Between == cb.pc \in {"take", "request", "keep"}

(* What there is in each phase, and who holds a node where.                *)
PhaseInv ==
  /\ phase \in {"thread", "attach", "on", "down", "join"} => nodes = HidNodes
  /\ phase = "thread" => hid_free_queue # <<>>
  /\ phase \in {"alloc", "thread", "failed"} => proc.pc = "none" /\ report_node = NoHidNode
  /\ phase = "alloc" => hid_data_queue = <<>> /\ nodes = OfQueue(hid_free_queue)
  /\ phase = "failed" => nodes = {} /\ hid_free_queue = <<>>
  /\ phase \in {"alloc", "thread", "failed", "attach"} =>
       ~node_request /\ hid_data_queue = <<>> /\ active_sem = 0
  /\ phase = "attach" => proc.pc = "wait" /\ report_node # NoHidNode
  /\ phase = "gone" => proc.pc = "ended" /\ hid_free_queue = <<>> /\ hid_data_queue = <<>>
  /\ cb.pc # "idle" => phase = "on"
  /\ cb.pc # "keep" => cb.node = NoHidNode
  /\ proc.pc \in {"send", "give"} => proc.node # NoHidNode
  /\ proc.pc \notin {"send", "give", "hand"} => proc.node = NoHidNode

Distinct(q) == \A i, j \in 1..Len(q) : q[i] = q[j] => i = j

(* A node is in one place at a time; between two reports report_node does  *)
(* not count.                                                              *)
Apart(n) ==
  n # NoHidNode => n \notin OfQueue(hid_free_queue) /\ n \notin OfQueue(hid_data_queue)

NodesInv ==
  /\ Distinct(hid_free_queue) /\ Distinct(hid_data_queue)
  /\ OfQueue(hid_free_queue) \cup OfQueue(hid_data_queue) \subseteq nodes
  /\ \A n \in OfQueue(hid_free_queue) : n \notin OfQueue(hid_data_queue)
  /\ Apart(proc.node) /\ Apart(cb.node)
  /\ proc.node = cb.node => proc.node = NoHidNode
  /\ ~Between => /\ Apart(report_node)
                 /\ proc.node = report_node => proc.node = NoHidNode

(* The numbers of the reports grow from those sent, by the one in the hand *)
(* of the thread and the queue, to the one the callback is about to queue. *)
OrderInv ==
  /\ ReportsInOrder
  /\ \A n \in OfQueue(hid_data_queue) : report[n] <= hid_arrived
  /\ \A i \in 1..Len(hid_sent) : hid_sent[i] <= hid_arrived
  /\ proc.pc = "send" => report[proc.node] <= hid_arrived
  /\ \A i, j \in 1..Len(hid_data_queue) :
       i < j => report[hid_data_queue[i]] < report[hid_data_queue[j]]
  /\ \A i \in 1..Len(hid_sent), n \in OfQueue(hid_data_queue) : hid_sent[i] < report[n]
  /\ proc.pc = "send" =>
       /\ \A n \in OfQueue(hid_data_queue) : report[proc.node] < report[n]
       /\ \A i \in 1..Len(hid_sent) : hid_sent[i] < report[proc.node]
  /\ cb.pc = "queue" =>
       /\ report_node # NoHidNode /\ report[report_node] = hid_arrived
       /\ \A n \in OfQueue(hid_data_queue) : report[n] < hid_arrived
       /\ \A i \in 1..Len(hid_sent) : hid_sent[i] < hid_arrived
       /\ proc.pc = "send" => report[proc.node] < hid_arrived

(* The semaphore counts what is queued, but for what the callback has yet  *)
(* to post.                                                                *)
SemInv ==
  proc.pc # "ended" =>
    IF Between \/ cb.pc = "post" THEN Len(hid_data_queue) <= active_sem + 1
    ELSE Len(hid_data_queue) <= active_sem

(* The callback wants a node: it has none, or is about to have none.       *)
Wants ==
  \/ report_node = NoHidNode /\ cb.pc \in {"idle", "post"}
  \/ cb.pc = "keep" /\ cb.node = NoHidNode

RequestInv ==
  /\ node_request => Wants \/ proc.pc = "clear"
  /\ proc.pc = "hand" => node_request /\ Wants

(* As long as the two did not cross: every node is somewhere; a want is    *)
(* asked for, and there is a node to answer it with.                       *)
InPlace(n) ==
  \/ n \in OfQueue(hid_free_queue) \/ n \in OfQueue(hid_data_queue)
  \/ n = proc.node \/ n = cb.node
  \/ ~Between /\ n = report_node

CrossInv ==
  ~crossed =>
    /\ ~Crossing
    /\ \A n \in nodes : InPlace(n)
    /\ phase = "on" /\ Wants => node_request
    /\ proc.pc = "clear" => report_node # NoHidNode
    /\ proc.pc = "hand" => proc.node # NoHidNode
    /\ proc.pc = "look" /\ node_request => hid_free_queue # <<>>
    /\ proc.pc = "wait" /\ (node_request \/ cb.pc \in {"take", "request"}) => hid_data_queue # <<>>

HidIInv ==
  /\ HidTyped /\ PhaseInv /\ NodesInv /\ OrderInv /\ SemInv /\ RequestInv /\ CrossInv

-----------------------------------------------------------------------------
(* Queues of nodes.                                                        *)

LEMMA NoNode == NoHidNode \notin HidNodes
  BY HidAssumption DEF HidAssumption

LEMMA EmptyFacts ==
  /\ <<>> \in Seq(HidNodes) /\ OfQueue(<<>>) = {} /\ Distinct(<<>>) /\ Len(<<>>) = 0
  BY DEF OfQueue, Distinct

LEMMA QueueFacts ==
  ASSUME NEW q \in Seq(HidNodes)
  PROVE  /\ Len(q) \in Nat
         /\ OfQueue(q) \subseteq HidNodes
         /\ \A i \in 1..Len(q) : q[i] \in OfQueue(q)
         /\ \A n \in OfQueue(q) : \E i \in 1..Len(q) : q[i] = n
         /\ q = <<>> <=> Len(q) = 0
         /\ q = <<>> <=> OfQueue(q) = {}
<1>1. Len(q) \in Nat /\ DOMAIN q = 1..Len(q) /\ \A i \in 1..Len(q) : q[i] \in HidNodes
  OBVIOUS
<1>2. q = <<>> <=> Len(q) = 0
  OBVIOUS
<1>3. /\ OfQueue(q) \subseteq HidNodes
      /\ \A i \in 1..Len(q) : q[i] \in OfQueue(q)
      /\ \A n \in OfQueue(q) : \E i \in 1..Len(q) : q[i] = n
  BY <1>1 DEF OfQueue
<1>4. q # <<>> => 1 \in 1..Len(q)
  BY <1>1, <1>2
<1>5. q = <<>> => OfQueue(q) = {}
  BY EmptyFacts
<1> QED
  BY <1>1, <1>2, <1>3, <1>4, <1>5

LEMMA AppendFacts ==
  ASSUME NEW S, NEW q \in Seq(S), NEW n \in S
  PROVE  /\ Append(q, n) \in Seq(S)
         /\ Append(q, n) # <<>>
         /\ Len(q) \in Nat
         /\ Len(Append(q, n)) = Len(q) + 1
         /\ \A i \in 1..Len(q) : Append(q, n)[i] = q[i]
         /\ Append(q, n)[Len(q) + 1] = n
  OBVIOUS

(* A node at the end of a queue.                                           *)
LEMMA PutFacts ==
  ASSUME NEW q \in Seq(HidNodes), NEW n \in HidNodes
  PROVE  /\ Append(q, n) \in Seq(HidNodes) /\ Append(q, n) # <<>>
         /\ Len(Append(q, n)) = Len(q) + 1
         /\ OfQueue(Append(q, n)) = OfQueue(q) \cup {n}
         /\ Distinct(q) /\ n \notin OfQueue(q) => Distinct(Append(q, n))
<1>1. PICK m \in Nat, t \in Seq(HidNodes) :
        /\ m = Len(q) /\ t = Append(q, n) /\ t # <<>> /\ Len(t) = m + 1
        /\ \A i \in 1..m : t[i] = q[i]
        /\ t[m + 1] = n
  <2>1. /\ Append(q, n) \in Seq(HidNodes) /\ Append(q, n) # <<>> /\ Len(q) \in Nat
        /\ Len(Append(q, n)) = Len(q) + 1
        /\ \A i \in 1..Len(q) : Append(q, n)[i] = q[i]
        /\ Append(q, n)[Len(q) + 1] = n
    BY AppendFacts
  <2> QED
    BY <2>1, Zenon
<1>2. /\ \A i \in 1..m : q[i] \in OfQueue(q)
      /\ \A x \in OfQueue(q) : \E i \in 1..m : q[i] = x
      /\ \A i \in 1..m + 1 : t[i] \in OfQueue(t)
      /\ \A x \in OfQueue(t) : \E i \in 1..m + 1 : t[i] = x
  BY <1>1, QueueFacts
<1>3. \A i \in 1..m + 1 : i \in 1..m \/ i = m + 1
  OBVIOUS
<1>4. \A i \in 1..m : i \in 1..m + 1 /\ m + 1 \in 1..m + 1
  OBVIOUS
<1>5. OfQueue(t) = OfQueue(q) \cup {n}
  <2>1. ASSUME NEW x \in OfQueue(t) PROVE x \in OfQueue(q) \cup {n}
    BY <1>1, <1>2, <1>3
  <2>2. ASSUME NEW x \in OfQueue(q) PROVE x \in OfQueue(t)
    <3>1. PICK i \in 1..m : q[i] = x
      BY <1>2
    <3>2. t[i] = x /\ i \in 1..m + 1
      BY <3>1, <1>1
    <3> QED
      BY <3>2, <1>2
  <2>3. n \in OfQueue(t)
    <3>1. m + 1 \in 1..m + 1
      OBVIOUS
    <3> QED
      BY <3>1, <1>1, <1>2
  <2> QED
    BY <2>1, <2>2, <2>3
<1>6. ASSUME Distinct(q), n \notin OfQueue(q) PROVE Distinct(t)
  <2> SUFFICES ASSUME NEW i \in 1..m + 1, NEW j \in 1..m + 1, t[i] = t[j] PROVE i = j
    BY <1>1 DEF Distinct
  <2>1. CASE i \in 1..m /\ j \in 1..m
    BY <2>1, <1>1, <1>6 DEF Distinct
  <2>2. CASE i = m + 1 /\ j \in 1..m
    BY <2>2, <1>1, <1>2, <1>6
  <2>3. CASE j = m + 1 /\ i \in 1..m
    BY <2>3, <1>1, <1>2, <1>6
  <2> QED
    BY <2>1, <2>2, <2>3, <1>3
<1> QED
  BY <1>1, <1>5, <1>6

(* The first node of a queue, and the others.                              *)
LEMMA TakeFacts ==
  ASSUME NEW q \in Seq(HidNodes)
  PROVE  /\ Rest(q) \in Seq(HidNodes) /\ First(q) \in Held
         /\ q = <<>> => First(q) = NoHidNode /\ Rest(q) = <<>>
         /\ q # <<>> => First(q) \in HidNodes /\ First(q) # NoHidNode
         /\ q # <<>> => /\ Len(Rest(q)) = Len(q) - 1
                        /\ q[1] = First(q)
                        /\ \A i \in 1..Len(Rest(q)) : Rest(q)[i] = q[i + 1]
                        /\ OfQueue(q) = OfQueue(Rest(q)) \cup {First(q)}
         /\ Distinct(q) => First(q) \notin OfQueue(Rest(q)) /\ Distinct(Rest(q))
<1>1. CASE q = <<>>
  <2>1. First(q) = NoHidNode /\ Rest(q) = <<>>
    BY <1>1 DEF First, Rest
  <2>2. OfQueue(Rest(q)) = {} /\ Distinct(Rest(q)) /\ Rest(q) \in Seq(HidNodes)
    BY <2>1, EmptyFacts
  <2> QED
    BY <1>1, <2>1, <2>2 DEF Held
<1>2. CASE q # <<>>
  <2>1. PICK t \in Seq(HidNodes), m \in Nat, h \in HidNodes :
          /\ t = Tail(q) /\ h = Head(q) /\ h = q[1]
          /\ Len(q) = m + 1 /\ Len(t) = m
          /\ \A i \in 1..m : t[i] = q[i + 1]
    <3>1. PICK m \in Nat : Len(q) = m + 1
      BY <1>2
    <3>2. Tail(q) \in Seq(HidNodes) /\ Len(Tail(q)) = m /\ Head(q) \in HidNodes /\ Head(q) = q[1]
      BY <1>2, <3>1
    <3>3. \A i \in 1..m : Tail(q)[i] = q[i + 1]
      BY <1>2, <3>1, <3>2
    <3> QED
      BY <3>1, <3>2, <3>3, Zenon
  <2>2. First(q) = h /\ Rest(q) = t
    BY <1>2, <2>1 DEF First, Rest
  <2>3. /\ \A i \in 1..m : t[i] \in OfQueue(t)
        /\ \A x \in OfQueue(t) : \E i \in 1..m : t[i] = x
        /\ \A i \in 1..m + 1 : q[i] \in OfQueue(q)
        /\ \A x \in OfQueue(q) : \E i \in 1..m + 1 : q[i] = x
    BY <2>1, QueueFacts
  <2>4. \A i \in 1..m : i + 1 \in 1..m + 1 /\ i + 1 # 1
    OBVIOUS
  <2>5. \A i \in 1..m + 1 : i = 1 \/ (i - 1 \in 1..m /\ (i - 1) + 1 = i)
    OBVIOUS
  <2>6. OfQueue(q) = OfQueue(t) \cup {h}
    <3>1. ASSUME NEW x \in OfQueue(t) PROVE x \in OfQueue(q)
      <4>1. PICK i \in 1..m : t[i] = x
        BY <2>3
      <4> QED
        BY <4>1, <2>1, <2>3, <2>4
    <3>2. h \in OfQueue(q)
      <4>1. 1 \in 1..m + 1
        OBVIOUS
      <4> QED
        BY <4>1, <2>1, <2>3
    <3>3. ASSUME NEW x \in OfQueue(q) PROVE x \in OfQueue(t) \cup {h}
      <4>1. PICK i \in 1..m + 1 : q[i] = x
        BY <2>3
      <4>2. CASE i = 1
        BY <4>1, <4>2, <2>1
      <4>3. CASE i # 1
        <5>1. i - 1 \in 1..m /\ (i - 1) + 1 = i
          BY <4>3, <2>5
        <5>2. t[i - 1] = x
          BY <5>1, <4>1, <2>1
        <5> QED
          BY <5>1, <5>2, <2>3
      <4> QED
        BY <4>2, <4>3
    <3> QED
      BY <3>1, <3>2, <3>3
  <2>7. ASSUME Distinct(q) PROVE h \notin OfQueue(t) /\ Distinct(t)
    <3>1. \A i \in 1..m : t[i] # h
      <4> SUFFICES ASSUME NEW i \in 1..m, t[i] = h PROVE FALSE
        OBVIOUS
      <4>1. i + 1 \in 1..m + 1 /\ 1 \in 1..m + 1 /\ i + 1 # 1 /\ q[i + 1] = q[1]
        BY <2>1, <2>4
      <4> QED
        BY <4>1, <2>1, <2>7 DEF Distinct
    <3>2. \A i, j \in 1..m : t[i] = t[j] => i = j
      <4> SUFFICES ASSUME NEW i \in 1..m, NEW j \in 1..m, t[i] = t[j] PROVE i = j
        OBVIOUS
      <4>1. i + 1 \in 1..m + 1 /\ j + 1 \in 1..m + 1 /\ q[i + 1] = q[j + 1]
        BY <2>1, <2>4
      <4>2. i + 1 = j + 1
        BY <4>1, <2>1, <2>7 DEF Distinct
      <4> QED
        BY <4>2
    <3> QED
      BY <3>1, <3>2, <2>1, <2>3 DEF Distinct
  <2>8. h # NoHidNode
    BY NoNode
  <2>9. Len(t) = Len(q) - 1
    BY <2>1
  <2> QED
    BY <1>2, <2>1, <2>2, <2>6, <2>7, <2>8, <2>9 DEF Held
<1> QED
  BY <1>1, <1>2

-----------------------------------------------------------------------------
(* Each step keeps it.                                                     *)

LEMMA AllocNodeStep ==
  ASSUME HidIInv, AllocNode, crossed' = (crossed \/ Crossing')
  PROVE  HidIInv'
<1> USE NoNode DEF AllocNode, Traffic, HidIInv, HidTyped, PhaseInv, Held
<1>1. CASE phase' = "failed"
  <2>1. nodes' = {} /\ hid_free_queue' = <<>>
    BY <1>1
  <2>2. OfQueue(hid_free_queue') = {} /\ Distinct(hid_free_queue') /\ hid_free_queue' \in Seq(HidNodes)
    BY <2>1, EmptyFacts
  <2>3. HidTyped' /\ PhaseInv'
    BY <1>1, <2>1, <2>2 DEF Crossing
  <2>4. NodesInv'
    BY <2>1, <2>2 DEF NodesInv, Apart, Between
  <2>5. OrderInv'
    BY <1>1 DEF OrderInv, ReportsInOrder
  <2>6. SemInv' /\ RequestInv'
    BY <1>1 DEF SemInv, Between, RequestInv, Wants
  <2>7. CrossInv'
    BY <1>1, <2>1 DEF CrossInv, Crossing, InPlace, Wants, Between
  <2> QED
    BY <2>3, <2>4, <2>5, <2>6, <2>7
<1>2. CASE phase' # "failed"
  <2>1. PICK n \in HidNodes \ nodes :
          /\ nodes' = nodes \cup {n}
          /\ hid_free_queue' = Append(hid_free_queue, n)
          /\ phase' = IF nodes' = HidNodes THEN "thread" ELSE "alloc"
    BY <1>2
  <2>2. n \notin OfQueue(hid_free_queue)
    OBVIOUS
  <2>3. /\ hid_free_queue' \in Seq(HidNodes) /\ hid_free_queue' # <<>>
        /\ OfQueue(hid_free_queue') = OfQueue(hid_free_queue) \cup {n}
        /\ Distinct(hid_free_queue) => Distinct(hid_free_queue')
    BY <2>1, <2>2, PutFacts
  <2>4. HidTyped' /\ PhaseInv'
    BY <2>1, <2>3 DEF Crossing
  <2>5. NodesInv'
    BY <2>1, <2>3, EmptyFacts DEF NodesInv, Apart, Between
  <2>6. OrderInv'
    BY <2>1 DEF OrderInv, ReportsInOrder
  <2>7. SemInv' /\ RequestInv'
    BY <2>1 DEF SemInv, Between, RequestInv, Wants
  <2>8. CrossInv'
    BY <2>1, <2>3 DEF CrossInv, Crossing, InPlace, Wants, Between
  <2> QED
    BY <2>4, <2>5, <2>6, <2>7, <2>8
<1> QED
  BY <1>1, <1>2

(* The first node is the callback's.                                       *)
LEMMA StartThreadStep ==
  ASSUME HidIInv, StartThread, crossed' = (crossed \/ Crossing')
  PROVE  HidIInv'
<1> USE NoNode DEF StartThread, Traffic, ToProc, HidIInv, HidTyped, PhaseInv, Held
<1>1. CASE phase' = "failed"
  <2>1. nodes' = {} /\ hid_free_queue' = <<>>
    BY <1>1
  <2>2. OfQueue(hid_free_queue') = {} /\ Distinct(hid_free_queue') /\ hid_free_queue' \in Seq(HidNodes)
    BY <2>1, EmptyFacts
  <2>3. HidTyped' /\ PhaseInv'
    BY <1>1, <2>1, <2>2 DEF Crossing
  <2>4. NodesInv'
    BY <1>1, <2>1, <2>2, EmptyFacts DEF NodesInv, Apart, Between
  <2>5. OrderInv'
    BY <1>1 DEF OrderInv, ReportsInOrder
  <2>6. SemInv' /\ RequestInv'
    BY <1>1 DEF SemInv, Between, RequestInv, Wants
  <2>7. CrossInv'
    BY <1>1, <2>1 DEF CrossInv, Crossing, InPlace, Wants, Between
  <2> QED
    BY <2>3, <2>4, <2>5, <2>6, <2>7
<1>2. CASE phase' = "attach"
  <2>1. /\ report_node' = First(hid_free_queue) /\ hid_free_queue' = Rest(hid_free_queue)
        /\ proc' = [pc |-> "wait", node |-> NoHidNode] /\ nodes' = nodes
    BY <1>2
  <2>2. PICK q \in Seq(HidNodes), h \in HidNodes :
          /\ q = hid_free_queue' /\ h = report_node' /\ h # NoHidNode
          /\ OfQueue(hid_free_queue) = OfQueue(q) \cup {h}
          /\ Distinct(hid_free_queue) => h \notin OfQueue(q) /\ Distinct(q)
    BY <2>1, TakeFacts
  <2>3. HidTyped' /\ PhaseInv'
    BY <1>2, <2>1, <2>2 DEF Crossing
  <2>4. NodesInv'
    BY <1>2, <2>1, <2>2, EmptyFacts DEF NodesInv, Apart, Between
  <2>5. OrderInv'
    BY <1>2, <2>1 DEF OrderInv, ReportsInOrder
  <2>6. SemInv' /\ RequestInv'
    BY <1>2, <2>1, EmptyFacts DEF SemInv, Between, RequestInv, Wants
  <2>7. CrossInv'
    BY <1>2, <2>1, <2>2 DEF CrossInv, Crossing, InPlace, Wants, Between
  <2> QED
    BY <2>3, <2>4, <2>5, <2>6, <2>7
<1> QED
  BY <1>1, <1>2

(* The report the callback queues is the last that arrived.                *)
LEMMA CbQueueStep ==
  ASSUME HidIInv, CbQueue, crossed' = (crossed \/ Crossing')
  PROVE  HidIInv'
<1> USE NoNode DEF CbQueue, Traffic, ToCb, HidIInv, HidTyped, PhaseInv, Held
<1>1. /\ cb.pc = "queue" /\ cb' = [pc |-> "take", node |-> NoHidNode]
      /\ report_node \in HidNodes /\ report[report_node] = hid_arrived
      /\ hid_data_queue' = Append(hid_data_queue, report_node)
      /\ hid_free_queue' = hid_free_queue /\ report_node' = report_node
      /\ proc' = proc /\ nodes' = nodes
  BY DEF OrderInv, Queued
<1>2. report_node \notin OfQueue(hid_data_queue) /\ report_node \notin OfQueue(hid_free_queue)
      /\ proc.node # report_node
  BY <1>1 DEF NodesInv, Apart, Between
<1>21. PICK n \in HidNodes : n = report_node
  BY <1>1
<1>22. /\ Append(hid_data_queue, n) \in Seq(HidNodes) /\ Append(hid_data_queue, n) # <<>>
       /\ Len(Append(hid_data_queue, n)) = Len(hid_data_queue) + 1
       /\ OfQueue(Append(hid_data_queue, n)) = OfQueue(hid_data_queue) \cup {n}
       /\ Distinct(hid_data_queue) => Distinct(Append(hid_data_queue, n))
  BY <1>21, <1>2, PutFacts
<1>23. /\ \A i \in 1..Len(hid_data_queue) :
            Append(hid_data_queue, n)[i] = hid_data_queue[i]
       /\ Append(hid_data_queue, n)[Len(hid_data_queue) + 1] = n
       /\ Len(hid_data_queue) \in Nat
  BY AppendFacts
<1>24. PICK q \in Seq(HidNodes), m \in Nat :
         q = Append(hid_data_queue, n) /\ m = Len(hid_data_queue)
  BY <1>22, <1>23, Zenon
<1>25. hid_data_queue' = Append(hid_data_queue, n)
  BY <1>21, <1>1
<1>3. /\ n = report_node /\ q = hid_data_queue' /\ q # <<>>
      /\ m = Len(hid_data_queue) /\ Len(q) = m + 1
      /\ OfQueue(q) = OfQueue(hid_data_queue) \cup {n}
      /\ Distinct(hid_data_queue) => Distinct(q)
      /\ \A i \in 1..m : q[i] = hid_data_queue[i]
      /\ q[m + 1] = n
  BY <1>21, <1>22, <1>23, <1>24, <1>25, Zenon
<1>4. HidTyped'
  BY <1>1, <1>3 DEF Crossing
<1>5. PhaseInv'
  BY <1>1, <1>3
<1>6. NodesInv'
  BY <1>1, <1>2, <1>3 DEF NodesInv, Apart, Between
<1>7. OrderInv'
  <2>1. /\ hid_sent' = hid_sent /\ report' = report /\ hid_arrived' = hid_arrived
        /\ \A i \in 1..m : hid_data_queue[i] \in OfQueue(hid_data_queue)
        /\ \A i \in 1..m + 1 : i \in 1..m \/ i = m + 1
    <3>1. hid_sent' = hid_sent /\ report' = report /\ hid_arrived' = hid_arrived
      OBVIOUS
    <3>2. \A i \in 1..m : hid_data_queue[i] \in OfQueue(hid_data_queue)
      BY <1>3, QueueFacts, Zenon
    <3>3. \A i \in 1..m + 1 : i \in 1..m \/ i = m + 1
      BY <1>3
    <3> QED
      BY <3>1, <3>2, <3>3, Zenon
  <2>2. \A i, j \in 1..m + 1 : i < j => report[q[i]] < report[q[j]]
    <3> SUFFICES ASSUME NEW i \in 1..m + 1, NEW j \in 1..m + 1, i < j
                 PROVE  report[q[i]] < report[q[j]]
      OBVIOUS
    <3>1. i \in 1..m
      BY <1>3
    <3>2. CASE j \in 1..m
      BY <3>1, <3>2, <1>3 DEF OrderInv
    <3>3. CASE j = m + 1
      BY <3>1, <3>3, <1>1, <1>3, <2>1 DEF OrderInv
    <3> QED
      BY <3>2, <3>3, <2>1
  <2>3. ReportsInOrder'
    BY <2>1 DEF OrderInv, ReportsInOrder
  <2>4. /\ \A x \in OfQueue(q) : report[x] <= hid_arrived
        /\ \A i \in 1..Len(hid_sent), x \in OfQueue(q) : hid_sent[i] < report[x]
        /\ proc.pc = "send" => \A x \in OfQueue(q) : report[proc.node] < report[x]
    BY <1>1, <1>3 DEF OrderInv
  <2> QED
    BY <1>1, <1>3, <2>1, <2>2, <2>3, <2>4 DEF OrderInv
<1>8. SemInv' /\ RequestInv'
  BY <1>1, <1>3 DEF SemInv, Between, RequestInv, Wants
<1>9. CrossInv'
  <2>1. \A x : InPlace(x) => InPlace(x)'
    BY <1>1, <1>3 DEF InPlace, Between
  <2>2. ~Wants'
    BY <1>1 DEF Wants
  <2> QED
    BY <1>1, <1>3, <2>1, <2>2 DEF CrossInv, Crossing
<1> QED
  BY <1>4, <1>5, <1>6, <1>7, <1>8, <1>9

(* A free node is the callback's, if there is one.                         *)
LEMMA CbTakeStep ==
  ASSUME HidIInv, CbTake, crossed' = (crossed \/ Crossing')
  PROVE  HidIInv'
<1> USE NoNode DEF CbTake, Traffic, ToCb, HidIInv, HidTyped, PhaseInv, Held
<1>1. PICK q \in Seq(HidNodes), h \in Held :
        /\ q = hid_free_queue'
        /\ cb' = [pc |-> IF hid_free_queue = <<>> THEN "request" ELSE "keep", node |-> h]
        /\ hid_free_queue = <<>> <=> h = NoHidNode
        /\ h = NoHidNode => q = hid_free_queue
        /\ h # NoHidNode => OfQueue(hid_free_queue) = OfQueue(q) \cup {h}
        /\ Distinct(hid_free_queue) => Distinct(q)
        /\ Distinct(hid_free_queue) /\ h # NoHidNode => h \notin OfQueue(q)
  BY TakeFacts
<1>2. /\ cb.pc = "take" /\ cb'.pc \in {"request", "keep"} /\ cb'.node = h
      /\ cb'.pc = "request" <=> h = NoHidNode
      /\ hid_data_queue' = hid_data_queue /\ report_node' = report_node
      /\ proc' = proc /\ nodes' = nodes /\ node_request' = node_request
  BY <1>1
<1>3. HidTyped'
  BY <1>1, <1>2 DEF Crossing
<1>4. PhaseInv'
  BY <1>1, <1>2
<1>5. NodesInv'
  <2>1. Between /\ Between'
    BY <1>2 DEF Between
  <2>2. h # NoHidNode => h \notin OfQueue(hid_data_queue) /\ proc.node # h
    BY <1>1 DEF NodesInv, Apart
  <2> QED
    BY <1>1, <1>2, <2>1, <2>2 DEF NodesInv, Apart
<1>6. OrderInv'
  BY <1>2 DEF OrderInv, ReportsInOrder
<1>7. SemInv' /\ RequestInv'
  BY <1>1, <1>2 DEF SemInv, Between, RequestInv, Wants
<1>8. CrossInv'
  <2>1. \A x : InPlace(x) => InPlace(x)' \/ x = NoHidNode
    BY <1>1, <1>2 DEF InPlace, Between
  <2>2. Wants' => cb'.pc = "keep" /\ cb'.node = NoHidNode
    BY <1>2 DEF Wants
  <2>3. \A x \in nodes : x # NoHidNode
    OBVIOUS
  <2>4. \A x \in nodes : ~crossed => InPlace(x)'
    BY <2>1, <2>3 DEF CrossInv
  <2> QED
    BY <1>1, <1>2, <2>2, <2>4 DEF CrossInv, Crossing
<1> QED
  BY <1>3, <1>4, <1>5, <1>6, <1>7, <1>8

(* What is queued first is in the hand of the thread.                      *)
LEMMA ProcWakeStep ==
  ASSUME HidIInv, ProcWake, crossed' = (crossed \/ Crossing')
  PROVE  HidIInv'
<1> USE NoNode DEF ProcWake, ProcRuns, Traffic, ToProc, HidIInv, HidTyped, PhaseInv, Held
<1>1. /\ proc.pc = "wait" /\ active_sem' = active_sem - 1 /\ active_sem > 0
      /\ hid_free_queue' = hid_free_queue /\ report_node' = report_node /\ cb' = cb
      /\ nodes' = nodes /\ node_request' = node_request /\ phase' = phase
      /\ report' = report /\ hid_sent' = hid_sent /\ hid_arrived' = hid_arrived
      /\ proc.node = NoHidNode
  OBVIOUS
<1>2. CASE hid_data_queue' = hid_data_queue /\ proc'.node = NoHidNode /\ proc'.pc = "ended"
  <2>1. phase \in {"on", "down", "join"}
    BY <1>1
  <2>2. HidTyped'
    BY <1>1, <1>2 DEF Crossing
  <2>3. PhaseInv'
    BY <1>1, <1>2, <2>1
  <2>4. NodesInv'
    BY <1>1, <1>2 DEF NodesInv, Apart, Between
  <2>5. OrderInv'
    BY <1>1, <1>2 DEF OrderInv, ReportsInOrder
  <2>6. SemInv' /\ RequestInv'
    BY <1>1, <1>2 DEF SemInv, Between, RequestInv, Wants
  <2>7. CrossInv'
    BY <1>1, <1>2 DEF CrossInv, Crossing, InPlace, Wants, Between
  <2> QED
    BY <2>2, <2>3, <2>4, <2>5, <2>6, <2>7
<1>3. CASE hid_data_queue = <<>> /\ hid_data_queue' = <<>> /\ proc' = [pc |-> "look", node |-> NoHidNode]
  <2>1. phase \in {"on", "down", "join"}
    BY <1>1
  <2>2. HidTyped'
    BY <1>1, <1>3 DEF Crossing
  <2>3. PhaseInv'
    BY <1>1, <1>3, <2>1
  <2>4. NodesInv'
    BY <1>1, <1>3 DEF NodesInv, Apart, Between
  <2>5. OrderInv'
    BY <1>1, <1>3 DEF OrderInv, ReportsInOrder
  <2>6. SemInv' /\ RequestInv'
    BY <1>1, <1>3, EmptyFacts DEF SemInv, Between, RequestInv, Wants
  <2>7. CrossInv'
    <3> SUFFICES ASSUME ~crossed' PROVE CrossInv'
      BY DEF CrossInv
    <3>1. ~crossed /\ ~Crossing'
      BY Zenon
    <3>2. \A x : InPlace(x) => InPlace(x)'
      BY <1>1, <1>3 DEF InPlace, Between
    <3>3. Wants' <=> Wants
      BY <1>1 DEF Wants
    <3>4. ~node_request /\ \A x \in nodes' : InPlace(x)'
      BY <1>1, <1>3, <3>1, <3>2 DEF CrossInv
    <3> QED
      BY <1>1, <1>3, <3>1, <3>3, <3>4 DEF CrossInv
  <2> QED
    BY <2>2, <2>3, <2>4, <2>5, <2>6, <2>7
<1>4. CASE /\ hid_data_queue # <<>> /\ hid_data_queue' = Rest(hid_data_queue)
           /\ proc' = [pc |-> "send", node |-> First(hid_data_queue)]
  <2>1. PICK h \in HidNodes, q \in Seq(HidNodes), m \in Nat :
          /\ h = proc'.node /\ q = hid_data_queue' /\ h # NoHidNode
          /\ Len(hid_data_queue) = m + 1 /\ Len(q) = m /\ hid_data_queue[1] = h
          /\ \A i \in 1..m : q[i] = hid_data_queue[i + 1]
          /\ OfQueue(hid_data_queue) = OfQueue(q) \cup {h}
          /\ h \notin OfQueue(q) /\ Distinct(q)
    <3>1. /\ Rest(hid_data_queue) \in Seq(HidNodes)
          /\ First(hid_data_queue) \in HidNodes /\ First(hid_data_queue) # NoHidNode
          /\ Len(Rest(hid_data_queue)) = Len(hid_data_queue) - 1
          /\ hid_data_queue[1] = First(hid_data_queue)
          /\ \A i \in 1..Len(Rest(hid_data_queue)) : Rest(hid_data_queue)[i] = hid_data_queue[i + 1]
          /\ OfQueue(hid_data_queue) = OfQueue(Rest(hid_data_queue)) \cup {First(hid_data_queue)}
          /\ First(hid_data_queue) \notin OfQueue(Rest(hid_data_queue))
          /\ Distinct(Rest(hid_data_queue))
      BY <1>4, TakeFacts DEF NodesInv
    <3>2. PICK m \in Nat : Len(hid_data_queue) = m + 1 /\ Len(Rest(hid_data_queue)) = m
      <4>1. Len(hid_data_queue) \in Nat /\ Len(hid_data_queue) # 0
        BY <1>4, QueueFacts
      <4> QED
        BY <4>1, <3>1
    <3>3. proc'.node = First(hid_data_queue)
      BY <1>4
    <3> QED
      BY <3>1, <3>2, <3>3, <1>4, Zenon
  <2>2. proc'.pc = "send" /\ phase \in {"on", "down", "join"}
    BY <1>1, <1>4
  <2>3. HidTyped'
    BY <1>1, <1>4, <2>1 DEF Crossing
  <2>4. PhaseInv'
    BY <1>1, <2>1, <2>2
  <2>5. NodesInv'
    BY <1>1, <2>1 DEF NodesInv, Apart, Between
  <2>6. OrderInv'
    <3>1. \A i \in 1..m : i + 1 \in 1..m + 1 /\ 1 \in 1..m + 1 /\ 1 < i + 1
      OBVIOUS
    <3>2. \A i, j \in 1..m : i < j => report[q[i]] < report[q[j]]
      <4> SUFFICES ASSUME NEW i \in 1..m, NEW j \in 1..m, i < j PROVE report[q[i]] < report[q[j]]
        OBVIOUS
      <4>1. i + 1 \in 1..m + 1 /\ j + 1 \in 1..m + 1 /\ i + 1 < j + 1
        OBVIOUS
      <4>2. report[hid_data_queue[i + 1]] < report[hid_data_queue[j + 1]]
        BY <4>1, <2>1 DEF OrderInv
      <4> QED
        BY <4>2, <2>1
    <3>3. \A x \in OfQueue(q) : report[h] < report[x]
      <4> SUFFICES ASSUME NEW x \in OfQueue(q) PROVE report[h] < report[x]
        OBVIOUS
      <4>1. PICK i \in 1..m : q[i] = x
        BY <2>1, QueueFacts
      <4>2. report[hid_data_queue[1]] < report[hid_data_queue[i + 1]]
        BY <3>1, <2>1 DEF OrderInv
      <4> QED
        BY <4>1, <4>2, <2>1
    <3>4. ReportsInOrder'
      BY <1>1 DEF OrderInv, ReportsInOrder
    <3>5. /\ \A i \in 1..Len(hid_sent) : hid_sent[i] < report[h]
          /\ report[h] <= hid_arrived
          /\ cb.pc = "queue" => report[h] < hid_arrived
      BY <2>1 DEF OrderInv
    <3> QED
      BY <1>1, <2>1, <2>2, <3>2, <3>3, <3>4, <3>5 DEF OrderInv
  <2>7. SemInv' /\ RequestInv'
    BY <1>1, <2>1, <2>2 DEF SemInv, Between, RequestInv, Wants
  <2>8. CrossInv'
    <3>1. \A x : InPlace(x) => InPlace(x)' \/ x = NoHidNode
      BY <1>1, <2>1 DEF InPlace, Between
    <3>2. Wants' <=> Wants
      BY <1>1 DEF Wants
    <3>3. \A x \in nodes : x # NoHidNode
      OBVIOUS
    <3> QED
      BY <1>1, <2>1, <2>2, <3>1, <3>2, <3>3 DEF CrossInv, Crossing
  <2> QED
    BY <2>3, <2>4, <2>5, <2>6, <2>7, <2>8
<1>5. hid_data_queue = <<>> => First(hid_data_queue) = NoHidNode /\ Rest(hid_data_queue) = <<>>
  BY TakeFacts
<1> QED
  BY <1>2, <1>3, <1>4, <1>5

(* The node is free again.                                                 *)
LEMMA ProcGiveStep ==
  ASSUME HidIInv, ProcGive, crossed' = (crossed \/ Crossing')
  PROVE  HidIInv'
<1> USE NoNode DEF ProcGive, ProcRuns, Traffic, ToProc, HidIInv, HidTyped, PhaseInv, Held
<1>1. /\ proc.pc = "give" /\ proc' = [pc |-> "look", node |-> NoHidNode]
      /\ hid_data_queue' = hid_data_queue /\ report_node' = report_node /\ cb' = cb
      /\ nodes' = nodes /\ node_request' = node_request /\ phase' = phase
      /\ phase \in {"on", "down", "join"} /\ nodes = HidNodes
      /\ active_sem' = active_sem
  OBVIOUS
<1>2. PICK n \in HidNodes, q \in Seq(HidNodes) :
        /\ n = proc.node /\ q = hid_free_queue' /\ q # <<>>
        /\ OfQueue(q) = OfQueue(hid_free_queue) \cup {n} /\ Distinct(q)
  <2>1. proc.node \in HidNodes /\ proc.node \notin OfQueue(hid_free_queue)
    BY <1>1 DEF NodesInv, Apart
  <2> QED
    BY <2>1, PutFacts DEF NodesInv
<1>3. HidTyped'
  BY <1>1, <1>2 DEF Crossing
<1>4. PhaseInv'
  BY <1>1, <1>2
<1>5. NodesInv'
  <2>1. n # NoHidNode /\ n \notin OfQueue(hid_data_queue)
    BY <1>2 DEF NodesInv, Apart
  <2> QED
    BY <1>1, <1>2, <2>1 DEF NodesInv, Apart, Between
<1>6. OrderInv'
  BY <1>1 DEF OrderInv, ReportsInOrder
<1>7. SemInv' /\ RequestInv'
  BY <1>1 DEF SemInv, Between, RequestInv, Wants
<1>8. CrossInv'
  <2> SUFFICES ASSUME ~crossed' PROVE CrossInv'
    BY DEF CrossInv
  <2>1. ~crossed /\ ~Crossing'
    BY Zenon
  <2>2. \A x : InPlace(x) => InPlace(x)' \/ x = NoHidNode
    BY <1>1, <1>2 DEF InPlace, Between
  <2>3. Wants' <=> Wants
    BY <1>1 DEF Wants
  <2>4. \A x \in nodes' : x # NoHidNode /\ InPlace(x)'
    BY <1>1, <2>1, <2>2 DEF CrossInv
  <2> QED
    BY <1>1, <1>2, <2>1, <2>3, <2>4 DEF CrossInv
<1> QED
  BY <1>3, <1>4, <1>5, <1>6, <1>7, <1>8

(* A free node is in the hand of the thread, when the callback wants one.  *)
LEMMA ProcLookStep ==
  ASSUME HidIInv, ProcLook, crossed' = (crossed \/ Crossing')
  PROVE  HidIInv'
<1> USE NoNode DEF ProcLook, ProcRuns, Traffic, ToProc, HidIInv, HidTyped, PhaseInv, Held
<1>1. /\ proc.pc = "look" /\ proc.node = NoHidNode
      /\ hid_data_queue' = hid_data_queue /\ report_node' = report_node /\ cb' = cb
      /\ nodes' = nodes /\ node_request' = node_request /\ phase' = phase
      /\ phase \in {"on", "down", "join"} /\ nodes = HidNodes
      /\ active_sem' = active_sem
  OBVIOUS
<1>2. PICK q \in Seq(HidNodes), h \in Held :
        /\ q = hid_free_queue'
        /\ proc' = [pc |-> IF node_request THEN "hand" ELSE "wait", node |-> h]
        /\ ~node_request => h = NoHidNode
        /\ node_request /\ hid_free_queue # <<>> => h # NoHidNode
        /\ h = NoHidNode => q = hid_free_queue
        /\ h # NoHidNode => OfQueue(hid_free_queue) = OfQueue(q) \cup {h} /\ h \notin OfQueue(q)
        /\ Distinct(q)
  <2>1. CASE node_request
    <3>1. /\ Rest(hid_free_queue) \in Seq(HidNodes) /\ First(hid_free_queue) \in Held
          /\ hid_free_queue # <<>> => First(hid_free_queue) # NoHidNode
          /\ First(hid_free_queue) = NoHidNode => Rest(hid_free_queue) = hid_free_queue
          /\ First(hid_free_queue) # NoHidNode =>
               /\ OfQueue(hid_free_queue) = OfQueue(Rest(hid_free_queue)) \cup {First(hid_free_queue)}
               /\ First(hid_free_queue) \notin OfQueue(Rest(hid_free_queue))
          /\ Distinct(Rest(hid_free_queue))
      BY TakeFacts DEF NodesInv
    <3> QED
      BY <2>1, <3>1
  <2>2. CASE ~node_request
    BY <2>2 DEF NodesInv
  <2> QED
    BY <2>1, <2>2
<1>3. HidTyped'
  BY <1>1, <1>2 DEF Crossing
<1>4. PhaseInv'
  BY <1>1, <1>2
<1>5. NodesInv'
  <2>1. h # NoHidNode => /\ h \notin OfQueue(hid_data_queue) /\ cb.node # h
                         /\ ~Between => report_node # h
    BY <1>2 DEF NodesInv, Apart
  <2> QED
    BY <1>1, <1>2, <2>1 DEF NodesInv, Apart, Between
<1>6. OrderInv'
  BY <1>1, <1>2 DEF OrderInv, ReportsInOrder
<1>7. SemInv' /\ RequestInv'
  BY <1>1, <1>2 DEF SemInv, Between, RequestInv, Wants
<1>8. CrossInv'
  <2>1. \A x : InPlace(x) => InPlace(x)' \/ x = NoHidNode
    BY <1>1, <1>2 DEF InPlace, Between
  <2>2. Wants' <=> Wants
    BY <1>1 DEF Wants
  <2>3. \A x \in nodes : x # NoHidNode
    OBVIOUS
  <2> QED
    BY <1>1, <1>2, <2>1, <2>2, <2>3 DEF CrossInv, Crossing
<1> QED
  BY <1>3, <1>4, <1>5, <1>6, <1>7, <1>8

(* What is left of the nodes is the callback's.                            *)
LEMMA FreeQueuesStep ==
  ASSUME HidIInv, FreeQueues, crossed' = (crossed \/ Crossing')
  PROVE  HidIInv'
<1> USE NoNode DEF FreeQueues, Traffic, HidIInv, HidTyped, PhaseInv, Held
<1>1. /\ phase' = "gone" /\ proc.pc = "ended" /\ cb.pc = "idle"
      /\ hid_free_queue' = <<>> /\ hid_data_queue' = <<>>
      /\ nodes' = nodes \ (OfQueue(hid_free_queue) \cup OfQueue(hid_data_queue))
      /\ proc' = proc /\ cb' = cb /\ report_node' = report_node
      /\ node_request' = node_request
  BY DEF OfQueues
<1>2. <<>> \in Seq(HidNodes) /\ OfQueue(<<>>) = {} /\ Distinct(<<>>) /\ Len(<<>>) = 0
  BY EmptyFacts
<1>3. HidTyped'
  BY <1>1, <1>2 DEF Crossing
<1>4. PhaseInv'
  BY <1>1, <1>2
<1>5. NodesInv'
  BY <1>1, <1>2 DEF NodesInv, Apart, Between
<1>6. OrderInv'
  BY <1>1, <1>2 DEF OrderInv, ReportsInOrder
<1>7. SemInv' /\ RequestInv'
  BY <1>1, <1>2 DEF SemInv, Between, RequestInv, Wants
<1>8. CrossInv'
  BY <1>1, <1>2 DEF CrossInv, Crossing, InPlace, Wants, Between
<1> QED
  BY <1>3, <1>4, <1>5, <1>6, <1>7, <1>8

LEMMA AttachCallbackStep ==
  ASSUME HidIInv, AttachCallback, crossed' = (crossed \/ Crossing')
  PROVE  HidIInv'
<1> USE NoNode DEF AttachCallback, ToCb, ToProc, Traffic, Queues, ProcRuns,
           HidIInv, HidTyped, PhaseInv, Held
<1>1. HidTyped'
  BY DEF Crossing
<1>2. PhaseInv'
  OBVIOUS
<1>3. NodesInv'
  BY DEF NodesInv, Apart, Between
<1>4. OrderInv'
  BY DEF OrderInv, ReportsInOrder
<1>5. SemInv'
  BY DEF Between, SemInv
<1>6. RequestInv'
  BY DEF RequestInv, Wants
<1>7. CrossInv'
  BY DEF CrossInv, Crossing, InPlace, Wants, Between
<1> QED
  BY <1>1, <1>2, <1>3, <1>4, <1>5, <1>6, <1>7 DEF HidIInv

LEMMA CbReportStep ==
  ASSUME HidIInv, CbReport, crossed' = (crossed \/ Crossing')
  PROVE  HidIInv'
<1> USE NoNode DEF CbReport, ToCb, ToProc, Traffic, Queues, ProcRuns,
           HidIInv, HidTyped, PhaseInv, Held
<1>0. \/ /\ cb' = cb /\ report' = report
      \/ /\ report_node \in HidNodes
         /\ cb' = [pc |-> "queue", node |-> NoHidNode]
         /\ report' = [report EXCEPT ![report_node] = hid_arrived + 1]
  OBVIOUS
<1>1. HidTyped'
  BY DEF Crossing
<1>2. PhaseInv'
  OBVIOUS
<1>3. NodesInv'
  BY DEF NodesInv, Apart, Between
<1>4. OrderInv'
  <2>1. /\ hid_data_queue' = hid_data_queue /\ hid_sent' = hid_sent /\ proc' = proc
        /\ report_node' = report_node /\ hid_arrived' = hid_arrived + 1
        /\ cb.pc = "idle" /\ hid_arrived \in Nat
    OBVIOUS
  <2>2. PICK m \in Nat, w \in Nat :
          /\ m = Len(hid_sent) /\ w = Len(hid_data_queue)
          /\ \A i \in 1..m : hid_sent[i] \in Nat
          /\ \A i \in 1..w : hid_data_queue[i] \in OfQueue(hid_data_queue)
          /\ OfQueue(hid_data_queue) \subseteq HidNodes
    <3>1. /\ Len(hid_sent) \in Nat /\ \A i \in 1..Len(hid_sent) : hid_sent[i] \in Nat
      OBVIOUS
    <3>2. /\ Len(hid_data_queue) \in Nat
          /\ \A i \in 1..Len(hid_data_queue) : hid_data_queue[i] \in OfQueue(hid_data_queue)
          /\ OfQueue(hid_data_queue) \subseteq HidNodes
      BY QueueFacts
    <3> QED
      BY <3>1, <3>2, Zenon
  <2>3. CASE cb' = cb /\ report' = report
    BY <2>1, <2>2, <2>3 DEF OrderInv, ReportsInOrder
  <2>4. CASE /\ report_node \in HidNodes
             /\ cb' = [pc |-> "queue", node |-> NoHidNode]
             /\ report' = [report EXCEPT ![report_node] = hid_arrived + 1]
    <3>1. report_node # NoHidNode /\ report'[report_node] = hid_arrived + 1
      BY <2>4
    <3>2. report_node \notin OfQueue(hid_data_queue) /\ proc.node # report_node
      BY <3>1, <2>1 DEF NodesInv, Between, Apart
    <3>3. /\ \A n \in OfQueue(hid_data_queue) : report'[n] = report[n] /\ report[n] \in Nat
          /\ proc.pc = "send" => report'[proc.node] = report[proc.node] /\ report[proc.node] \in Nat
      BY <2>2, <2>4, <3>2
    <3>4. /\ \A n \in OfQueue(hid_data_queue) : report[n] < hid_arrived + 1
          /\ \A i \in 1..m : hid_sent[i] < hid_arrived + 1
          /\ proc.pc = "send" => report[proc.node] < hid_arrived + 1
      BY <2>1, <2>2, <3>3 DEF OrderInv
    <3>5. ReportsInOrder'
      BY <2>1 DEF OrderInv, ReportsInOrder
    <3>6. /\ \A n \in OfQueue(hid_data_queue) : report'[n] <= hid_arrived'
          /\ \A i \in 1..m : hid_sent[i] <= hid_arrived'
          /\ proc.pc = "send" => report'[proc.node] <= hid_arrived'
      BY <2>1, <2>2, <3>3, <3>4
    <3>7. \A i, j \in 1..w : i < j => report'[hid_data_queue[i]] < report'[hid_data_queue[j]]
      BY <2>2, <3>3 DEF OrderInv
    <3>8. /\ \A i \in 1..m, n \in OfQueue(hid_data_queue) : hid_sent[i] < report'[n]
          /\ proc.pc = "send" =>
               /\ \A n \in OfQueue(hid_data_queue) : report'[proc.node] < report'[n]
               /\ \A i \in 1..m : hid_sent[i] < report'[proc.node]
      BY <2>2, <3>3 DEF OrderInv
    <3>9. /\ report'[report_node] = hid_arrived'
          /\ \A n \in OfQueue(hid_data_queue) : report'[n] < hid_arrived'
          /\ \A i \in 1..m : hid_sent[i] < hid_arrived'
          /\ proc.pc = "send" => report'[proc.node] < hid_arrived'
      BY <2>1, <3>1, <3>3, <3>4
    <3> QED
      BY <2>1, <2>2, <3>1, <3>5, <3>6, <3>7, <3>8, <3>9 DEF OrderInv
  <2> QED
    BY <1>0, <2>3, <2>4
<1>5. SemInv'
  BY DEF Between, SemInv
<1>6. RequestInv'
  BY DEF RequestInv, Wants
<1>7. CrossInv'
  <2> SUFFICES ASSUME ~crossed' PROVE CrossInv'
    BY DEF CrossInv
  <2>1. ~crossed /\ ~Crossing'
    BY Zenon
  <2>2. /\ hid_free_queue' = hid_free_queue /\ hid_data_queue' = hid_data_queue
        /\ proc' = proc /\ report_node' = report_node /\ node_request' = node_request
        /\ nodes' = nodes /\ phase' = phase /\ cb.pc = "idle" /\ cb'.node = cb.node
        /\ cb'.pc \in {"idle", "queue"}
    BY <1>0
  <2>3. \A n \in nodes' : InPlace(n)'
    BY <2>1, <2>2 DEF CrossInv, InPlace, Between
  <2>4. Wants' => Wants
    BY <2>2 DEF Wants
  <2> QED
    BY <2>1, <2>2, <2>3, <2>4 DEF CrossInv
<1> QED
  BY <1>1, <1>2, <1>3, <1>4, <1>5, <1>6, <1>7 DEF HidIInv

LEMMA CbRequestStep ==
  ASSUME HidIInv, CbRequest, crossed' = (crossed \/ Crossing')
  PROVE  HidIInv'
<1> USE NoNode DEF CbRequest, ToCb, ToProc, Traffic, Queues, ProcRuns,
           HidIInv, HidTyped, PhaseInv, Held
<1>1. HidTyped'
  BY DEF Crossing
<1>2. PhaseInv'
  OBVIOUS
<1>3. NodesInv'
  BY DEF NodesInv, Apart, Between
<1>4. OrderInv'
  BY DEF OrderInv, ReportsInOrder
<1>5. SemInv'
  BY DEF Between, SemInv
<1>6. RequestInv'
  BY DEF RequestInv, Wants
<1>7. CrossInv'
  BY DEF CrossInv, Crossing, InPlace, Wants, Between
<1> QED
  BY <1>1, <1>2, <1>3, <1>4, <1>5, <1>6, <1>7 DEF HidIInv

LEMMA CbKeepStep ==
  ASSUME HidIInv, CbKeep, crossed' = (crossed \/ Crossing')
  PROVE  HidIInv'
<1> USE NoNode DEF CbKeep, ToCb, ToProc, Traffic, Queues, ProcRuns,
           HidIInv, HidTyped, PhaseInv, Held
<1>1. HidTyped'
  BY DEF Crossing
<1>2. PhaseInv'
  OBVIOUS
<1>3. NodesInv'
  BY DEF NodesInv, Apart, Between
<1>4. OrderInv'
  BY DEF OrderInv, ReportsInOrder
<1>5. SemInv'
  BY DEF Between, SemInv
<1>6. RequestInv'
  BY DEF RequestInv, Wants
<1>7. CrossInv'
  BY DEF CrossInv, Crossing, InPlace, Wants, Between
<1> QED
  BY <1>1, <1>2, <1>3, <1>4, <1>5, <1>6, <1>7 DEF HidIInv

LEMMA CbPostStep ==
  ASSUME HidIInv, CbPost, crossed' = (crossed \/ Crossing')
  PROVE  HidIInv'
<1> USE NoNode DEF CbPost, SemPost, ToCb, ToProc, Traffic, Queues, ProcRuns,
           HidIInv, HidTyped, PhaseInv, Held
<1>1. HidTyped'
  BY DEF Crossing
<1>2. PhaseInv'
  OBVIOUS
<1>3. NodesInv'
  BY DEF NodesInv, Apart, Between
<1>4. OrderInv'
  BY DEF OrderInv, ReportsInOrder
<1>5. SemInv'
  BY DEF Between, SemInv
<1>6. RequestInv'
  BY DEF RequestInv, Wants
<1>7. CrossInv'
  BY DEF CrossInv, Crossing, InPlace, Wants, Between
<1> QED
  BY <1>1, <1>2, <1>3, <1>4, <1>5, <1>6, <1>7 DEF HidIInv

LEMMA ProcSendStep ==
  ASSUME HidIInv, ProcSend, crossed' = (crossed \/ Crossing')
  PROVE  HidIInv'
<1> USE NoNode DEF ProcSend, ToCb, ToProc, Traffic, Queues, ProcRuns,
           HidIInv, HidTyped, PhaseInv, Held
<1>0. /\ proc.pc = "send" /\ proc.node \in HidNodes
      /\ hid_sent' = hid_sent \/ hid_sent' = Append(hid_sent, report[proc.node])
  OBVIOUS
<1>1. HidTyped'
  <2>1. hid_sent' \in Seq(Nat)
    <3>1. PICK v \in Nat, q \in Seq(Nat) : v = report[proc.node] /\ q = hid_sent
      BY <1>0
    <3>2. Append(q, v) \in Seq(Nat)
      BY AppendFacts
    <3> QED
      BY <3>1, <3>2, <1>0
  <2>2. crossed' \in BOOLEAN
    BY Zenon
  <2> QED
    BY <2>1, <2>2, <1>0
<1>2. PhaseInv'
  OBVIOUS
<1>3. NodesInv'
  BY DEF NodesInv, Apart, Between
<1>4. OrderInv'
  <2>1. CASE hid_sent' = hid_sent
    BY <2>1, <1>0 DEF OrderInv, ReportsInOrder
  <2>2. CASE hid_sent' = Append(hid_sent, report[proc.node])
    <3>1. PICK v \in Nat : v = report[proc.node]
      BY <1>0
    <3>2. PICK m \in Nat, q \in Seq(Nat) :
            /\ m = Len(hid_sent) /\ q = hid_sent' /\ Len(q) = m + 1
            /\ \A i \in 1..m : q[i] = hid_sent[i]
            /\ q[m + 1] = v
      <4>1. /\ Append(hid_sent, v) \in Seq(Nat) /\ Len(hid_sent) \in Nat
            /\ Len(Append(hid_sent, v)) = Len(hid_sent) + 1
            /\ \A i \in 1..Len(hid_sent) : Append(hid_sent, v)[i] = hid_sent[i]
            /\ Append(hid_sent, v)[Len(hid_sent) + 1] = v
        BY AppendFacts
      <4> QED
        BY <4>1, <3>1, <2>2, Zenon
    <3>3. /\ DOMAIN hid_sent = 1..m /\ DOMAIN q = 1..m + 1
          /\ \A i \in 1..m : hid_sent[i] \in Nat
      BY <3>2
    <3>4. /\ \A i, j \in 1..m : i < j => hid_sent[i] < hid_sent[j]
          /\ \A i \in 1..m : hid_sent[i] < v /\ hid_sent[i] <= hid_arrived
          /\ \A i \in 1..m, n \in OfQueue(hid_data_queue) : hid_sent[i] < report[n]
          /\ \A n \in OfQueue(hid_data_queue) : v < report[n]
          /\ v <= hid_arrived
          /\ cb.pc = "queue" => v < hid_arrived /\ \A i \in 1..m : hid_sent[i] < hid_arrived
      BY <1>0, <3>1, <3>2, <3>3 DEF OrderInv, ReportsInOrder
    <3>5. \A i \in 1..m + 1 : i \in 1..m \/ i = m + 1
      BY <3>2
    <3>6. \A i, j \in 1..m + 1 : i < j => q[i] < q[j]
      <4> SUFFICES ASSUME NEW i \in 1..m + 1, NEW j \in 1..m + 1, i < j PROVE q[i] < q[j]
        OBVIOUS
      <4>1. i \in 1..m
        BY <3>2
      <4>2. CASE j \in 1..m
        BY <4>1, <4>2, <3>2, <3>4
      <4>3. CASE j = m + 1
        BY <4>1, <4>3, <3>2, <3>4
      <4> QED
        BY <4>2, <4>3, <3>5
    <3>7. ReportsInOrder'
      BY <3>2, <3>3, <3>6 DEF ReportsInOrder
    <3>8. /\ \A i \in 1..m + 1 : q[i] <= hid_arrived
          /\ \A i \in 1..m + 1, n \in OfQueue(hid_data_queue) : q[i] < report[n]
          /\ cb.pc = "queue" => \A i \in 1..m + 1 : q[i] < hid_arrived
      BY <3>2, <3>4, <3>5
    <3>9. proc'.pc = "give" /\ hid_data_queue' = hid_data_queue /\ report' = report
          /\ hid_arrived' = hid_arrived /\ cb' = cb /\ report_node' = report_node
      OBVIOUS
    <3> QED
      BY <3>2, <3>7, <3>8, <3>9 DEF OrderInv
  <2> QED
    BY <2>1, <2>2, <1>0
<1>5. SemInv'
  BY DEF Between, SemInv
<1>6. RequestInv'
  BY DEF RequestInv, Wants
<1>7. CrossInv'
  BY DEF CrossInv, Crossing, InPlace, Wants, Between
<1> QED
  BY <1>1, <1>2, <1>3, <1>4, <1>5, <1>6, <1>7 DEF HidIInv

LEMMA ProcHandStep ==
  ASSUME HidIInv, ProcHand, crossed' = (crossed \/ Crossing')
  PROVE  HidIInv'
<1> USE NoNode DEF ProcHand, ToCb, ToProc, Traffic, Queues, ProcRuns,
           HidIInv, HidTyped, PhaseInv, Held
<1>1. HidTyped'
  BY DEF Crossing
<1>2. PhaseInv'
  OBVIOUS
<1>3. NodesInv'
  BY DEF NodesInv, Apart, Between
<1>4. OrderInv'
  BY DEF OrderInv, ReportsInOrder, RequestInv, Wants
<1>5. SemInv'
  BY DEF Between, SemInv
<1>6. RequestInv'
  BY DEF RequestInv, Wants
<1>7. CrossInv'
  BY DEF CrossInv, Crossing, InPlace, Wants, Between, RequestInv
<1> QED
  BY <1>1, <1>2, <1>3, <1>4, <1>5, <1>6, <1>7 DEF HidIInv

LEMMA ProcClearStep ==
  ASSUME HidIInv, ProcClear, crossed' = (crossed \/ Crossing')
  PROVE  HidIInv'
<1> USE NoNode DEF ProcClear, ToCb, ToProc, Traffic, Queues, ProcRuns,
           HidIInv, HidTyped, PhaseInv, Held
<1>1. HidTyped'
  BY DEF Crossing
<1>2. PhaseInv'
  OBVIOUS
<1>3. NodesInv'
  BY DEF NodesInv, Apart, Between
<1>4. OrderInv'
  BY DEF OrderInv, ReportsInOrder
<1>5. SemInv'
  BY DEF Between, SemInv
<1>6. RequestInv'
  BY DEF RequestInv, Wants
<1>7. CrossInv'
  BY DEF CrossInv, Crossing, InPlace, Wants, Between
<1> QED
  BY <1>1, <1>2, <1>3, <1>4, <1>5, <1>6, <1>7 DEF HidIInv

LEMMA DetachedStep ==
  ASSUME HidIInv, Detached, crossed' = (crossed \/ Crossing')
  PROVE  HidIInv'
<1> USE NoNode DEF Detached, ToCb, ToProc, Traffic, Queues, ProcRuns,
           HidIInv, HidTyped, PhaseInv, Held
<1>1. HidTyped'
  BY DEF Crossing
<1>2. PhaseInv'
  OBVIOUS
<1>3. NodesInv'
  BY DEF NodesInv, Apart, Between
<1>4. OrderInv'
  BY DEF OrderInv, ReportsInOrder
<1>5. SemInv'
  BY DEF Between, SemInv
<1>6. RequestInv'
  BY DEF RequestInv, Wants
<1>7. CrossInv'
  BY DEF CrossInv, Crossing, InPlace, Wants, Between
<1> QED
  BY <1>1, <1>2, <1>3, <1>4, <1>5, <1>6, <1>7 DEF HidIInv

LEMMA StopThreadStep ==
  ASSUME HidIInv, StopThread, crossed' = (crossed \/ Crossing')
  PROVE  HidIInv'
<1> USE NoNode DEF StopThread, ToCb, ToProc, Traffic, Queues, ProcRuns,
           HidIInv, HidTyped, PhaseInv, Held
<1>1. HidTyped'
  BY DEF Crossing
<1>2. PhaseInv'
  OBVIOUS
<1>3. NodesInv'
  BY DEF NodesInv, Apart, Between
<1>4. OrderInv'
  BY DEF OrderInv, ReportsInOrder
<1>5. SemInv'
  BY DEF Between, SemInv
<1>6. RequestInv'
  BY DEF RequestInv, Wants
<1>7. CrossInv'
  BY DEF CrossInv, Crossing, InPlace, Wants, Between
<1> QED
  BY <1>1, <1>2, <1>3, <1>4, <1>5, <1>6, <1>7 DEF HidIInv

-----------------------------------------------------------------------------
(* The theorems.                                                           *)

LEMMA HidStarts == HidInit => HidIInv
<1> SUFFICES ASSUME HidInit PROVE HidIInv
  OBVIOUS
<1> USE NoNode DEF HidInit, Held
<1>1. <<>> \in Seq(HidNodes) /\ <<>> \in Seq(Nat) /\ OfQueue(<<>>) = {} /\ Distinct(<<>>) /\ Len(<<>>) = 0
  BY EmptyFacts
<1>2. HidTyped
  BY <1>1 DEF HidTyped
<1>3. PhaseInv
  BY <1>1 DEF PhaseInv
<1>4. NodesInv
  BY <1>1 DEF NodesInv, Apart, Between
<1>5. OrderInv
  BY <1>1 DEF OrderInv, ReportsInOrder
<1>6. SemInv /\ RequestInv
  BY <1>1 DEF SemInv, Between, RequestInv, Wants
<1>7. CrossInv
  BY <1>1 DEF CrossInv, Crossing
<1> QED
  BY <1>2, <1>3, <1>4, <1>5, <1>6, <1>7 DEF HidIInv

LEMMA HidStep == HidIInv /\ [HidNext]_hidVars => HidIInv'
<1> SUFFICES ASSUME HidIInv, [HidNext]_hidVars PROVE HidIInv'
  OBVIOUS
<1>1. CASE HidNext
  <2>1. crossed' = (crossed \/ Crossing')
    BY <1>1 DEF HidNext
  <2>2. CASE AllocNode
    BY <2>1, <2>2, AllocNodeStep
  <2>3. CASE StartThread
    BY <2>1, <2>3, StartThreadStep
  <2>4. CASE AttachCallback
    BY <2>1, <2>4, AttachCallbackStep
  <2>5. CASE CbNext
    BY <2>1, <2>5, CbReportStep, CbQueueStep, CbTakeStep, CbRequestStep, CbKeepStep, CbPostStep
       DEF CbNext
  <2>6. CASE ProcNext
    BY <2>1, <2>6, ProcWakeStep, ProcSendStep, ProcGiveStep, ProcLookStep, ProcHandStep,
       ProcClearStep DEF ProcNext
  <2>7. CASE Detached
    BY <2>1, <2>7, DetachedStep
  <2>8. CASE StopThread
    BY <2>1, <2>8, StopThreadStep
  <2>9. CASE FreeQueues
    BY <2>1, <2>9, FreeQueuesStep
  <2> QED
    BY <1>1, <2>2, <2>3, <2>4, <2>5, <2>6, <2>7, <2>8, <2>9 DEF HidNext
<1>2. CASE UNCHANGED hidVars
  BY <1>2 DEF hidVars, HidIInv, HidTyped, PhaseInv, NodesInv, Apart, OrderInv,
    ReportsInOrder, SemInv, Between, RequestInv, Wants, CrossInv, Crossing, InPlace
<1> QED
  BY <1>1, <1>2

(* The inductive invariant of the input reports holds in every state       *)
(* (hid.c:383-505, 560-726).                                               *)
THEOREM HidHolds == HidSpec => []HidIInv
  BY HidStarts, HidStep, PTL DEF HidSpec

(* Reports leave in the order the device gave them, each at most once,     *)
(* although they wait in nodes that go round (hid.c:443-458, 487-492).     *)
THEOREM ReportsCorrect == HidSpec => []ReportsInOrder
<1>1. HidIInv => ReportsInOrder
  BY DEF HidIInv, OrderInv
<1> QED
  BY <1>1, HidHolds, PTL

(* A waiting thread is woken for what is queued, and knows of a callback   *)
(* without a node unless the two crossed (hid.c:433-458, 481-498).         *)
THEOREM WantsCorrect == HidSpec => []WantsAreHeard
<1>1. HidIInv => WantsAreHeard
  <2> SUFFICES ASSUME HidIInv, phase = "on", cb.pc = "idle", proc.pc = "wait"
               PROVE  /\ hid_data_queue # <<>> => active_sem > 0
                      /\ report_node = NoHidNode => node_request \/ crossed
    BY DEF WantsAreHeard
  <2>1. hid_data_queue # <<>> => active_sem > 0
    <3>1. PICK m \in Nat : m = Len(hid_data_queue) /\ (m = 0 => hid_data_queue = <<>>)
      BY QueueFacts DEF HidIInv, HidTyped
    <3>2. m <= active_sem /\ active_sem \in Nat
      BY <3>1 DEF HidIInv, HidTyped, SemInv, Between
    <3> QED
      BY <3>1, <3>2
  <2>2. report_node = NoHidNode => node_request \/ crossed
    BY DEF HidIInv, CrossInv, Wants
  <2> QED
    BY <2>1, <2>2
<1> QED
  BY <1>1, HidHolds, PTL

(* What the exit leaves behind is the callback's node alone, unless the    *)
(* two crossed (hid.c:624-636, 707-726).                                   *)
THEOREM LeakCorrect == HidSpec => []OnlyReportNodeLeaks
<1>1. HidIInv => OnlyReportNodeLeaks
  <2> SUFFICES ASSUME HidIInv PROVE OnlyReportNodeLeaks
    OBVIOUS
  <2>1. HidTypeOK
    BY DEF HidTypeOK, HidIInv, HidTyped, Held, NodesInv
  <2>2. ASSUME phase = "failed" PROVE nodes \subseteq {report_node}
    BY <2>2 DEF HidIInv, PhaseInv
  <2>3. ASSUME phase = "gone", ~crossed PROVE nodes \subseteq {report_node}
    <3>1. /\ hid_free_queue = <<>> /\ hid_data_queue = <<>>
          /\ proc.node = NoHidNode /\ cb.node = NoHidNode
      BY <2>3 DEF HidIInv, PhaseInv
    <3>2. \A n \in nodes : InPlace(n) /\ n # NoHidNode
      BY <2>3, NoNode DEF HidIInv, CrossInv, HidTyped
    <3> QED
      BY <3>1, <3>2, EmptyFacts DEF InPlace
  <2> QED
    BY <2>1, <2>2, <2>3 DEF OnlyReportNodeLeaks
<1> QED
  BY <1>1, HidHolds, PTL

-----------------------------------------------------------------------------
(* The buffers of a transfer.                                              *)

(* A set that has 0, and the successor of whatever number it has, has all. *)
LEMMA AllNumbers ==
  ASSUME NEW S, 0 \in S, \A n \in Nat : n \in S => n + 1 \in S
  PROVE  \A n \in Nat : n \in S
<1> SUFFICES ASSUME NEW n \in Nat, n \notin S PROVE FALSE
  OBVIOUS
<1>1. PICK T : T = Nat \ S
  OBVIOUS
<1>2. PICK R : R = OpToRel(<, Nat)
  OBVIOUS
<1>3. IsWellFoundedOn(R, Nat)
  BY <1>2, NatLessThanWellFounded
<1>4. T \subseteq Nat /\ T # {}
  BY <1>1
<1>5. PICK l \in T : \A k \in T : <<k, l>> \notin R
  BY <1>3, <1>4, WFMin
<1>6. l \in Nat /\ l # 0 /\ l - 1 \in Nat /\ l - 1 < l
  BY <1>1, <1>5
<1>7. <<l - 1, l>> \in R
  BY <1>2, <1>6 DEF OpToRel
<1>8. l - 1 \in S
  BY <1>1, <1>5, <1>6, <1>7
<1>9. (l - 1) + 1 \in S /\ (l - 1) + 1 = l
  BY <1>6, <1>8
<1> QED
  BY <1>1, <1>5, <1>9

(* c[i] is how many words the first i descriptors have, of len[i] each.    *)
Sums(c, n, len) ==
  /\ n \in Nat /\ c \in [0..n -> Nat] /\ len \in [1..n -> Nat]
  /\ c[0] = 0
  /\ \A i \in 1..n : c[i] = c[i - 1] + len[i]

LEMMA SumsExist ==
  ASSUME NEW n \in Nat, NEW len \in [1..n -> Nat]
  PROVE  \E c : Sums(c, n, len)
<1> DEFINE IsSum(c, m) == /\ c \in [0..m -> Nat] /\ c[0] = 0
                          /\ \A i \in 1..m : c[i] = c[i - 1] + len[i]
           S == {m \in Nat : m <= n => \E c : IsSum(c, m)}
<1>1. 0 \in S
  <2>1. IsSum([i \in 0..0 |-> 0], 0)
    OBVIOUS
  <2> QED
    BY <2>1
<1>2. ASSUME NEW m \in Nat, m \in S PROVE m + 1 \in S
  <2> HIDE DEF IsSum
  <2> SUFFICES ASSUME m + 1 <= n PROVE \E c : IsSum(c, m + 1)
    OBVIOUS
  <2>1. PICK c : IsSum(c, m)
    BY <1>2
  <2> USE DEF IsSum
  <2> DEFINE d == [i \in 0..m + 1 |-> IF i = m + 1 THEN c[m] + len[m + 1] ELSE c[i]]
  <2>2. m + 1 \in 1..n /\ m \in 0..m
    OBVIOUS
  <2>2a. len[m + 1] \in Nat /\ c[m] \in Nat
    BY <2>1, <2>2
  <2>3. d \in [0..m + 1 -> Nat] /\ d[0] = 0
    BY <2>1, <2>2a
  <2>4. ASSUME NEW i \in 1..m + 1 PROVE d[i] = d[i - 1] + len[i]
    <3>1. i - 1 \in 0..m /\ d[i - 1] = c[i - 1]
      OBVIOUS
    <3>2. CASE i = m + 1
      BY <2>2a, <3>1, <3>2
    <3>3. CASE i \in 1..m
      BY <2>1, <3>1, <3>3
    <3> QED
      BY <3>2, <3>3
  <2>5. IsSum(d, m + 1)
    BY <2>3, <2>4
  <2> HIDE DEF IsSum
  <2> QED
    BY <2>5
<1> HIDE DEF S
<1>3. n \in S
  BY <1>1, <1>2, AllNumbers
<1> HIDE DEF IsSum
<1>4. PICK c : IsSum(c, n)
  BY <1>3 DEF S
<1>5. Sums(c, n, len)
  BY <1>4 DEF IsSum, Sums
<1> QED
  BY <1>5

LEMMA SumsGrow ==
  ASSUME NEW c, NEW n, NEW len, Sums(c, n, len)
  PROVE  \A i, j \in 0..n : i <= j => c[i] <= c[j]
<1> SUFFICES ASSUME NEW i \in 0..n PROVE \A j \in 0..n : i <= j => c[i] <= c[j]
  OBVIOUS
<1> DEFINE S == {m \in Nat : i + m <= n => c[i] <= c[i + m]}
<1>1. 0 \in S
  BY DEF Sums
<1>2. ASSUME NEW m \in Nat, m \in S PROVE m + 1 \in S
  <2> SUFFICES ASSUME i + (m + 1) <= n PROVE c[i] <= c[i + (m + 1)]
    OBVIOUS
  <2>0. n \in Nat /\ i \in Nat /\ i + (m + 1) \in Nat /\ i + (m + 1) > 0
    BY DEF Sums
  <2>1. PICK k \in 1..n : k = i + (m + 1) /\ k - 1 = i + m
    BY <2>0
  <2>2. c[i] <= c[k - 1] /\ k - 1 \in 0..n
    BY <1>2, <2>0, <2>1
  <2>3. c[k] = c[k - 1] + len[k] /\ c[k - 1] \in Nat /\ len[k] \in Nat /\ c[i] \in Nat
    BY <2>1, <2>2 DEF Sums
  <2> QED
    BY <2>1, <2>2, <2>3
<1> HIDE DEF S
<1>3. \A m \in Nat : m \in S
  BY <1>1, <1>2, AllNumbers
<1> SUFFICES ASSUME NEW j \in 0..n, i <= j PROVE c[i] <= c[j]
  OBVIOUS
<1>4. j - i \in Nat /\ i + (j - i) = j /\ j <= n
  BY DEF Sums
<1>5. j - i \in S
  BY <1>3, <1>4
<1> QED
  BY <1>4, <1>5 DEF S

(* Every word is one of a descriptor's.                                    *)
LEMMA SumsCover ==
  ASSUME NEW c, NEW n, NEW len, Sums(c, n, len)
  PROVE  \A t \in 1..c[n] : \E i \in 1..n : \E k \in 1..len[i] : t = c[i - 1] + k
<1> DEFINE Here(t) == \E i \in 1..n : \E k \in 1..len[i] : t = c[i - 1] + k
           S == {m \in Nat : m <= n => \A t \in 1..c[m] : Here(t)}
<1>1. 0 \in S
  BY DEF Sums
<1>2. ASSUME NEW m \in Nat, m \in S PROVE m + 1 \in S
  <2> SUFFICES ASSUME m + 1 <= n, NEW t \in 1..c[m + 1] PROVE Here(t)
    OBVIOUS
  <2>1. PICK j \in 1..n : j = m + 1 /\ j - 1 = m /\ m <= n
    BY DEF Sums
  <2>2. c[j] = c[m] + len[j] /\ c[m] \in Nat /\ len[j] \in Nat
    BY <2>1 DEF Sums
  <2>3. CASE t \in 1..c[m]
    BY <1>2, <2>1, <2>3
  <2>4. CASE t \notin 1..c[m]
    <3>1. t - c[m] \in 1..len[j] /\ t = c[j - 1] + (t - c[m])
      BY <2>1, <2>2, <2>4
    <3> QED
      BY <3>1
  <2> QED
    BY <2>3, <2>4
<1> HIDE DEF S
<1>3. n \in Nat /\ n \in S
  BY <1>1, <1>2, AllNumbers DEF Sums
<1> QED
  BY <1>3 DEF S

-----------------------------------------------------------------------------
(* Sequences one after the other.                                          *)

(* s is n sequences, of len[i] elements each.                              *)
Lists(s, n, len) ==
  /\ \E T : s \in Seq(Seq(T))
  /\ n \in Nat /\ Len(s) = n /\ len \in [1..n -> Nat]
  /\ \A i \in 1..n : Len(s[i]) = len[i]

(* f is the first m sequences of s, one after the other.                   *)
Flat(f, s, m, c, len) ==
  /\ \E T : f \in Seq(T)
  /\ Len(f) = c[m]
  /\ \A i \in 1..m : \A k \in 1..len[i] : f[c[i - 1] + k] = s[i][k]

(* The function that FlattenSeq is defined by.                             *)
LEMMA FlattenExists ==
  ASSUME NEW s, NEW n \in Nat
  PROVE  \E f : f = [i \in 1..n |-> IF i = 1 THEN s[i] ELSE f[i - 1] \o s[i]]
<1> DEFINE IsFlat(f, m) == f = [i \in 1..m |-> IF i = 1 THEN s[i] ELSE f[i - 1] \o s[i]]
           S == {m \in Nat : \E f : IsFlat(f, m)}
<1>1. 0 \in S
  <2>1. PICK f : f = [i \in 1..0 |-> 0]
    OBVIOUS
  <2>2. IsFlat(f, 0)
    BY <2>1
  <2> QED
    BY <2>2
<1>2. ASSUME NEW m \in Nat, m \in S PROVE m + 1 \in S
  <2>1. PICK f : IsFlat(f, m)
    BY <1>2
  <2> DEFINE g == [i \in 1..m + 1 |->
                     IF i = m + 1 THEN IF i = 1 THEN s[i] ELSE f[m] \o s[i] ELSE f[i]]
  <2>2. ASSUME NEW i \in 1..m + 1
        PROVE  g[i] = IF i = 1 THEN s[i] ELSE g[i - 1] \o s[i]
    <3>1. CASE i = m + 1 /\ i = 1
      BY <3>1
    <3>2. CASE i = m + 1 /\ i # 1
      <4>1. m \in 1..m + 1 /\ m # m + 1 /\ i - 1 = m
        BY <3>2
      <4>2. g[i - 1] = f[m]
        BY <4>1
      <4> QED
        BY <3>2, <4>2
    <3>3. CASE i # m + 1 /\ i = 1
      <4>1. i \in 1..m
        BY <3>3
      <4> QED
        BY <2>1, <3>3, <4>1
    <3>4. CASE i # m + 1 /\ i # 1
      <4>1. i \in 1..m /\ i - 1 \in 1..m + 1 /\ i - 1 # m + 1
        BY <3>4
      <4>2. g[i - 1] = f[i - 1] /\ g[i] = f[i]
        BY <3>4, <4>1
      <4>3. f[i] = f[i - 1] \o s[i]
        BY <2>1, <3>4, <4>1
      <4> QED
        BY <3>4, <4>2, <4>3
    <3> QED
      BY <3>1, <3>2, <3>3, <3>4
  <2>3. DOMAIN g = 1..m + 1 /\ g = [i \in DOMAIN g |-> g[i]]
    OBVIOUS
  <2> HIDE DEF g
  <2>4. IsFlat(g, m + 1)
    BY <2>2, <2>3
  <2> HIDE DEF IsFlat
  <2> QED
    BY <2>4
<1> HIDE DEF S
<1>3. n \in S
  BY <1>1, <1>2, AllNumbers
<1> QED
  BY <1>3 DEF S

LEMMA FlatNext ==
  ASSUME NEW s, NEW n, NEW len, Lists(s, n, len), NEW c, Sums(c, n, len),
         NEW m \in 1..n, NEW f, Flat(f, s, m - 1, c, len)
  PROVE  Flat(f \o s[m], s, m, c, len)
<1>1. PICK T : s \in Seq(Seq(T))
  BY DEF Lists
<1>2. PICK U : f \in Seq(U)
  BY DEF Flat
<1>3. PICK q : q = s[m]
  OBVIOUS
<1>4. q \in Seq(T) /\ Len(q) = len[m]
  BY <1>1, <1>3 DEF Lists
<1>5. PICK a \in Nat, b \in Nat : a = c[m - 1] /\ b = len[m]
  BY DEF Sums
<1>6. f \in Seq(U \cup T) /\ q \in Seq(U \cup T) /\ Len(f) = a /\ Len(q) = b
  BY <1>2, <1>4, <1>5 DEF Flat
<1>7. PICK h : h = f \o q
  OBVIOUS
<1>8. /\ h \in Seq(U \cup T) /\ Len(h) = a + b
      /\ \A t \in 1..a : h[t] = f[t]
      /\ \A k \in 1..b : h[a + k] = q[k]
  <2>1. h \in Seq(U \cup T) /\ Len(h) = a + b
    <3>1. PICK W : W = U \cup T
      OBVIOUS
    <3>2. f \in Seq(W) /\ q \in Seq(W)
      BY <1>6, <3>1
    <3>3. f \o q \in Seq(W) /\ Len(f \o q) = Len(f) + Len(q)
      BY <3>2
    <3> QED
      BY <1>6, <1>7, <3>1, <3>3
  <2>2. \A t \in 1..a : h[t] = f[t]
    BY <1>6, <1>7
  <2>3. \A k \in 1..b : h[a + k] = q[k]
    BY <1>6, <1>7
  <2> QED
    BY <2>1, <2>2, <2>3
<1>9. Len(h) = c[m]
  BY <1>5, <1>8 DEF Sums
<1>10. ASSUME NEW i \in 1..m, NEW k \in 1..len[i] PROVE h[c[i - 1] + k] = s[i][k]
  <2>1. CASE i = m
    BY <1>3, <1>5, <1>8, <1>10, <2>1
  <2>2. CASE i \in 1..m - 1
    <3>1. i \in 1..n /\ i - 1 \in 0..n /\ i \in 0..n /\ m - 1 \in 0..n /\ i <= m - 1
      BY <2>2 DEF Sums
    <3>2. c[i] = c[i - 1] + len[i] /\ c[i] <= a
      BY <1>5, <3>1, SumsGrow DEF Sums
    <3>3. c[i - 1] \in Nat /\ len[i] \in Nat /\ c[i] \in Nat
      BY <3>1 DEF Sums
    <3>4. c[i - 1] + k \in 1..a
      BY <1>10, <3>2, <3>3
    <3>5. f[c[i - 1] + k] = s[i][k]
      BY <1>10, <2>2 DEF Flat
    <3> QED
      BY <1>8, <3>4, <3>5
  <2> QED
    BY <2>1, <2>2
<1> QED
  BY <1>3, <1>7, <1>8, <1>9, <1>10 DEF Flat

LEMMA FlattenFacts ==
  ASSUME NEW s, NEW n, NEW len, Lists(s, n, len), NEW c, Sums(c, n, len)
  PROVE  Flat(Seqs!FlattenSeq(s), s, n, c, len)
<1>1. n \in Nat /\ Len(s) = n
  BY DEF Lists
<1>2. CASE n = 0
  <2>1. Seqs!FlattenSeq(s) = s
    BY <1>1, <1>2 DEF Seqs!FlattenSeq
  <2>2. PICK T : s \in Seq(T)
    BY DEF Lists
  <2> QED
    BY <1>1, <1>2, <2>1, <2>2 DEF Flat, Sums
<1>3. CASE n # 0
  <2> DEFINE IsFlat(f) == f = [i \in 1..n |-> IF i = 1 THEN s[i] ELSE f[i - 1] \o s[i]]
             F == CHOOSE f : IsFlat(f)
  <2>1. Seqs!FlattenSeq(s) = F[n]
    BY <1>1, <1>3 DEF Seqs!FlattenSeq
  <2>2. IsFlat(F)
    <3>1. \E f : IsFlat(f)
      BY <1>1, FlattenExists
    <3> HIDE DEF IsFlat
    <3> QED
      BY <3>1
  <2>3. \A i \in 1..n : F[i] = IF i = 1 THEN s[i] ELSE F[i - 1] \o s[i]
    BY <2>2
  <2> HIDE DEF F
  <2> DEFINE S == {m \in Nat : m + 1 <= n => Flat(F[m + 1], s, m + 1, c, len)}
  <2>4. 0 \in S
    <3>1. 1 \in 1..n /\ F[1] = s[1]
      BY <1>1, <1>3, <2>3
    <3>2. PICK T : s \in Seq(Seq(T))
      BY DEF Lists
    <3>3. s[1] \in Seq(T) /\ Len(s[1]) = len[1] /\ len[1] \in Nat
      BY <1>1, <3>1, <3>2 DEF Lists
    <3>4. c[1] = c[0] + len[1] /\ c[0] = 0
      BY <3>1 DEF Sums
    <3>5. Len(s[1]) = c[1]
      BY <3>3, <3>4
    <3>6. \A k \in 1..len[1] : s[1][c[0] + k] = s[1][k]
      BY <3>4
    <3>7. \A i \in 1..1 : i = 1 /\ i - 1 = 0
      OBVIOUS
    <3>8. Flat(s[1], s, 1, c, len)
      BY <3>3, <3>5, <3>6, <3>7 DEF Flat
    <3> QED
      BY <3>1, <3>8
  <2>5. ASSUME NEW m \in Nat, m \in S PROVE m + 1 \in S
    <3> SUFFICES ASSUME (m + 1) + 1 <= n PROVE Flat(F[(m + 1) + 1], s, (m + 1) + 1, c, len)
      OBVIOUS
    <3>1. PICK j \in 1..n : j = (m + 1) + 1 /\ j - 1 = m + 1 /\ j # 1
      BY <1>1
    <3>2. Flat(F[j - 1], s, j - 1, c, len)
      BY <1>1, <2>5, <3>1
    <3>3. F[j] = F[j - 1] \o s[j]
      BY <2>3, <3>1
    <3>4. Flat(F[j], s, j, c, len)
      BY <3>2, <3>3, FlatNext
    <3> QED
      BY <3>1, <3>4
  <2> HIDE DEF S
  <2>6. n - 1 \in S
    BY <1>1, <1>3, <2>4, <2>5, AllNumbers
  <2>7. Flat(F[n], s, n, c, len)
    <3>1. (n - 1) + 1 = n
      BY <1>1
    <3> QED
      BY <1>1, <2>6, <3>1 DEF S
  <2> QED
    BY <2>1, <2>7
<1> QED
  BY <1>2, <1>3

-----------------------------------------------------------------------------
(* The sets of buffers.                                                    *)

(* X counts its numbers: it has the first ones, or one beyond their number. *)
LEMMA Counted ==
  ASSUME NEW n \in Nat, NEW X, X \subseteq 1..n
  PROVE  /\ Cardinality(X) \in 0..n
         /\ \/ X = 1..Cardinality(X)
            \/ \E j \in X : j > Cardinality(X)
<1>1. IsFiniteSet(1..n) /\ Cardinality(1..n) = n
  BY FS_Interval
<1>2. IsFiniteSet(X) /\ Cardinality(X) <= n
  BY <1>1, FS_Subset
<1>3. PICK w \in Nat : w = Cardinality(X)
  BY <1>2, FS_CardinalityType
<1>4. ASSUME \A j \in X : ~(j > w) PROVE X = 1..w
  <2>1. PICK Y : Y = 1..w
    OBVIOUS
  <2>2. X \subseteq Y
    BY <1>4, <2>1
  <2>3. IsFiniteSet(Y) /\ Cardinality(Y) = w
    BY <1>3, <2>1, FS_Interval
  <2>4. X = Y
    BY <1>3, <2>2, <2>3, FS_Subset
  <2> QED
    BY <2>1, <2>4
<1> QED
  BY <1>2, <1>3, <1>4

Closed(X) == \A i, j \in Nat \ {0} : i < j /\ j \in X => i \in X

LEMMA CountedClosed ==
  ASSUME NEW n \in Nat, NEW X, X \subseteq 1..n
  PROVE  /\ Closed(X) => X = 1..Cardinality(X)
         /\ ~Closed(X) => \E j \in X : j > Cardinality(X)
<1>0. Cardinality(X) \in Nat
  <2>1. Cardinality(X) \in 0..n
    BY Counted
  <2> QED
    BY <2>1
<1>1. PICK w \in Nat : w = Cardinality(X)
  BY <1>0
<1>2. X = 1..w \/ \E j \in X : j > w
  BY <1>1, Counted
<1>3. X = 1..w => Closed(X)
  BY DEF Closed
<1>4. ASSUME Closed(X), NEW j \in X, j > w PROVE FALSE
  <2>1. \A i \in 1..j : i \in X
    BY <1>4 DEF Closed
  <2>2. PICK Y : Y = 1..j
    OBVIOUS
  <2>3. j \in Nat /\ Y \subseteq X
    BY <1>4, <2>1, <2>2
  <2>4. IsFiniteSet(X) /\ Cardinality(Y) = j
    <3>1. IsFiniteSet(1..n)
      BY FS_Interval
    <3>2. IsFiniteSet(X)
      BY <3>1, FS_Subset
    <3>3. Cardinality(1..j) = j
      BY <1>4, <2>3, FS_Interval
    <3> QED
      BY <2>2, <3>2, <3>3
  <2>5. Cardinality(Y) <= Cardinality(X)
    BY <2>3, <2>4, FS_Subset
  <2> QED
    BY <1>1, <1>4, <2>3, <2>4, <2>5
<1> QED
  BY <1>1, <1>2, <1>3, <1>4

(* One of the sets: that of the descriptors in X.                          *)
SetOf(X, n, len) ==
  SubSeq([i \in 1..n |-> Words(i, IF i \in X THEN len[i] ELSE 0)], 1, Cardinality(X))

SetLens(X, len, w) == [i \in 1..w |-> IF i \in X THEN len[i] ELSE 0]

Laid(s, w, l, n) ==
  Lists(s, w, l) /\ w \in 0..n /\ \A i \in 1..w : s[i] = Words(i, l[i])

LEMMA SetOfFacts ==
  ASSUME NEW n \in Nat, NEW X, X \subseteq 1..n, NEW len \in [1..n -> Nat],
         NEW w, w = Cardinality(X), NEW l, l = SetLens(X, len, w)
  PROVE  Laid(SetOf(X, n, len), w, l, n)
<1>1. w \in 0..n
  BY Counted
<1> DEFINE m(i) == IF i \in X THEN len[i] ELSE 0
           b == [i \in 1..n |-> Words(i, m(i))]
<1>2. \A i \in 1..n : m(i) \in Nat
  OBVIOUS
<1> HIDE DEF m
<1>3. \A i \in 1..n : Words(i, m(i)) \in Seq(Nat \X Nat) /\ Len(Words(i, m(i))) = m(i)
  <2> SUFFICES ASSUME NEW i \in 1..n
               PROVE  Words(i, m(i)) \in Seq(Nat \X Nat) /\ Len(Words(i, m(i))) = m(i)
    OBVIOUS
  <2>1. PICK k \in Nat : k = m(i)
    BY <1>2
  <2>2. i \in Nat /\ \A j \in 1..k : <<i, j>> \in Nat \X Nat
    OBVIOUS
  <2>3. Words(i, k) = [j \in 1..k |-> <<i, j>>]
    BY DEF Words
  <2>4. Words(i, k) \in Seq(Nat \X Nat) /\ Len(Words(i, k)) = k
    BY <2>2, <2>3
  <2> QED
    BY <2>1, <2>4
<1>4. b \in Seq(Seq(Nat \X Nat)) /\ Len(b) = n
  BY <1>3
<1>5. \A i \in 1..n : b[i] = Words(i, m(i))
  OBVIOUS
<1> HIDE DEF b
<1>6. PICK s : s = SubSeq(b, 1, w)
  OBVIOUS
<1>7. s \in Seq(Seq(Nat \X Nat)) /\ Len(s) = w /\ \A i \in 1..w : s[i] = b[i]
  BY <1>1, <1>4, <1>6
<1>8. s = SetOf(X, n, len)
  BY <1>6 DEF SetOf, b, m
<1>9. \A i \in 1..w : i \in 1..n /\ l[i] = m(i)
  BY <1>1 DEF m, SetLens
<1>10. l \in [1..w -> Nat]
  BY <1>2, <1>9 DEF SetLens
<1>11. \A i \in 1..w : s[i] = Words(i, l[i]) /\ Len(s[i]) = l[i]
  BY <1>3, <1>5, <1>7, <1>9
<1> QED
  BY <1>1, <1>7, <1>8, <1>10, <1>11 DEF Lists, Laid

(* The sums of the first ones.                                             *)
Starts(l, len, w) == \A i \in 1..w : l[i] = len[i]

LEMMA SumsPrefix ==
  ASSUME NEW c, NEW n, NEW len, Sums(c, n, len), NEW w \in 0..n,
         NEW l \in [1..w -> Nat], Starts(l, len, w),
         NEW d, Sums(d, w, l)
  PROVE  \A i \in 0..w : d[i] = c[i]
<1> DEFINE S == {m \in Nat : m <= w => d[m] = c[m]}
<1>1. n \in Nat /\ w \in Nat
  BY DEF Sums
<1>2. 0 \in S
  BY DEF Sums
<1>3. ASSUME NEW m \in Nat, m \in S PROVE m + 1 \in S
  <2> SUFFICES ASSUME m + 1 <= w PROVE d[m + 1] = c[m + 1]
    OBVIOUS
  <2>1. PICK k : k = m + 1 /\ k - 1 = m
    OBVIOUS
  <2>2. k \in 1..w /\ k \in 1..n /\ m <= w
    BY <1>1, <2>1
  <2>3. d[k] = d[k - 1] + l[k] /\ c[k] = c[k - 1] + len[k]
    BY <2>2 DEF Sums
  <2>4. d[m] = c[m] /\ l[k] = len[k]
    BY <1>3, <2>2 DEF Starts
  <2> QED
    BY <2>1, <2>3, <2>4
<1> HIDE DEF S
<1>4. \A m \in Nat : m \in S
  BY <1>2, <1>3, AllNumbers
<1> QED
  BY <1>1, <1>4 DEF S

(* The words of the first descriptors, and after them none.                *)
LEMMA ClosedClocks ==
  ASSUME NEW n, NEW len, NEW c, Sums(c, n, len),
         NEW X, X \subseteq 1..n, Closed(X),
         NEW f, f = Seqs!FlattenSeq(SetOf(X, n, len)), NEW w, w = Cardinality(X)
  PROVE  /\ w \in 0..n /\ X = 1..w /\ Len(f) = c[w]
         /\ \A i \in 1..n : \A k \in 1..len[i] :
              WordAt(f, c[i - 1] + k) = IF i \in X THEN <<i, k>> ELSE NoWord
<1>1. n \in Nat /\ len \in [1..n -> Nat]
  BY DEF Sums
<1>2. X = 1..w
  BY <1>1, CountedClosed
<1>3. PICK l : l = SetLens(X, len, w)
  OBVIOUS
<1>4. PICK s : s = SetOf(X, n, len)
  OBVIOUS
<1>5. Lists(s, w, l) /\ w \in 0..n /\ \A i \in 1..w : s[i] = Words(i, l[i])
  <2>1. Laid(SetOf(X, n, len), w, l, n)
    BY <1>1, <1>3, SetOfFacts
  <2> QED
    BY <1>4, <2>1 DEF Laid
<1>6. w \in Nat /\ l \in [1..w -> Nat] /\ \A i \in 1..w : i \in 1..n /\ l[i] = len[i]
  BY <1>1, <1>2, <1>3, <1>5 DEF Lists, SetLens
<1>7. PICK d : Sums(d, w, l)
  BY <1>6, SumsExist
<1>8. \A i \in 0..w : d[i] = c[i]
  <2>1. Starts(l, len, w)
    BY <1>6 DEF Starts
  <2> QED
    BY <1>5, <1>6, <1>7, <2>1, SumsPrefix
<1>9. Flat(f, s, w, d, l)
  BY <1>4, <1>5, <1>7, FlattenFacts
<1>10. Len(f) = c[w]
  BY <1>6, <1>8, <1>9 DEF Flat
<1>11. ASSUME NEW i \in 1..n, NEW k \in 1..len[i]
       PROVE  WordAt(f, c[i - 1] + k) = IF i \in X THEN <<i, k>> ELSE NoWord
  <2>1. /\ i - 1 \in 0..n /\ i \in 0..n /\ w \in 0..n
        /\ c[i - 1] \in Nat /\ c[i] \in Nat /\ c[w] \in Nat
        /\ len[i] \in Nat /\ c[i] = c[i - 1] + len[i]
    BY <1>1, <1>5 DEF Sums
  <2>2. CASE i \in 1..w
    <3>1. c[i] <= c[w]
      BY <2>1, <2>2, SumsGrow
    <3>2. c[i - 1] + k <= c[w]
      BY <1>11, <2>1, <3>1
    <3>3. i - 1 \in 0..w /\ d[i - 1] = c[i - 1] /\ l[i] = len[i]
      BY <1>6, <1>8, <2>2
    <3>4. f[d[i - 1] + k] = s[i][k]
      BY <1>11, <2>2, <3>3, <1>9 DEF Flat
    <3>5. s[i][k] = <<i, k>>
      <4>1. PICK m \in Nat : m = len[i]
        BY <2>1
      <4>2. s[i] = Words(i, m) /\ k \in 1..m
        BY <1>5, <1>11, <2>2, <3>3, <4>1
      <4> QED
        BY <4>2 DEF Words
    <3> QED
      BY <1>2, <1>10, <2>2, <3>2, <3>3, <3>4, <3>5 DEF WordAt
  <2>3. CASE i \notin 1..w
    <3>1. w <= i - 1
      BY <1>5, <1>6, <2>3
    <3>2. c[w] <= c[i - 1]
      BY <2>1, <3>1, SumsGrow
    <3>3. ~(c[i - 1] + k <= c[w])
      BY <1>11, <2>1, <3>2
    <3> QED
      BY <1>2, <1>10, <2>3, <3>3 DEF WordAt
  <2> QED
    BY <2>2, <2>3
<1> QED
  BY <1>2, <1>5, <1>10, <1>11

(* What a set does not hand over never comes.                              *)
LEMMA OpenClocks ==
  ASSUME NEW n, NEW len, NEW c, Sums(c, n, len),
         NEW X, X \subseteq 1..n, ~Closed(X),
         NEW f, f = Seqs!FlattenSeq(SetOf(X, n, len))
  PROVE  \E j \in X : \A t \in Nat \ {0} : WordAt(f, t) # <<j, 1>>
<1>1. n \in Nat /\ len \in [1..n -> Nat]
  BY DEF Sums
<1>2. PICK w : w = Cardinality(X)
  OBVIOUS
<1>3. PICK l : l = SetLens(X, len, w)
  OBVIOUS
<1>4. PICK s : s = SetOf(X, n, len)
  OBVIOUS
<1>5. Lists(s, w, l) /\ w \in 0..n /\ \A i \in 1..w : s[i] = Words(i, l[i])
  <2>1. Laid(SetOf(X, n, len), w, l, n)
    BY <1>1, <1>2, <1>3, SetOfFacts
  <2> QED
    BY <1>4, <2>1 DEF Laid
<1>6. w \in Nat /\ l \in [1..w -> Nat]
  BY <1>1, <1>5 DEF Lists
<1>7. PICK d : Sums(d, w, l)
  BY <1>6, SumsExist
<1>8. Flat(f, s, w, d, l)
  BY <1>4, <1>5, <1>7, FlattenFacts
<1>9. Len(f) = d[w] /\ d[w] \in Nat
  BY <1>6, <1>7, <1>8 DEF Flat, Sums
<1>10. PICK j \in X : j > w /\ j \in Nat
  <2>1. \E j \in X : j > Cardinality(X)
    BY <1>1, CountedClosed
  <2> QED
    BY <1>1, <1>2, <2>1
<1>11. ASSUME NEW t \in Nat \ {0} PROVE WordAt(f, t) # <<j, 1>>
  <2>1. CASE t <= Len(f)
    <3>1. t \in 1..d[w]
      BY <1>9, <1>11, <2>1
    <3>2. PICK i \in 1..w : \E k \in 1..l[i] : t = d[i - 1] + k
      BY <1>7, <3>1, SumsCover
    <3>3. PICK k \in 1..l[i] : t = d[i - 1] + k
      BY <3>2
    <3>4. f[t] = s[i][k]
      BY <1>8, <3>3 DEF Flat
    <3>5. s[i][k] = <<i, k>>
      <4>1. PICK m \in Nat : m = l[i]
        BY <1>6
      <4>2. s[i] = Words(i, m) /\ k \in 1..m
        BY <1>5, <4>1
      <4> QED
        BY <4>2 DEF Words
    <3>6. i # j
      BY <1>6, <1>10
    <3> QED
      BY <2>1, <3>4, <3>5, <3>6 DEF WordAt
  <2>2. CASE ~(t <= Len(f))
    BY <1>1, <1>10, <2>2 DEF WordAt, NoWord
  <2> QED
    BY <2>1, <2>2
<1> QED
  BY <1>10, <1>11

LEMMA SetLength ==
  ASSUME NEW n \in Nat, NEW X, X \subseteq 1..n, NEW len \in [1..n -> Nat]
  PROVE  Len(Seqs!FlattenSeq(SetOf(X, n, len))) \in Nat
<1>1. PICK w : w = Cardinality(X)
  OBVIOUS
<1>2. PICK l : l = SetLens(X, len, w)
  OBVIOUS
<1>3. PICK s : s = SetOf(X, n, len)
  OBVIOUS
<1>4. Lists(s, w, l)
  <2>1. Laid(SetOf(X, n, len), w, l, n)
    BY <1>1, <1>2, SetOfFacts
  <2> QED
    BY <1>3, <2>1 DEF Laid
<1>5. w \in Nat /\ l \in [1..w -> Nat]
  BY <1>4 DEF Lists
<1>6. PICK d : Sums(d, w, l)
  BY <1>5, SumsExist
<1>7. Flat(Seqs!FlattenSeq(s), s, w, d, l)
  BY <1>4, <1>6, FlattenFacts
<1> QED
  BY <1>3, <1>5, <1>6, <1>7 DEF Flat, Sums

-----------------------------------------------------------------------------
(* A transfer.                                                             *)

LensOf(ops) == [i \in DOMAIN ops |-> ops[i].len]

(* ops are n descriptors, c counts their words.                            *)
Transfer(ops, n, len, c) ==
  /\ ops \in Seq(Desc(Nat)) /\ \A i \in DOMAIN ops : ops[i].writes \/ ops[i].reads
  /\ n = Len(ops) /\ len = LensOf(ops) /\ Sums(c, n, len)

LEMMA TransferFacts ==
  ASSUME NEW ops, NEW n, NEW len, NEW c, Transfer(ops, n, len, c)
  PROVE  /\ n \in Nat /\ DOMAIN ops = 1..n /\ len \in [1..n -> Nat] /\ c \in [0..n -> Nat]
         /\ \A i \in 1..n : /\ ops[i] \in Desc(Nat)
                            /\ len[i] = ops[i].len /\ len[i] \in Nat
                            /\ c[i - 1] \in Nat /\ c[i] = c[i - 1] + len[i] /\ c[i] <= c[n]
         /\ Writers(ops) \subseteq 1..n /\ Readers(ops) \subseteq 1..n
         /\ Writers(ops) \cup Readers(ops) = 1..n
<1>1. n \in Nat /\ DOMAIN ops = 1..n
  BY DEF Transfer
<1>2. \A i \in 1..n : ops[i] \in Desc(Nat) /\ len[i] = ops[i].len
  BY <1>1 DEF Transfer, LensOf
<1>3. \A i \in 1..n : len[i] \in Nat
  BY <1>2 DEF Desc
<1>4. len \in [1..n -> Nat] /\ c \in [0..n -> Nat]
  BY DEF Transfer, Sums
<1>5. ASSUME NEW i \in 1..n
      PROVE  c[i - 1] \in Nat /\ c[i] = c[i - 1] + len[i] /\ c[i] <= c[n]
  <2>1. Sums(c, n, len) /\ i - 1 \in 0..n /\ i \in 0..n /\ n \in 0..n /\ i <= n
    BY <1>1 DEF Transfer
  <2>2. c[i] <= c[n]
    BY <2>1, SumsGrow
  <2> QED
    BY <1>4, <2>1, <2>2 DEF Sums
<1>6. Writers(ops) \subseteq 1..n /\ Readers(ops) \subseteq 1..n
  BY <1>1 DEF Writers, Readers
<1>7. Writers(ops) \cup Readers(ops) = 1..n
  BY <1>1 DEF Writers, Readers, Transfer
<1> QED
  BY <1>1, <1>2, <1>3, <1>4, <1>5, <1>6, <1>7

(* The sets of buffers, as SetOf.                                          *)
LEMMA TheSets ==
  ASSUME NEW ops, NEW n, NEW len, NEW c, Transfer(ops, n, len, c)
  PROVE  /\ tx_buf_set(ops) = SetOf(Writers(ops), n, len)
         /\ rx_buf_set(ops) = SetOf(Readers(ops), n, len)
<1>1. DOMAIN ops = 1..n /\ \A i \in 1..n : len[i] = ops[i].len
  BY TransferFacts
<1>2. ASSUME NEW i \in 1..n
      PROVE  (i \in Writers(ops) <=> ops[i].writes) /\ (i \in Readers(ops) <=> ops[i].reads)
  BY <1>1 DEF Writers, Readers
<1>3. tx_buf(ops) = [i \in 1..n |-> Words(i, IF i \in Writers(ops) THEN len[i] ELSE 0)]
  BY <1>1, <1>2 DEF tx_buf
<1>4. rx_buf(ops) = [i \in 1..n |-> Words(i, IF i \in Readers(ops) THEN len[i] ELSE 0)]
  BY <1>1, <1>2 DEF rx_buf
<1> QED
  BY <1>3, <1>4 DEF tx_buf_set, rx_buf_set, SetOf

(* What the host asked for at the k-th word of a descriptor.               *)
Clock(ops, i, k) == [out |-> IF ops[i].writes THEN <<i, k>> ELSE NoWord,
                     in  |-> IF ops[i].reads THEN <<i, k>> ELSE NoWord]

Clocks(q, ops, n, len, c) ==
  /\ \E T : q \in Seq(T)
  /\ Len(q) = c[n]
  /\ \A i \in 1..n : \A k \in 1..len[i] : q[c[i - 1] + k] = Clock(ops, i, k)

LEMMA AskedFacts ==
  ASSUME NEW ops, NEW n, NEW len, NEW c, Transfer(ops, n, len, c)
  PROVE  Clocks(Asked(ops), ops, n, len, c)
<1>1. /\ n \in Nat /\ DOMAIN ops = 1..n /\ len \in [1..n -> Nat] /\ Sums(c, n, len)
      /\ \A i \in 1..n : len[i] = ops[i].len /\ len[i] \in Nat
  BY TransferFacts DEF Transfer
<1> DEFINE s == [i \in 1..n |-> [k \in 1..len[i] |-> Clock(ops, i, k)]]
<1>2. Asked(ops) = Seqs!FlattenSeq(s)
  BY <1>1 DEF Asked, Clock
<1>3. PICK T : T = [out : Nat \X Nat, in : Nat \X Nat]
  OBVIOUS
<1>4. ASSUME NEW i \in 1..n PROVE s[i] \in Seq(T) /\ Len(s[i]) = len[i]
  <2>1. PICK m \in Nat : m = len[i]
    BY <1>1
  <2>2. PICK q : q = [k \in 1..m |-> Clock(ops, i, k)]
    OBVIOUS
  <2>3. \A k \in 1..m : Clock(ops, i, k) \in T
    <3>1. \A k \in 1..m : <<i, k>> \in Nat \X Nat
      BY <1>1
    <3>2. NoWord \in Nat \X Nat
      BY DEF NoWord
    <3> QED
      BY <1>3, <3>1, <3>2 DEF Clock
  <2>4. q \in Seq(T) /\ Len(q) = m
    BY <2>1, <2>2, <2>3
  <2> QED
    BY <2>1, <2>2, <2>4
<1>5. ASSUME NEW i \in 1..n, NEW k \in 1..len[i] PROVE s[i][k] = Clock(ops, i, k)
  <2>1. s[i] = [j \in 1..len[i] |-> Clock(ops, i, j)]
    OBVIOUS
  <2> QED
    BY <2>1
<1>6. s \in Seq(Seq(T)) /\ Len(s) = n
  BY <1>1, <1>4
<1> HIDE DEF s
<1>7. Lists(s, n, len)
  BY <1>1, <1>4, <1>6 DEF Lists
<1>8. Flat(Seqs!FlattenSeq(s), s, n, c, len)
  BY <1>1, <1>7, FlattenFacts
<1> QED
  BY <1>2, <1>5, <1>8 DEF Flat, Clocks

LEMMA InStepClosed ==
  ASSUME NEW ops, NEW n, NEW len, NEW c, Transfer(ops, n, len, c)
  PROVE  InStep(ops) <=> Closed(Writers(ops)) /\ Closed(Readers(ops))
<1>1. n \in Nat /\ DOMAIN ops = 1..n
  BY TransferFacts
<1>2. ASSUME NEW i \in 1..n
      PROVE  (i \in Writers(ops) <=> ops[i].writes) /\ (i \in Readers(ops) <=> ops[i].reads)
  BY <1>1 DEF Writers, Readers
<1>3. ASSUME InStep(ops) PROVE Closed(Writers(ops)) /\ Closed(Readers(ops))
  <2> SUFFICES ASSUME NEW i \in Nat \ {0}, NEW j \in Nat \ {0}, i < j
               PROVE  /\ (j \in Writers(ops) => i \in Writers(ops))
                      /\ (j \in Readers(ops) => i \in Readers(ops))
    BY DEF Closed
  <2>1. CASE j \in 1..n
    BY <1>1, <1>2, <1>3, <2>1 DEF InStep
  <2>2. CASE j \notin 1..n
    BY <1>1, <2>2 DEF Writers, Readers
  <2> QED
    BY <2>1, <2>2
<1>4. ASSUME Closed(Writers(ops)), Closed(Readers(ops)) PROVE InStep(ops)
  <2> SUFFICES ASSUME NEW i \in 1..n, NEW j \in 1..n, i < j
               PROVE  /\ (ops[j].writes => ops[i].writes)
                      /\ (ops[j].reads => ops[i].reads)
    BY <1>1 DEF InStep
  <2>1. i \in Nat \ {0} /\ j \in Nat \ {0}
    BY <1>1
  <2> QED
    BY <1>2, <1>4, <2>1 DEF Closed
<1> QED
  BY <1>3, <1>4

(* spi_transceive, clock by clock.                                         *)
Shifted(q, m, out, in) ==
  /\ \E T : q \in Seq(T)
  /\ Len(q) = m
  /\ \A t \in 1..m : q[t] = [out |-> WordAt(out, t), in |-> WordAt(in, t)]

LEMMA ClockByClock ==
  ASSUME NEW ops, NEW n, NEW len, NEW c, Transfer(ops, n, len, c),
         NEW out, NEW in, NEW p \in Nat, NEW q \in Nat, NEW m,
         out = Seqs!FlattenSeq(tx_buf_set(ops)), in = Seqs!FlattenSeq(rx_buf_set(ops)),
         p = Len(out), q = Len(in), m = IF p > q THEN p ELSE q
  PROVE  Shifted(Done(ops), m, out, in)
<1>1. m \in Nat
  OBVIOUS
<1> DEFINE Here(t) == [out |-> WordAt(out, t), in |-> WordAt(in, t)]
<1>2. Done(ops) = [t \in 1..m |-> Here(t)]
  BY DEF Done, spi_transceive
<1>3. PICK T : T = {Here(t) : t \in Nat}
  OBVIOUS
<1>4. \A t \in 1..m : Here(t) \in T
  BY <1>3
<1> HIDE DEF Here
<1>5. Done(ops) \in Seq(T) /\ Len(Done(ops)) = m /\ \A t \in 1..m : Done(ops)[t] = Here(t)
  BY <1>2, <1>4
<1> QED
  BY <1>1, <1>5 DEF Here, Shifted

LEMMA InStepIsEnough ==
  ASSUME NEW ops, NEW n, NEW len, NEW c, Transfer(ops, n, len, c), InStep(ops)
  PROVE  Done(ops) = Asked(ops)
<1>1. /\ n \in Nat /\ Sums(c, n, len)
      /\ Writers(ops) \subseteq 1..n /\ Readers(ops) \subseteq 1..n
      /\ Writers(ops) \cup Readers(ops) = 1..n
      /\ \A i \in 0..n : c[i] \in Nat
  <2>1. c \in [0..n -> Nat] /\ Sums(c, n, len)
    BY TransferFacts DEF Transfer
  <2> QED
    BY <2>1, TransferFacts
<1>2. Closed(Writers(ops)) /\ Closed(Readers(ops))
  BY InStepClosed
<1>3. PICK out : out = Seqs!FlattenSeq(tx_buf_set(ops))
  OBVIOUS
<1>4. PICK in : in = Seqs!FlattenSeq(rx_buf_set(ops))
  OBVIOUS
<1>5. /\ out = Seqs!FlattenSeq(SetOf(Writers(ops), n, len))
      /\ in = Seqs!FlattenSeq(SetOf(Readers(ops), n, len))
  BY <1>3, <1>4, TheSets
<1>6. PICK w : w = Cardinality(Writers(ops))
  OBVIOUS
<1>7. PICK r : r = Cardinality(Readers(ops))
  OBVIOUS
<1>8. /\ w \in 0..n /\ Writers(ops) = 1..w /\ Len(out) = c[w]
      /\ \A i \in 1..n : \A k \in 1..len[i] :
           WordAt(out, c[i - 1] + k) = IF i \in Writers(ops) THEN <<i, k>> ELSE NoWord
  BY <1>1, <1>2, <1>5, <1>6, ClosedClocks
<1>9. /\ r \in 0..n /\ Readers(ops) = 1..r /\ Len(in) = c[r]
      /\ \A i \in 1..n : \A k \in 1..len[i] :
           WordAt(in, c[i - 1] + k) = IF i \in Readers(ops) THEN <<i, k>> ELSE NoWord
  BY <1>1, <1>2, <1>5, <1>7, ClosedClocks
<1>10. (w = n \/ r = n) /\ n \in 0..n
  BY <1>1, <1>8, <1>9
<1>11. c[w] <= c[n] /\ c[r] <= c[n]
  BY <1>1, <1>8, <1>9, <1>10, SumsGrow
<1>12. PICK p \in Nat : p = Len(out) /\ p = c[w]
  BY <1>1, <1>8
<1>13. PICK q \in Nat : q = Len(in) /\ q = c[r]
  BY <1>1, <1>9
<1>14. PICK m \in Nat : m = c[n] /\ m = IF p > q THEN p ELSE q
  BY <1>1, <1>10, <1>11, <1>12, <1>13
<1>15. /\ \E T : Done(ops) \in Seq(T)
       /\ Len(Done(ops)) = m
       /\ \A t \in 1..m : Done(ops)[t] = [out |-> WordAt(out, t), in |-> WordAt(in, t)]
  <2>1. Shifted(Done(ops), m, out, in)
    BY <1>3, <1>4, <1>12, <1>13, <1>14, ClockByClock
  <2> QED
    BY <2>1 DEF Shifted
<1>16. /\ \E T : Asked(ops) \in Seq(T)
       /\ Len(Asked(ops)) = m
       /\ \A i \in 1..n : \A k \in 1..len[i] : Asked(ops)[c[i - 1] + k] = Clock(ops, i, k)
  <2>1. Clocks(Asked(ops), ops, n, len, c)
    BY AskedFacts
  <2> QED
    BY <1>14, <2>1 DEF Clocks
<1>17. ASSUME NEW t \in 1..m PROVE Done(ops)[t] = Asked(ops)[t]
  <2>1. PICK i \in 1..n : \E k \in 1..len[i] : t = c[i - 1] + k
    <3>1. t \in 1..c[n]
      BY <1>14
    <3> QED
      BY <1>1, <3>1, SumsCover
  <2>2. PICK k \in 1..len[i] : t = c[i - 1] + k
    BY <2>1
  <2>3. Asked(ops)[t] = Clock(ops, i, k)
    BY <1>16, <2>2
  <2>4. WordAt(out, t) = IF i \in Writers(ops) THEN <<i, k>> ELSE NoWord
    BY <1>8, <2>2
  <2>5. WordAt(in, t) = IF i \in Readers(ops) THEN <<i, k>> ELSE NoWord
    BY <1>9, <2>2
  <2>6. (i \in Writers(ops) <=> ops[i].writes) /\ (i \in Readers(ops) <=> ops[i].reads)
    BY TransferFacts DEF Writers, Readers
  <2> QED
    BY <1>15, <2>3, <2>4, <2>5, <2>6 DEF Clock
<1>18. PICK T : Done(ops) \in Seq(T)
  BY <1>15
<1>19. PICK U : Asked(ops) \in Seq(U)
  BY <1>16
<1>20. Done(ops) \in Seq(T \cup U) /\ Asked(ops) \in Seq(T \cup U)
  BY <1>18, <1>19
<1> QED
  BY <1>15, <1>16, <1>17, <1>20, SameSequence

(* A word that was asked for and never came.                               *)
LEMMA InStepIsNeeded ==
  ASSUME NEW ops, NEW n, NEW len, NEW c, Transfer(ops, n, len, c), NoneEmpty(ops), ~InStep(ops)
  PROVE  Done(ops) # Asked(ops)
<1> SUFFICES ASSUME Done(ops) = Asked(ops) PROVE FALSE
  OBVIOUS
<1>1. /\ n \in Nat /\ len \in [1..n -> Nat] /\ Sums(c, n, len)
      /\ Writers(ops) \subseteq 1..n /\ Readers(ops) \subseteq 1..n
  BY TransferFacts DEF Transfer
<1>2. PICK out : out = Seqs!FlattenSeq(tx_buf_set(ops))
  OBVIOUS
<1>3. PICK in : in = Seqs!FlattenSeq(rx_buf_set(ops))
  OBVIOUS
<1>4. /\ out = Seqs!FlattenSeq(SetOf(Writers(ops), n, len))
      /\ in = Seqs!FlattenSeq(SetOf(Readers(ops), n, len))
  BY <1>2, <1>3, TheSets
<1>5. PICK p \in Nat : p = Len(out)
  BY <1>1, <1>4, SetLength
<1>6. PICK q \in Nat : q = Len(in)
  BY <1>1, <1>4, SetLength
<1>7. \A t \in 1..Len(Done(ops)) :
        Done(ops)[t] = [out |-> WordAt(out, t), in |-> WordAt(in, t)]
  <2>1. PICK m : m = IF p > q THEN p ELSE q
    OBVIOUS
  <2>2. Shifted(Done(ops), m, out, in)
    BY <1>2, <1>3, <1>5, <1>6, <2>1, ClockByClock
  <2> QED
    BY <2>2 DEF Shifted
<1>8. ASSUME NEW j \in 1..n
      PROVE  /\ c[j - 1] + 1 \in Nat \ {0}
             /\ WordAt(out, c[j - 1] + 1) = IF ops[j].writes THEN <<j, 1>> ELSE NoWord
             /\ WordAt(in, c[j - 1] + 1) = IF ops[j].reads THEN <<j, 1>> ELSE NoWord
  <2>1. /\ len[j] \in Nat /\ len[j] > 0 /\ c[j - 1] \in Nat
        /\ c[j] = c[j - 1] + len[j] /\ c[j] <= c[n] /\ c[n] \in Nat
    <3>1. n \in 0..n /\ c \in [0..n -> Nat]
      BY <1>1 DEF Sums
    <3>2. \A i \in 1..n : /\ len[i] \in Nat /\ len[i] = ops[i].len
                         /\ c[i - 1] \in Nat /\ c[i] = c[i - 1] + len[i] /\ c[i] <= c[n]
      BY TransferFacts
    <3>3. ops[j].len > 0
      BY TransferFacts DEF NoneEmpty
    <3> QED
      BY <3>1, <3>2, <3>3
  <2>2. PICK t \in Nat \ {0} : t = c[j - 1] + 1
    BY <2>1
  <2>3. 1 \in 1..len[j] /\ t \in 1..c[n]
    BY <2>1, <2>2
  <2>4. Asked(ops)[t] = Clock(ops, j, 1) /\ Len(Asked(ops)) = c[n]
    <3>1. Clocks(Asked(ops), ops, n, len, c)
      BY AskedFacts
    <3>2. t = c[j - 1] + 1 /\ 1 \in 1..len[j]
      BY <2>2, <2>3
    <3> QED
      BY <3>1, <3>2 DEF Clocks
  <2>5. Clock(ops, j, 1) = [out |-> WordAt(out, t), in |-> WordAt(in, t)]
    BY <1>7, <2>3, <2>4
  <2> QED
    BY <2>2, <2>5 DEF Clock
<1>9. CASE ~Closed(Writers(ops))
  <2>1. PICK j \in Writers(ops) : \A t \in Nat \ {0} : WordAt(out, t) # <<j, 1>>
    BY <1>1, <1>4, <1>9, OpenClocks
  <2>2. j \in 1..n /\ ops[j].writes
    BY <1>1 DEF Writers
  <2> QED
    BY <1>8, <2>1, <2>2
<1>10. CASE ~Closed(Readers(ops))
  <2>1. PICK j \in Readers(ops) : \A t \in Nat \ {0} : WordAt(in, t) # <<j, 1>>
    BY <1>1, <1>4, <1>10, OpenClocks
  <2>2. j \in 1..n /\ ops[j].reads
    BY <1>1 DEF Readers
  <2> QED
    BY <1>8, <2>1, <2>2
<1> QED
  BY <1>9, <1>10, InStepClosed

-----------------------------------------------------------------------------
(* What the SDIO host announces.                                           *)

LEMMA Sizes == max_transfer = 2036 /\ max_data_size = 1024
<1>1. max_transfer = 2036
  BY DEF max_transfer, GB_MAX_PAYLOAD_SIZE
<1>2. ~(2036 < 512) /\ 2036 \notin 512..1023 /\ 2036 \in 1024..2047 /\ ~(2036 >= 2048)
  OBVIOUS
<1>3. scale_max_sd_block_length(2036) = 1024
  BY <1>2 DEF scale_max_sd_block_length
<1> QED
  BY <1>1, <1>3 DEF max_data_size

LEMMA AnnouncedFitsHolds ==
  ASSUME card \in [max_blk_size : Nat, max_blk_count : Nat]
  PROVE  AnnouncedFits
<1>1. PICK s \in Nat, k \in Nat : s = card.max_blk_size /\ k = card.max_blk_count
  OBVIOUS
<1>2. PICK a : a = Announced(card)
  OBVIOUS
<1>3. k * s \in Nat
  BY <1>1
<1>4. CASE k * s <= 1024
  <2>1. a = card
    BY <1>1, <1>2, <1>4, Sizes DEF Announced
  <2>2. ~(a.max_blk_count * a.max_blk_size > max_transfer)
    BY <1>1, <1>3, <1>4, <2>1, Sizes
  <2> QED
    BY <1>2, <2>2 DEF AnnouncedFits
<1>5. CASE ~(k * s <= 1024) /\ s > 1024
  <2>1. a = [card EXCEPT !.max_blk_size = 1024]
    BY <1>1, <1>2, <1>5, Sizes DEF Announced
  <2>2. a.max_blk_count = k /\ a.max_blk_size = 1024
    BY <1>1, <2>1
  <2>3. k * 1024 > 2036 => k > 1
    BY <1>1
  <2> QED
    BY <1>1, <1>2, <1>5, <2>2, <2>3, Sizes DEF AnnouncedFits
<1>6. CASE ~(k * s <= 1024) /\ ~(s > 1024)
  <2>1. a = [card EXCEPT !.max_blk_count = 1024 \div s]
    BY <1>1, <1>2, <1>6, Sizes DEF Announced
  <2>2. a.max_blk_count = 1024 \div s /\ a.max_blk_size = s
    BY <1>1, <2>1
  <2>3. s # 0
    BY <1>1, <1>6
  <2>4. (1024 \div s) \in Nat /\ (1024 \div s) * s <= 1024
    BY <1>1, <2>3
  <2>5. ~(a.max_blk_count * a.max_blk_size > max_transfer)
    <3>1. PICK x \in Nat : x = (1024 \div s) * s
      BY <1>1, <2>4
    <3> QED
      BY <2>2, <2>4, <3>1, Sizes
  <2> QED
    BY <1>2, <2>5 DEF AnnouncedFits
<1> QED
  BY <1>4, <1>5, <1>6

(* LayoutsFit: a transfer is done as the host asked if the descriptors     *)
(* that write come first, and so do those that read, and only then if none *)
(* is empty; and the most data the SDIO host asks for at once fits in a    *)
(* message, but for a card whose blocks are larger than that (spi.c:331-   *)
(* 432, sdio.c:165-180).                                                   *)
THEOREM LayoutsCorrect == TransfersSpec => []LayoutsFit
<1>1. TransfersInit => LayoutsFit
  <2> SUFFICES ASSUME TransfersInit PROVE LayoutsFit
    OBVIOUS
  <2>1. transfers \in SpiRequests /\ card \in Cards
    BY DEF TransfersInit
  <2>2. /\ transfers \in Seq(Desc(Nat))
        /\ \A i \in DOMAIN transfers : transfers[i].writes \/ transfers[i].reads
        /\ card \in [max_blk_size : Nat, max_blk_count : Nat]
    BY <2>1, TransfersAssumption
  <2>3. PICK n : n = Len(transfers)
    OBVIOUS
  <2>4. PICK len : len = LensOf(transfers)
    OBVIOUS
  <2>5. n \in Nat /\ len \in [1..n -> Nat]
    <3>1. n \in Nat /\ DOMAIN transfers = 1..n
      BY <2>2, <2>3
    <3>2. \A i \in 1..n : transfers[i] \in Desc(Nat)
      BY <2>2, <3>1
    <3>3. \A i \in 1..n : transfers[i].len \in Nat
      BY <3>2 DEF Desc
    <3> QED
      BY <2>4, <3>1, <3>3 DEF LensOf
  <2>6. PICK c : Sums(c, n, len)
    BY <2>5, SumsExist
  <2>7. Transfer(transfers, n, len, c)
    BY <2>2, <2>3, <2>4, <2>6 DEF Transfer
  <2>8. InStepIsDone
    BY <2>7, InStepIsEnough, InStepIsNeeded DEF InStepIsDone
  <2>9. AnnouncedFits
    BY <2>2, AnnouncedFitsHolds
  <2> QED
    BY <2>8, <2>9 DEF LayoutsFit
<1>2. LayoutsFit /\ [UNCHANGED transferVars]_transferVars => LayoutsFit'
  BY DEF transferVars, LayoutsFit, InStepIsDone, NoneEmpty, AnnouncedFits
<1> QED
  BY <1>1, <1>2, PTL DEF TransfersSpec
=============================================================================
