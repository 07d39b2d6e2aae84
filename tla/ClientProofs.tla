---------------------------- MODULE ClientProofs ---------------------------
(* Proofs about Client: the inductive invariant ClientInv and the safety     *)
(* properties that follow from it, for any calls, connections, pool size and *)
(* number of attempts.                                                       *)
EXTENDS Client, TLAPS, FiniteSetTheorems, SequenceTheorems

(* Who has a connection: one call or one place of the pool has each that is  *)
(* open here, and nothing else has any.                                      *)
Held(k) == \E c \in Calls : conn[c] = k
Kept == \A k \in Conns : near[k] # "gone" => Held(k) \/ InPool(k)

OneOwner ==
  /\ \A c \in Calls : conn[c] # Nil =>
       near[conn[c]] # "gone" /\ \A d \in Calls : conn[c] = conn[d] => c = d
  /\ \A i \in 1 .. Len(idle) :
       /\ near[idle[i]] = "open" /\ idle[i] \notin doomed
       /\ \A j \in 1 .. Len(idle) : idle[i] = idle[j] => i = j
       /\ \A c \in Calls : conn[c] # idle[i]

(* A connection that its AfterFunc closes, or has closed, is open here, and  *)
(* the context of the call that holds it has ended.                          *)
CloseInv ==
  /\ \A k \in Conns : k \in doomed => near[k] # "gone"
  /\ \A c \in Calls : conn[c] # Nil /\ (conn[c] \in doomed \/ near[conn[c]] = "closed") => ctx[c]
  /\ \A c \in Calls : result[c] # "closed"

(* What is on the wire belongs to the call that holds the connection, and    *)
(* nothing is left on one in the pool.                                       *)
WireInv ==
  /\ \A k \in Conns : near[k] # "open" => answer[k] = Nil
  /\ \A k \in Conns : far[k] = "gone" => asked[k] = Nil
  /\ \A k \in Conns : far[k] = "respond" => asked[k] # Nil /\ ran[asked[k]] > 0
  /\ \A i \in 1 .. Len(idle) : answer[idle[i]] = Nil /\ asked[idle[i]] = Nil
  /\ \A c \in Calls : conn[c] # Nil =>
       /\ asked[conn[c]] \in {c, Nil}
       /\ answer[conn[c]] # Nil =>
            answer[conn[c]].to = c /\ at[c] = "recv" /\ ran[c] > 0 /\ asked[conn[c]] = Nil

(* A request is written once to each connection its call tries, and a        *)
(* connection is tried after another only when that one dropped.             *)
RunInv ==
  /\ \A c \in Calls : at[c] \notin {"recv", "done"} =>
       ran[c] <= lost[c] /\ \A k \in Conns : asked[k] # c
  /\ \A c \in Calls : ran[c] <= lost[c] + 1
  /\ \A c \in Calls, k \in Conns : asked[k] = c /\ far[k] = "read" => ran[c] <= lost[c]
  /\ \A k, l \in Conns : asked[k] # Nil /\ asked[k] = asked[l] => k = l
  /\ \A c \in Calls, k \in Conns : at[c] = "recv" /\ asked[k] = c => k = conn[c]
  /\ OwnAnswer

TriesInv == \A c \in Calls : at[c] # "done" => tries[c] < callAttempts

ClientInv == TypeOK /\ TriesInv /\ Kept /\ OneOwner /\ CloseInv /\ WireInv /\ RunInv
---------------------------------------------------------------------------
LEMMA HeldStays ==
  ASSUME TypeOK, NEW c \in Calls, NEW x, conn' = [conn EXCEPT ![c] = x],
         NEW k \in Conns, k # conn[c], Held(k)
  PROVE  Held(k)'
<1>1. PICK d \in Calls : conn[d] = k
  BY DEF Held
<1>2. d # c /\ conn'[d] = k
  BY <1>1 DEF TypeOK
<1> QED BY <1>2 DEF Held

LEMMA OneMore ==
  ASSUME tries \in [Calls -> 0 .. callAttempts], NEW c \in Calls, tries[c] < callAttempts
  PROVE  [tries EXCEPT ![c] = @ + 1] \in [Calls -> 0 .. callAttempts]
  BY AttemptsAssumption

(* A call that has no connection ends, or uses up an attempt.                *)
LEMMA UnconnectedKeeps ==
  ASSUME ClientInv, NEW c \in Calls, at[c] = "dial", NEW r \in Result \ {"closed"}, Done(c, r),
         tries' = tries \/ tries' = [tries EXCEPT ![c] = @ + 1],
         UNCHANGED <<fresh, ctx, idle, up, ran, lost, got>>, UNCHANGED wire
  PROVE  ClientInv'
<1>1. /\ conn' = conn
      /\ at' = [at EXCEPT ![c] = "done"]
      /\ result' = [result EXCEPT ![c] = r]
  BY DEF ClientInv, TypeOK, Done
<1>2. /\ fresh' = fresh /\ ctx' = ctx /\ idle' = idle /\ up' = up /\ ran' = ran
      /\ lost' = lost /\ got' = got /\ near' = near /\ far' = far
      /\ doomed' = doomed /\ asked' = asked /\ answer' = answer
  BY DEF wire
<1>3. TypeOK'
  <2>1. tries' \in [Calls -> 0 .. callAttempts]
    BY OneMore DEF ClientInv, TypeOK, TriesInv
  <2> QED BY <1>1, <1>2, <2>1 DEF ClientInv, TypeOK
<1>4. TriesInv'
  BY <1>1 DEF ClientInv, TypeOK, TriesInv
<1>5. OneOwner' /\ Kept'
  BY <1>1, <1>2 DEF ClientInv, OneOwner, Kept, Held, InPool
<1>6. CloseInv'
  BY <1>1, <1>2 DEF ClientInv, TypeOK, CloseInv
<1>7. WireInv'
  BY <1>1, <1>2, NilAssumption DEF ClientInv, TypeOK, WireInv
<1>8. RunInv'
  BY <1>1, <1>2, NilAssumption DEF ClientInv, TypeOK, RunInv, OwnAnswer
<1> QED BY <1>3, <1>4, <1>5, <1>6, <1>7, <1>8 DEF ClientInv

LEMMA DialFailsKeeps ==
  ASSUME ClientInv, NEW c \in Calls, DialFails(c)
  PROVE  ClientInv'
<1>1. CASE tries[c] + 1 = callAttempts
  <2>1. Done(c, "dial")
    BY <1>1 DEF DialFails
  <2> QED BY <2>1, UnconnectedKeeps DEF DialFails, Result
<1>2. CASE tries[c] + 1 # callAttempts
  <2>1. UNCHANGED <<at, result, conn>>
    BY <1>2 DEF DialFails
  <2>2. /\ at' = at /\ result' = result /\ conn' = conn
        /\ fresh' = fresh /\ ctx' = ctx /\ idle' = idle /\ up' = up /\ ran' = ran
        /\ lost' = lost /\ got' = got /\ near' = near /\ far' = far
        /\ doomed' = doomed /\ asked' = asked /\ answer' = answer
    BY <2>1 DEF DialFails, wire
  <2>3. tries' = [tries EXCEPT ![c] = @ + 1]
    BY DEF DialFails
  <2>4. TriesInv'
    BY <1>2, <2>2, <2>3, AttemptsAssumption DEF ClientInv, TypeOK, TriesInv
  <2>5. TypeOK'
    <3>1. tries' \in [Calls -> 0 .. callAttempts]
      BY <2>3, OneMore DEF ClientInv, TypeOK, TriesInv, DialFails
    <3> QED BY <2>2, <3>1 DEF ClientInv, TypeOK
  <2>6. OneOwner' /\ Kept' /\ CloseInv'
    BY <2>2 DEF ClientInv, OneOwner, Kept, CloseInv, Held, InPool
  <2>7. WireInv' /\ RunInv'
    BY <2>2 DEF ClientInv, WireInv, RunInv, OwnAnswer
  <2> QED BY <2>4, <2>5, <2>6, <2>7 DEF ClientInv
<1> QED BY <1>1, <1>2

LEMMA BackoffEndsKeeps ==
  ASSUME ClientInv, NEW c \in Calls, BackoffEnds(c)
  PROVE  ClientInv'
  BY UnconnectedKeeps DEF BackoffEnds, Result

(* A connection is dialled, used and given up.                               *)
LEMMA DialKeeps ==
  ASSUME ClientInv, NEW c \in Calls, NEW k \in Conns, Dial(c, k)
  PROVE  ClientInv'
<1>1. TypeOK'
  BY NilAssumption, SMTT(10) DEF ClientInv, Dial, Hold, TypeOK
<1>2. TriesInv'
  BY DEF ClientInv, Dial, Hold, TypeOK, TriesInv
<1>3. OneOwner'
  BY NilAssumption, SMTT(10) DEF ClientInv, Dial, Hold, Free, TypeOK, OneOwner, CloseInv
<1>4. Kept'
  <2> SUFFICES ASSUME NEW l \in Conns, near'[l] # "gone"
               PROVE  Held(l)' \/ InPool(l)'
    BY DEF Kept
  <2>1. CASE l = k
    BY <2>1 DEF ClientInv, Dial, Hold, TypeOK, Held
  <2>2. CASE l # k
    <3>1. Held(l) \/ InPool(l)
      BY <2>2 DEF ClientInv, Dial, TypeOK, Kept
    <3>2. l # conn[c]
      BY NilAssumption DEF ClientInv, Dial, TypeOK
    <3> QED BY <3>1, <3>2, HeldStays DEF ClientInv, Dial, Hold, InPool
  <2> QED BY <2>1, <2>2
<1>5. CloseInv'
  BY NilAssumption, SMTT(10) DEF ClientInv, Dial, Hold, Free, TypeOK, CloseInv, OneOwner
<1>6. WireInv'
  BY NilAssumption, SMTT(10) DEF ClientInv, Dial, Hold, Free, TypeOK, Answer, OneOwner, WireInv, RunInv
<1>7. RunInv'
  BY NilAssumption, SMTT(10) DEF ClientInv, Dial, Hold, Free, TypeOK, OneOwner, WireInv, RunInv, OwnAnswer
<1> QED BY <1>1, <1>2, <1>3, <1>4, <1>5, <1>6, <1>7 DEF ClientInv

LEMMA SendKeeps ==
  ASSUME ClientInv, NEW c \in Calls, Send(c)
  PROVE  ClientInv'
<1>1. TypeOK'
  BY NilAssumption, SMTT(10) DEF ClientInv, Send, TypeOK
<1>2. TriesInv'
  BY DEF ClientInv, Send, TypeOK, TriesInv
<1>3. OneOwner' /\ CloseInv'
  BY DEF ClientInv, Send, OneOwner, CloseInv
<1>4. Kept'
  BY DEF ClientInv, Send, Kept, Held, InPool
<1>5. WireInv'
  BY NilAssumption, SMTT(10) DEF ClientInv, Send, TypeOK, Answer, OneOwner, WireInv, RunInv
<1>6. RunInv'
  <2>1. conn[c] \in Conns /\ \A k \in Conns : asked[k] # c
    <3>1. at[c] = "send" /\ conn[c] \in Conns
      BY DEF ClientInv, Send, TypeOK
    <3>2. \A k \in Conns : asked[k] # c
      BY <3>1 DEF ClientInv, RunInv
    <3> QED BY <3>1, <3>2
  <2>2. /\ at' = [at EXCEPT ![c] = "recv"] /\ asked' = [asked EXCEPT ![conn[c]] = c]
        /\ conn' = conn /\ ran' = ran /\ lost' = lost /\ far' = far /\ got' = got
    BY DEF Send
  <2>3. ran[c] <= lost[c]
    BY DEF ClientInv, Send, RunInv
  <2> QED BY <2>1, <2>2, <2>3, NilAssumption, SMTT(10) DEF ClientInv, TypeOK, RunInv, OwnAnswer
<1> QED BY <1>1, <1>2, <1>3, <1>4, <1>5, <1>6 DEF ClientInv
(* A call ends with its connection closed.                                   *)
LEMMA CloseAllOthers ==
  ASSUME ClientInv, NEW c \in Calls, conn[c] \in Conns, conn' = [conn EXCEPT ![c] = Nil],
         CloseAll({conn[c]}), idle' = idle
  PROVE  OneOwner' /\ Kept'
<1>1. near' = [k \in Conns |-> IF k = conn[c] THEN "gone" ELSE near[k]] /\ doomed' \subseteq doomed
  BY DEF CloseAll
<1>2. OneOwner'
  BY <1>1, NilAssumption, SMTT(10) DEF ClientInv, TypeOK, OneOwner
<1>3. ASSUME NEW l \in Conns, near'[l] # "gone"
      PROVE  Held(l)' \/ InPool(l)'
  <2>1. l # conn[c] /\ near[l] # "gone"
    BY <1>1, <1>3
  <2>2. Held(l) \/ InPool(l)
    BY <2>1 DEF ClientInv, Kept
  <2> QED BY <2>1, <2>2, HeldStays DEF ClientInv, InPool
<1> QED BY <1>2, <1>3 DEF Kept

LEMMA FailKeeps ==
  ASSUME ClientInv, NEW c \in Calls, at[c] \in {"send", "recv"},
         NEW r \in Result \ {"closed"}, Fail(c, r)
  PROVE  ClientInv'
<1>1. TypeOK'
  BY NilAssumption, SMTT(10) DEF ClientInv, Fail, Done, CloseAll, TypeOK
<1>2. TriesInv'
  BY DEF ClientInv, Fail, Done, TypeOK, TriesInv
<1>3. OneOwner' /\ Kept'
  BY CloseAllOthers DEF ClientInv, Fail, Done, TypeOK
<1>4. CloseInv'
  BY NilAssumption, SMTT(10) DEF ClientInv, Fail, Done, CloseAll, TypeOK, CloseInv
<1>5. WireInv'
  BY NilAssumption, SMTT(10) DEF ClientInv, Fail, Done, CloseAll, TypeOK, Answer, OneOwner, WireInv
<1>6. RunInv'
  BY NilAssumption, SMTT(10) DEF ClientInv, Fail, Done, TypeOK, WireInv, RunInv, OwnAnswer
<1> QED BY <1>1, <1>2, <1>3, <1>4, <1>5, <1>6 DEF ClientInv

(* A call whose connection has dropped ends, or goes on to dial.             *)
LEMMA DroppedKeeps ==
  ASSUME ClientInv, NEW c \in Calls, Dropped(c)
  PROVE  ClientInv'
<1> DEFINE k == conn[c]
<1>1. /\ at[c] \in {"send", "recv"} /\ k \in Conns
      /\ far[k] = "gone" /\ asked[k] = Nil
      /\ tries[c] < callAttempts /\ result[c] # "closed"
  BY DEF ClientInv, Dropped, Dropping, TypeOK, WireInv, TriesInv, CloseInv
<1>2. /\ conn' = [conn EXCEPT ![c] = Nil] /\ CloseAll({k}) /\ lost' = [lost EXCEPT ![c] = @ + 1]
      /\ fresh' = fresh /\ ctx' = ctx /\ idle' = idle /\ up' = up /\ ran' = ran
      /\ far' = far /\ asked' = asked /\ got' = got
  BY DEF Dropped, Resend, Done
<1>3. tries' \in [Calls -> 0 .. callAttempts]
  BY <1>1, OneMore DEF ClientInv, TypeOK, Dropped, Resend
<1>4. \/ at' = [at EXCEPT ![c] = "done"] /\ result' = [result EXCEPT ![c] = "dropped"]
      \/ at' = [at EXCEPT ![c] = "dial"] /\ result' = result /\ tries'[c] # callAttempts
  BY DEF Dropped, Resend, Done
<1>5. TypeOK'
  <2>1. /\ near' \in [Conns -> {"gone", "open", "closed"}] /\ doomed' \subseteq Conns
        /\ answer' \in [Conns -> Answer \cup {Nil}]
    BY <1>2 DEF ClientInv, TypeOK, CloseAll
  <2>2. conn' \in [Calls -> Conns \cup {Nil}] /\ lost' \in [Calls -> Nat]
    BY <1>2 DEF ClientInv, TypeOK
  <2>3. /\ at' \in [Calls -> {"new", "dial", "send", "recv", "done"}]
        /\ result' \in [Calls -> Result]
        /\ \A d \in Calls : at'[d] \in {"send", "recv"} <=> conn'[d] # Nil
    BY <1>2, <1>4 DEF ClientInv, TypeOK, Result
  <2> QED BY <1>2, <1>3, <2>1, <2>2, <2>3 DEF ClientInv, TypeOK
<1>6. TriesInv'
  <2>1. \A d \in Calls \ {c} : tries'[d] = tries[d]
    BY DEF ClientInv, TypeOK, Dropped, Resend
  <2> QED BY <1>3, <1>4, <2>1, AttemptsAssumption DEF ClientInv, TypeOK, TriesInv
<1>7. OneOwner' /\ Kept'
  BY <1>1, <1>2, CloseAllOthers
<1>8. CloseInv'
  BY <1>2, <1>4, NilAssumption, SMTT(10) DEF ClientInv, CloseAll, TypeOK, CloseInv
<1>9. WireInv'
  BY <1>1, <1>2, <1>4, NilAssumption, SMTT(10) DEF ClientInv, CloseAll, TypeOK, Answer, OneOwner, WireInv
<1>10. RunInv'
  <2>1. \A l \in Conns : asked[l] # c
    BY <1>1, NilAssumption DEF ClientInv, RunInv
  <2>2. ran[c] <= lost[c] + 1 /\ lost'[c] = lost[c] + 1
    BY <1>2 DEF ClientInv, TypeOK, RunInv
  <2> QED BY <1>1, <1>2, <1>4, <2>1, <2>2, NilAssumption, SMTT(10) DEF ClientInv, TypeOK, RunInv, OwnAnswer
<1> QED BY <1>5, <1>6, <1>7, <1>8, <1>9, <1>10 DEF ClientInv
(* The other end, and contexts that end.                                     *)
LEMMA CancelKeeps ==
  ASSUME ClientInv, NEW c \in Calls, Cancel(c)
  PROVE  ClientInv'
<1>1. TypeOK'
  BY NilAssumption, SMTT(10) DEF ClientInv, Cancel, TypeOK
<1>2. TriesInv' /\ Kept'
  BY DEF ClientInv, Cancel, TriesInv, Kept, Held, InPool
<1>3. OneOwner'
  BY NilAssumption, SMTT(10) DEF ClientInv, Cancel, TypeOK, OneOwner
<1>4. CloseInv'
  BY NilAssumption, SMTT(10) DEF ClientInv, Cancel, TypeOK, OneOwner, CloseInv
<1>5. WireInv' /\ RunInv'
  BY DEF ClientInv, Cancel, WireInv, RunInv, OwnAnswer
<1> QED BY <1>1, <1>2, <1>3, <1>4, <1>5 DEF ClientInv

LEMMA AfterFuncKeeps ==
  ASSUME ClientInv, NEW k \in Conns, AfterFunc(k)
  PROVE  ClientInv'
<1>1. TypeOK'
  BY NilAssumption, SMTT(10) DEF ClientInv, AfterFunc, caller, TypeOK
<1>2. TriesInv'
  BY DEF ClientInv, AfterFunc, caller, TriesInv
<1>3. OneOwner'
  BY NilAssumption, SMTT(10) DEF ClientInv, AfterFunc, caller, TypeOK, OneOwner
<1>4. Kept'
  <2>1. near[k] # "gone" /\ \A l \in Conns \ {k} : near'[l] = near[l]
    BY DEF ClientInv, AfterFunc, TypeOK, CloseInv
  <2> QED BY <2>1 DEF ClientInv, AfterFunc, caller, Kept, Held, InPool
<1>5. CloseInv'
  BY NilAssumption, SMTT(10) DEF ClientInv, AfterFunc, caller, TypeOK, CloseInv
<1>6. WireInv'
  BY NilAssumption, SMTT(10) DEF ClientInv, AfterFunc, caller, TypeOK, OneOwner, WireInv
<1>7. RunInv'
  BY DEF ClientInv, AfterFunc, caller, RunInv, OwnAnswer
<1> QED BY <1>1, <1>2, <1>3, <1>4, <1>5, <1>6, <1>7 DEF ClientInv

LEMMA ExecuteKeeps ==
  ASSUME ClientInv, NEW k \in Conns, Execute(k)
  PROVE  ClientInv'
<1>1. TypeOK'
  BY NilAssumption, SMTT(10) DEF ClientInv, Execute, caller, TypeOK
<1>2. TriesInv' /\ Kept' /\ OneOwner' /\ CloseInv'
  BY DEF ClientInv, Execute, caller, TriesInv, Kept, OneOwner, CloseInv, Held, InPool
<1>3. WireInv'
  BY NilAssumption, SMTT(10) DEF ClientInv, Execute, caller, TypeOK, Answer, OneOwner, WireInv, RunInv
<1>4. RunInv'
  BY NilAssumption, SMTT(10) DEF ClientInv, Execute, caller, TypeOK, OneOwner, WireInv, RunInv, OwnAnswer
<1> QED BY <1>1, <1>2, <1>3, <1>4 DEF ClientInv

LEMMA RespondKeeps ==
  ASSUME ClientInv, NEW k \in Conns, NEW failed \in BOOLEAN, Respond(k, failed)
  PROVE  ClientInv'
<1> DEFINE a == [to |-> asked[k], failed |-> failed]
<1>1. /\ far[k] = "respond" /\ near[k] = "open" /\ asked[k] \in Calls /\ ran[asked[k]] > 0
      /\ a \in Answer /\ a.to = asked[k]
  BY DEF ClientInv, Respond, TypeOK, WireInv, Answer
<1>2. /\ far' = [far EXCEPT ![k] = "read"] /\ asked' = [asked EXCEPT ![k] = Nil]
      /\ answer' = [answer EXCEPT ![k] = a]
      /\ near' = near /\ doomed' = doomed /\ idle' = idle /\ up' = up /\ ran' = ran
      /\ at' = at /\ conn' = conn /\ fresh' = fresh /\ tries' = tries /\ ctx' = ctx
      /\ result' = result /\ got' = got /\ lost' = lost
  BY DEF Respond, caller
<1> HIDE DEF a
<1>3. TypeOK'
  BY <1>1, <1>2 DEF ClientInv, TypeOK
<1>4. TriesInv' /\ Kept' /\ OneOwner' /\ CloseInv'
  BY <1>2 DEF ClientInv, TriesInv, Kept, OneOwner, CloseInv, Held, InPool
<1>5. \A c \in Calls : conn[c] = k => asked[k] = c /\ at[c] = "recv"
  <2> SUFFICES ASSUME NEW c \in Calls, conn[c] = k
               PROVE  asked[k] = c /\ at[c] = "recv"
    OBVIOUS
  <2>1. asked[k] = c
    BY <1>1, NilAssumption DEF ClientInv, WireInv
  <2>2. at[c] \in {"send", "recv"}
    BY NilAssumption DEF ClientInv, TypeOK
  <2>3. at[c] # "send"
    BY <2>1 DEF ClientInv, RunInv
  <2> QED BY <2>1, <2>2, <2>3
<1>6. WireInv'
  BY <1>1, <1>2, <1>5, NilAssumption, SMTT(10) DEF ClientInv, TypeOK, WireInv
<1>7. RunInv'
  BY <1>2, NilAssumption, SMTT(10) DEF ClientInv, TypeOK, RunInv, OwnAnswer
<1> QED BY <1>3, <1>4, <1>6, <1>7 DEF ClientInv

LEMMA HangupKeeps ==
  ASSUME ClientInv, NEW k \in Conns, Hangup(k)
  PROVE  ClientInv'
<1>1. TypeOK'
  BY NilAssumption, SMTT(10) DEF ClientInv, Hangup, caller, TypeOK
<1>2. TriesInv' /\ Kept' /\ OneOwner' /\ CloseInv'
  BY DEF ClientInv, Hangup, caller, TriesInv, Kept, OneOwner, CloseInv, Held, InPool
<1>3. WireInv'
  BY NilAssumption, SMTT(10) DEF ClientInv, Hangup, caller, TypeOK, WireInv
<1>4. RunInv'
  BY NilAssumption, SMTT(10) DEF ClientInv, Hangup, caller, TypeOK, RunInv, OwnAnswer
<1> QED BY <1>1, <1>2, <1>3, <1>4 DEF ClientInv

LEMMA ListeningKeeps ==
  ASSUME ClientInv, Listening
  PROVE  ClientInv'
<1>1. TypeOK'
  BY DEF ClientInv, Listening, caller, wire, TypeOK
<1>2. TriesInv' /\ Kept' /\ OneOwner' /\ CloseInv'
  BY DEF ClientInv, Listening, caller, wire, TriesInv, Kept, OneOwner, CloseInv, Held, InPool
<1>3. WireInv' /\ RunInv'
  BY DEF ClientInv, Listening, caller, wire, WireInv, RunInv, OwnAnswer
<1> QED BY <1>1, <1>2, <1>3 DEF ClientInv
(* The pool: a connection is taken from it, given back, or all are closed.   *)
LEMMA NewCall ==
  ASSUME ClientInv, NEW c \in Calls, at[c] = "new"
  PROVE  /\ conn[c] = Nil /\ tries[c] < callAttempts
         /\ ran[c] <= lost[c] /\ \A k \in Conns : asked[k] # c
<1>1. conn[c] = Nil
  BY DEF ClientInv, TypeOK
<1>2. tries[c] < callAttempts
  BY DEF ClientInv, TriesInv
<1>3. ran[c] <= lost[c] /\ \A k \in Conns : asked[k] # c
  BY DEF ClientInv, RunInv
<1> QED BY <1>1, <1>2, <1>3

LEMMA IdleElements ==
  ASSUME TypeOK
  PROVE  /\ idle \in Seq(Conns) /\ Len(idle) \in Nat
         /\ \A j \in 1 .. Len(idle) : idle[j] \in Conns
  BY DEF TypeOK

(* All were stale. *)
LEMMA TakeNoneKeeps ==
  ASSUME ClientInv, NEW c \in Calls, Take(c, 0)
  PROVE  ClientInv'
<1> DEFINE stale == {idle[j] : j \in 1 .. Len(idle)}
<1>1. at[c] = "new" /\ conn[c] = Nil
  BY NewCall DEF Take
<1>2. /\ near' = [k \in Conns |-> IF k \in stale THEN "gone" ELSE near[k]]
      /\ at' = [at EXCEPT ![c] = "dial"] /\ idle' = <<>>
      /\ conn' = conn /\ fresh' = fresh /\ doomed' = doomed
      /\ tries' = tries /\ ctx' = ctx /\ result' = result /\ far' = far /\ asked' = asked
      /\ answer' = answer /\ up' = up /\ ran' = ran /\ lost' = lost /\ got' = got
  BY DEF Take
<1>3. idle' \in Seq(Conns) /\ Len(idle') = 0
  BY <1>2, EmptySeq
<1>4. \A k \in Conns : k \in stale <=> InPool(k)
  BY DEF InPool
<1>5. \A k \in Conns : k \in stale =>
        answer[k] = Nil /\ k \notin doomed /\ \A d \in Calls : conn[d] # k
  BY DEF ClientInv, OneOwner, WireInv
<1> HIDE DEF stale
<1>6. TypeOK'
  BY <1>1, <1>2, <1>3, NilAssumption, IdleAssumption DEF ClientInv, TypeOK
<1>7. TriesInv'
  BY <1>1, <1>2 DEF ClientInv, TypeOK, TriesInv
<1>8. OneOwner'
  BY <1>2, <1>3, <1>5, NilAssumption DEF ClientInv, TypeOK, OneOwner
<1>9. Kept'
  BY <1>2, <1>4 DEF ClientInv, Kept, Held
<1>10. CloseInv'
  BY <1>2, <1>5, NilAssumption DEF ClientInv, TypeOK, CloseInv
<1>11. WireInv'
  BY <1>1, <1>2, <1>3, <1>5, NilAssumption DEF ClientInv, TypeOK, WireInv
<1>12. RunInv'
  BY <1>1, <1>2, NilAssumption DEF ClientInv, TypeOK, RunInv, OwnAnswer
<1> QED BY <1>6, <1>7, <1>8, <1>9, <1>10, <1>11, <1>12 DEF ClientInv

(* One was not. *)
LEMMA TakeOneKeeps ==
  ASSUME ClientInv, NEW c \in Calls, NEW i \in Nat \ {0}, Take(c, i)
  PROVE  ClientInv'
<1> DEFINE stale == {idle[j] : j \in (i + 1) .. Len(idle)}
           one == idle[i]
<1>1. /\ at[c] = "new" /\ conn[c] = Nil
      /\ ran[c] <= lost[c] /\ \A k \in Conns : asked[k] # c
  BY NewCall DEF Take
<1>2. i <= Len(idle) /\ i \in 1 .. Len(idle) /\ one \in Conns
  BY IdleElements DEF ClientInv, Take
<1>3. /\ near' = [k \in Conns |-> IF k \in stale THEN "gone" ELSE near[k]]
      /\ at' = [at EXCEPT ![c] = "send"] /\ conn' = [conn EXCEPT ![c] = one]
      /\ fresh' = [fresh EXCEPT ![c] = FALSE]
      /\ doomed' = IF ctx[c] THEN doomed \cup {one} ELSE doomed
      /\ tries' = tries /\ ctx' = ctx /\ result' = result /\ far' = far /\ asked' = asked
      /\ answer' = answer /\ up' = up /\ ran' = ran /\ lost' = lost /\ got' = got
  BY DEF Take, Hold
<1>4. idle' = SubSeq(idle, 1, i - 1)
  BY DEF Take
<1>5. /\ idle' \in Seq(Conns) /\ Len(idle') = i - 1
      /\ \A j \in 1 .. (i - 1) : idle'[j] = idle[j]
  <2>1. \A j \in 1 .. (i - 1) : idle[j] \in Conns
    BY <1>2, IdleElements DEF ClientInv
  <2>2. i - 1 \in Nat
    OBVIOUS
  <2>3. /\ idle' \in Seq(Conns)
        /\ Len(idle') = IF 1 <= i - 1 THEN (i - 1) - 1 + 1 ELSE 0
        /\ \A j \in 1 .. (i - 1) - 1 + 1 : idle'[j] = idle[1 + j - 1]
    BY <1>2, <1>4, <2>1, <2>2, IdleElements, SubSeqProperties DEF ClientInv
  <2>4. Len(idle') = i - 1
    BY <2>2, <2>3
  <2>5. \A j \in 1 .. (i - 1) : idle'[j] = idle[j]
    <3> TAKE j \in 1 .. (i - 1)
    <3>1. j \in 1 .. (i - 1) - 1 + 1 /\ 1 + j - 1 = j
      BY <2>2
    <3> QED BY <2>3, <3>1
  <2> QED BY <2>3, <2>4, <2>5
<1>6. \A j \in 1 .. Len(idle) : idle[j] \in stale <=> j > i
  BY <1>2, IdleElements DEF ClientInv, OneOwner
<1>7. \A k \in Conns : k \in stale =>
        answer[k] = Nil /\ k \notin doomed /\ k # one /\ \A d \in Calls : conn[d] # k
  BY <1>2, IdleElements DEF ClientInv, OneOwner, WireInv
<1>8. /\ near[one] = "open" /\ one \notin doomed /\ answer[one] = Nil /\ asked[one] = Nil
      /\ \A d \in Calls : conn[d] # one
  BY <1>2 DEF ClientInv, OneOwner, WireInv
<1> HIDE DEF stale, one
<1>9. TypeOK'
  <2>1. Len(idle') <= maxIdleConns
    BY <1>2, <1>5, IdleElements, IdleAssumption DEF ClientInv, TypeOK
  <2> QED BY <1>1, <1>2, <1>3, <1>5, <2>1, NilAssumption DEF ClientInv, TypeOK
<1>10. TriesInv'
  BY <1>1, <1>3 DEF ClientInv, TypeOK, TriesInv
<1>11. OneOwner'
  <2>1. ASSUME NEW d \in Calls, conn'[d] # Nil
        PROVE  near'[conn'[d]] # "gone" /\ \A e \in Calls : conn'[d] = conn'[e] => d = e
    BY <1>2, <1>3, <1>7, <1>8, <2>1, NilAssumption DEF ClientInv, TypeOK, OneOwner
  <2>2. ASSUME NEW j \in 1 .. Len(idle')
        PROVE  /\ near'[idle'[j]] = "open" /\ idle'[j] \notin doomed'
               /\ \A l \in 1 .. Len(idle') : idle'[j] = idle'[l] => j = l
               /\ \A d \in Calls : conn'[d] # idle'[j]
    <3>1. j \in 1 .. Len(idle) /\ j < i /\ idle'[j] = idle[j] /\ idle[j] \in Conns
      BY <1>2, <1>5, IdleElements DEF ClientInv
    <3>2. idle[j] # one /\ idle[j] \notin stale
      BY <1>2, <1>6, <3>1 DEF ClientInv, OneOwner, one
    <3>3. \A l \in 1 .. Len(idle') : idle'[j] = idle'[l] => j = l
      <4>1. \A l \in 1 .. Len(idle') : l \in 1 .. Len(idle) /\ idle'[l] = idle[l]
        BY <1>2, <1>5, IdleElements DEF ClientInv
      <4> QED BY <3>1, <4>1 DEF ClientInv, OneOwner
    <3>4. near[idle[j]] = "open" /\ idle[j] \notin doomed /\ \A d \in Calls : conn[d] # idle[j]
      BY <3>1 DEF ClientInv, OneOwner
    <3> QED BY <1>3, <3>1, <3>2, <3>3, <3>4 DEF ClientInv, TypeOK
  <2> QED BY <2>1, <2>2 DEF OneOwner
<1>12. Kept'
  <2> SUFFICES ASSUME NEW k \in Conns, near'[k] # "gone"
               PROVE  Held(k)' \/ InPool(k)'
    BY DEF Kept
  <2>1. k \notin stale /\ near[k] # "gone"
    BY <1>3
  <2>2. CASE Held(k)
    <3>1. k # conn[c]
      BY <1>1, NilAssumption
    <3> QED BY <1>3, <2>2, <3>1, HeldStays DEF ClientInv
  <2>3. CASE InPool(k)
    <3>1. PICK j \in 1 .. Len(idle) : idle[j] = k
      BY <2>3 DEF InPool
    <3>2. CASE j = i
      BY <1>3, <3>1, <3>2 DEF ClientInv, TypeOK, Held, one
    <3>3. CASE j # i
      <4>1. j \in 1 .. (i - 1)
        BY <1>2, <1>6, <2>1, <3>1, <3>3, IdleElements DEF ClientInv
      <4> QED BY <1>5, <3>1, <4>1 DEF InPool
    <3> QED BY <3>2, <3>3
  <2> QED BY <2>1, <2>2, <2>3 DEF ClientInv, Kept
<1>13. CloseInv'
  BY <1>2, <1>3, <1>7, <1>8, NilAssumption DEF ClientInv, TypeOK, CloseInv
<1>14. WireInv'
  <2>1. ASSUME NEW j \in 1 .. Len(idle')
        PROVE  answer'[idle'[j]] = Nil /\ asked'[idle'[j]] = Nil
    <3>1. j \in 1 .. Len(idle) /\ idle'[j] = idle[j]
      BY <1>2, <1>5, IdleElements DEF ClientInv
    <3> QED BY <1>3, <3>1 DEF ClientInv, WireInv
  <2>2. ASSUME NEW d \in Calls, conn'[d] # Nil
        PROVE  /\ asked'[conn'[d]] \in {d, Nil}
               /\ answer'[conn'[d]] # Nil =>
                    answer'[conn'[d]].to = d /\ at'[d] = "recv" /\ ran'[d] > 0 /\ asked'[conn'[d]] = Nil
    BY <1>1, <1>3, <1>8, <2>2, NilAssumption DEF ClientInv, TypeOK, WireInv
  <2>3. \A k \in Conns : near'[k] # "open" => answer'[k] = Nil
    BY <1>3, <1>7 DEF ClientInv, WireInv
  <2>4. /\ \A k \in Conns : far'[k] = "gone" => asked'[k] = Nil
        /\ \A k \in Conns : far'[k] = "respond" => asked'[k] # Nil /\ ran'[asked'[k]] > 0
    BY <1>3 DEF ClientInv, WireInv
  <2> QED BY <2>1, <2>2, <2>3, <2>4 DEF WireInv
<1>15. RunInv'
  BY <1>1, <1>3, NilAssumption DEF ClientInv, TypeOK, RunInv, OwnAnswer
<1> QED BY <1>9, <1>10, <1>11, <1>12, <1>13, <1>14, <1>15 DEF ClientInv

LEMMA TakeKeeps ==
  ASSUME ClientInv, NEW c \in Calls, NEW i \in 0 .. maxIdleConns, Take(c, i)
  PROVE  ClientInv'
<1>1. i = 0 \/ i \in Nat \ {0}
  BY IdleAssumption
<1> QED BY <1>1, TakeNoneKeeps, TakeOneKeeps
(* An answer is read, and the connection closed or given back.               *)
LEMMA AnswerRead ==
  ASSUME ClientInv, NEW c \in Calls, Recv(c)
  PROVE  /\ at[c] = "recv" /\ conn[c] \in Conns /\ near[conn[c]] = "open"
         /\ asked[conn[c]] = Nil /\ ran[c] > 0 /\ ran[c] <= lost[c] + 1
         /\ got' = [got EXCEPT ![c] = c]
         /\ \A k \in Conns : asked[k] # c
<1>1. at[c] = "recv" /\ near[conn[c]] = "open" /\ answer[conn[c]] # Nil
  BY DEF Recv
<1>2. conn[c] # Nil /\ conn[c] \in Conns
  BY <1>1 DEF ClientInv, TypeOK
<1>3. answer[conn[c]].to = c /\ ran[c] > 0 /\ asked[conn[c]] = Nil
  BY <1>1, <1>2 DEF ClientInv, WireInv
<1>4. got' = [got EXCEPT ![c] = c]
  BY <1>3 DEF Recv
<1>5. \A k \in Conns : asked[k] = c => k = conn[c]
  BY <1>1 DEF ClientInv, RunInv
<1>6. \A k \in Conns : asked[k] # c
  BY <1>3, <1>5, NilAssumption
<1>7. ran[c] <= lost[c] + 1
  BY DEF ClientInv, RunInv
<1> QED BY <1>1, <1>2, <1>3, <1>4, <1>6, <1>7

LEMMA ReadRunInv ==
  ASSUME ClientInv, NEW c \in Calls, Recv(c), at' = [at EXCEPT ![c] = "done"],
         conn' = [conn EXCEPT ![c] = Nil]
  PROVE  TriesInv' /\ RunInv'
<1>1. /\ tries' = tries /\ far' = far /\ asked' = asked /\ ran' = ran /\ lost' = lost
  BY DEF Recv
<1>2. TriesInv'
  BY <1>1 DEF ClientInv, TypeOK, TriesInv
<1>3. RunInv'
  BY <1>1, AnswerRead, NilAssumption DEF ClientInv, TypeOK, RunInv, OwnAnswer
<1> QED BY <1>2, <1>3

LEMMA RecvCloses ==
  ASSUME ClientInv, NEW c \in Calls, Recv(c), NEW r \in Result \ {"closed"}, Done(c, r),
         idle' = idle, CloseAll({conn[c]})
  PROVE  ClientInv'
<1>1. /\ at[c] = "recv" /\ conn[c] \in Conns /\ near[conn[c]] = "open"
      /\ got' = [got EXCEPT ![c] = c]
  BY AnswerRead
<1>2. /\ at' = [at EXCEPT ![c] = "done"] /\ result' = [result EXCEPT ![c] = r]
      /\ conn' = [conn EXCEPT ![c] = Nil]
      /\ fresh' = fresh /\ tries' = tries /\ ctx' = ctx /\ far' = far /\ asked' = asked
      /\ up' = up /\ ran' = ran /\ lost' = lost
  BY DEF Recv, Done
<1>3. TypeOK'
  BY <1>1, <1>2, NilAssumption DEF ClientInv, CloseAll, TypeOK
<1>4. OneOwner' /\ Kept'
  BY <1>1, <1>2, CloseAllOthers
<1>5. CloseInv'
  BY <1>2, NilAssumption DEF ClientInv, CloseAll, TypeOK, CloseInv
<1>6. WireInv'
  BY <1>1, <1>2, NilAssumption DEF ClientInv, CloseAll, TypeOK, OneOwner, WireInv
<1>7. TriesInv' /\ RunInv'
  BY <1>2, ReadRunInv
<1> QED BY <1>3, <1>4, <1>5, <1>6, <1>7 DEF ClientInv

LEMMA RecvReturns ==
  ASSUME ClientInv, NEW c \in Calls, Recv(c), Done(c, "ok"),
         Len(idle) < maxIdleConns, conn[c] \notin doomed,
         idle' = Append(idle, conn[c]), answer' = [answer EXCEPT ![conn[c]] = Nil],
         UNCHANGED <<near, doomed>>
  PROVE  ClientInv'
<1> DEFINE k == conn[c]
<1>1. /\ at[c] = "recv" /\ k \in Conns /\ near[k] = "open"
      /\ asked[k] = Nil /\ got' = [got EXCEPT ![c] = c]
  BY AnswerRead
<1>2. /\ at' = [at EXCEPT ![c] = "done"] /\ result' = [result EXCEPT ![c] = "ok"]
      /\ conn' = [conn EXCEPT ![c] = Nil] /\ answer' = [answer EXCEPT ![k] = Nil]
      /\ near' = near /\ doomed' = doomed
      /\ fresh' = fresh /\ tries' = tries /\ ctx' = ctx /\ far' = far /\ asked' = asked
      /\ up' = up /\ ran' = ran /\ lost' = lost
  BY DEF Recv, Done
<1>3. /\ idle' \in Seq(Conns) /\ Len(idle') = Len(idle) + 1
      /\ \A j \in 1 .. Len(idle) : idle'[j] = idle[j]
      /\ idle'[Len(idle) + 1] = k
  BY <1>1, IdleElements, AppendProperties DEF ClientInv
<1>4. \A d \in Calls : conn[d] = k => d = c
  BY <1>1, NilAssumption DEF ClientInv, OneOwner
<1>5. \A j \in 1 .. Len(idle) : idle[j] # k
  BY DEF ClientInv, OneOwner
<1>6. \A j \in 1 .. Len(idle') : j \in 1 .. Len(idle) \/ j = Len(idle) + 1
  BY <1>3, IdleElements DEF ClientInv
<1>7. k \notin doomed
  OBVIOUS
<1> HIDE DEF k
<1>8. TypeOK'
  <2>1. Len(idle') <= maxIdleConns
    BY <1>3, IdleElements, IdleAssumption DEF ClientInv
  <2>2. result' \in [Calls -> Result]
    BY <1>2 DEF ClientInv, TypeOK, Result
  <2> QED BY <1>1, <1>2, <1>3, <2>1, <2>2, NilAssumption DEF ClientInv, TypeOK
<1>9. OneOwner'
  <2>1. ASSUME NEW d \in Calls, conn'[d] # Nil
        PROVE  near'[conn'[d]] # "gone" /\ \A e \in Calls : conn'[d] = conn'[e] => d = e
    BY <1>2, <2>1 DEF ClientInv, TypeOK, OneOwner
  <2>2. ASSUME NEW j \in 1 .. Len(idle')
        PROVE  /\ near'[idle'[j]] = "open" /\ idle'[j] \notin doomed'
               /\ \A l \in 1 .. Len(idle') : idle'[j] = idle'[l] => j = l
               /\ \A d \in Calls : conn'[d] # idle'[j]
    <3>1. CASE j = Len(idle) + 1
      <4>1. \A l \in 1 .. Len(idle') : idle'[j] = idle'[l] => j = l
        BY <1>3, <1>5, <1>6, <3>1
      <4>2. \A d \in Calls : conn'[d] # k
        BY <1>1, <1>2, <1>4, NilAssumption DEF ClientInv, TypeOK
      <4> QED BY <1>1, <1>2, <1>3, <1>7, <3>1, <4>1, <4>2
    <3>2. CASE j \in 1 .. Len(idle)
      <4>1. idle'[j] = idle[j] /\ idle[j] \in Conns
        BY <1>3, <3>2, IdleElements DEF ClientInv
      <4>2. \A l \in 1 .. Len(idle') : idle'[j] = idle'[l] => j = l
        BY <1>3, <1>5, <1>6, <3>2, <4>1 DEF ClientInv, OneOwner
      <4>3. \A d \in Calls : conn'[d] # idle[j]
        BY <1>2, <3>2, <4>1, NilAssumption DEF ClientInv, TypeOK, OneOwner
      <4> QED BY <1>2, <3>2, <4>1, <4>2, <4>3 DEF ClientInv, OneOwner
    <3> QED BY <1>6, <3>1, <3>2
  <2> QED BY <2>1, <2>2 DEF OneOwner
<1>10. Kept'
  <2> SUFFICES ASSUME NEW l \in Conns, near'[l] # "gone"
               PROVE  Held(l)' \/ InPool(l)'
    BY DEF Kept
  <2>1. CASE l = k
    BY <1>3, <2>1, IdleElements DEF ClientInv, InPool
  <2>2. CASE l # k /\ Held(l)
    BY <1>2, <2>2, HeldStays DEF ClientInv, k
  <2>3. CASE InPool(l)
    <3>1. PICK j \in 1 .. Len(idle) : idle[j] = l
      BY <2>3 DEF InPool
    <3>2. j \in 1 .. Len(idle') /\ idle'[j] = l
      BY <1>3, <3>1, IdleElements DEF ClientInv
    <3> QED BY <3>2 DEF InPool
  <2> QED BY <1>2, <2>1, <2>2, <2>3 DEF ClientInv, Kept
<1>11. CloseInv'
  BY <1>2, NilAssumption DEF ClientInv, TypeOK, CloseInv
<1>12. WireInv'
  <2>1. ASSUME NEW j \in 1 .. Len(idle')
        PROVE  answer'[idle'[j]] = Nil /\ asked'[idle'[j]] = Nil
    <3>1. CASE j = Len(idle) + 1
      BY <1>1, <1>2, <1>3, <3>1 DEF ClientInv, TypeOK
    <3>2. CASE j \in 1 .. Len(idle)
      BY <1>2, <1>3, <3>2, IdleElements DEF ClientInv, TypeOK, WireInv
    <3> QED BY <1>6, <3>1, <3>2
  <2>2. ASSUME NEW d \in Calls, conn'[d] # Nil
        PROVE  /\ asked'[conn'[d]] \in {d, Nil}
               /\ answer'[conn'[d]] # Nil =>
                    answer'[conn'[d]].to = d /\ at'[d] = "recv" /\ ran'[d] > 0 /\ asked'[conn'[d]] = Nil
    BY <1>1, <1>2, <1>4, <2>2, NilAssumption DEF ClientInv, TypeOK, WireInv
  <2>3. \A l \in Conns : near'[l] # "open" => answer'[l] = Nil
    BY <1>1, <1>2 DEF ClientInv, TypeOK, WireInv
  <2>4. /\ \A l \in Conns : far'[l] = "gone" => asked'[l] = Nil
        /\ \A l \in Conns : far'[l] = "respond" => asked'[l] # Nil /\ ran'[asked'[l]] > 0
    BY <1>2 DEF ClientInv, WireInv
  <2> QED BY <2>1, <2>2, <2>3, <2>4 DEF WireInv
<1>13. TriesInv' /\ RunInv'
  BY <1>2, ReadRunInv
<1> QED BY <1>8, <1>9, <1>10, <1>11, <1>12, <1>13 DEF ClientInv

LEMMA RecvKeeps ==
  ASSUME ClientInv, NEW c \in Calls, Recv(c)
  PROVE  ClientInv'
<1>1. CASE answer[conn[c]].failed
  <2>1. Done(c, "remote") /\ idle' = idle /\ CloseAll({conn[c]})
    BY <1>1 DEF Recv
  <2> QED BY <2>1, RecvCloses DEF Result
<1>2. CASE ~answer[conn[c]].failed
  <2>1. Done(c, "ok") /\ Put(conn[c], conn[c] \notin doomed)
    BY <1>2 DEF Recv, Reusable
  <2>2. CASE conn[c] \notin doomed /\ Len(idle) < maxIdleConns
    BY <2>1, <2>2, RecvReturns DEF Put
  <2>3. CASE ~(conn[c] \notin doomed /\ Len(idle) < maxIdleConns)
    <3>1. idle' = idle /\ CloseAll({conn[c]})
      BY <2>1, <2>3 DEF Put
    <3> QED BY <2>1, <3>1, RecvCloses DEF Result
  <2> QED BY <2>2, <2>3
<1> QED BY <1>1, <1>2

(* The client is closed. *)
LEMMA CloseIdleKeeps ==
  ASSUME ClientInv, CloseIdle
  PROVE  ClientInv'
<1> DEFINE ks == {k \in Conns : InPool(k)}
<1>1. /\ near' = [k \in Conns |-> IF k \in ks THEN "gone" ELSE near[k]]
      /\ answer' = [k \in Conns |-> IF k \in ks THEN Nil ELSE answer[k]]
      /\ doomed' = doomed \ ks /\ idle' = <<>>
      /\ far' = far /\ asked' = asked /\ up' = up /\ ran' = ran
      /\ at' = at /\ conn' = conn /\ fresh' = fresh /\ tries' = tries /\ ctx' = ctx
      /\ result' = result /\ got' = got /\ lost' = lost
  BY DEF CloseIdle, CloseAll, caller
<1>2. idle' \in Seq(Conns) /\ Len(idle') = 0
  BY <1>1, EmptySeq
<1>3. \A k \in ks : \A d \in Calls : conn[d] # k
  BY DEF ClientInv, OneOwner, InPool
<1>4. \A k \in Conns : k \notin ks => ~InPool(k)
  OBVIOUS
<1> HIDE DEF ks
<1>5. TypeOK'
  BY <1>1, <1>2, IdleAssumption DEF ClientInv, TypeOK
<1>6. TriesInv'
  BY <1>1 DEF ClientInv, TriesInv
<1>7. OneOwner'
  BY <1>1, <1>2, <1>3 DEF ClientInv, TypeOK, OneOwner
<1>8. Kept'
  BY <1>1, <1>4 DEF ClientInv, Kept, Held
<1>9. CloseInv'
  BY <1>1, <1>3 DEF ClientInv, TypeOK, CloseInv
<1>10. WireInv'
  BY <1>1, <1>2, <1>3 DEF ClientInv, TypeOK, WireInv
<1>11. RunInv'
  BY <1>1 DEF ClientInv, RunInv, OwnAnswer
<1> QED BY <1>5, <1>6, <1>7, <1>8, <1>9, <1>10, <1>11 DEF ClientInv
---------------------------------------------------------------------------
LEMMA InitInv ==
  ASSUME Init
  PROVE  ClientInv
<1>1. idle = <<>> /\ idle \in Seq(Conns) /\ Len(idle) = 0
  BY EmptySeq DEF Init
<1>2. TypeOK
  BY <1>1, AttemptsAssumption, IdleAssumption DEF Init, TypeOK, Result
<1>3. TriesInv /\ Kept /\ CloseInv
  BY AttemptsAssumption DEF Init, TriesInv, Kept, CloseInv
<1>4. OneOwner /\ WireInv
  BY <1>1 DEF Init, OneOwner, WireInv
<1>5. RunInv
  BY NilAssumption DEF Init, RunInv, OwnAnswer
<1> QED BY <1>2, <1>3, <1>4, <1>5 DEF ClientInv

LEMMA CallingKeeps ==
  ASSUME ClientInv, NEW c \in Calls, Calling(c)
  PROVE  ClientInv'
<1>1. CASE \E i \in 0 .. maxIdleConns : Take(c, i)
  BY <1>1, TakeKeeps
<1>2. CASE \E k \in Conns : Dial(c, k)
  BY <1>2, DialKeeps
<1>3. CASE DialFails(c) \/ BackoffEnds(c)
  BY <1>3, DialFailsKeeps, BackoffEndsKeeps
<1>4. CASE Send(c) \/ Recv(c)
  BY <1>4, SendKeeps, RecvKeeps
<1>5. CASE Timeout(c)
  BY <1>5, FailKeeps DEF Timeout, Result
<1>6. CASE ClosedUnder(c)
  <2>1. conn[c] # Nil /\ near[conn[c]] = "closed"
    BY <1>6 DEF ClosedUnder, ClientInv, TypeOK
  <2>2. ctx[c]
    BY <2>1 DEF ClientInv, CloseInv
  <2> QED BY <1>6, <2>2, FailKeeps DEF ClosedUnder, Result
<1>7. CASE DroppedAfterEnd(c)
  BY <1>7, FailKeeps DEF DroppedAfterEnd, Dropping, Result
<1>8. CASE Dropped(c)
  BY <1>8, DroppedKeeps
<1> QED BY <1>1, <1>2, <1>3, <1>4, <1>5, <1>6, <1>7, <1>8 DEF Calling

LEMMA StepKeeps ==
  ASSUME ClientInv, [Next]_vars
  PROVE  ClientInv'
<1>1. CASE \E c \in Calls : Calling(c) \/ Cancel(c)
  BY <1>1, CallingKeeps, CancelKeeps
<1>2. CASE \E k \in Conns : AfterFunc(k) \/ Execute(k) \/ Hangup(k)
  BY <1>2, AfterFuncKeeps, ExecuteKeeps, HangupKeeps
<1>3. CASE \E k \in Conns, failed \in BOOLEAN : Respond(k, failed)
  BY <1>3, RespondKeeps
<1>4. CASE CloseIdle \/ Listening
  BY <1>4, CloseIdleKeeps, ListeningKeeps
<1>5. CASE UNCHANGED vars
  <2>1. TypeOK'
    BY <1>5 DEF ClientInv, vars, TypeOK
  <2>2. TriesInv' /\ Kept' /\ OneOwner' /\ CloseInv'
    BY <1>5 DEF ClientInv, vars, TriesInv, Kept, OneOwner, CloseInv, Held, InPool
  <2>3. WireInv' /\ RunInv'
    BY <1>5 DEF ClientInv, vars, WireInv, RunInv, OwnAnswer
  <2> QED BY <2>1, <2>2, <2>3 DEF ClientInv
<1> QED BY <1>1, <1>2, <1>3, <1>4, <1>5 DEF Next

(* Whoever has a connection has it alone, and somebody has each one that is  *)
(* open here.                                                                *)
LEMMA OneHolder ==
  ASSUME ClientInv
  PROVE  NoneLeaked
<1> SUFFICES ASSUME NEW k \in Conns, near[k] # "gone"
             PROVE  Cardinality(Holders(k)) + Cardinality({i \in 1 .. Len(idle) : idle[i] = k}) = 1
  BY DEF NoneLeaked
<1> DEFINE places == {i \in 1 .. Len(idle) : idle[i] = k}
<1>1. CASE Held(k)
  <2>1. PICK c \in Calls : conn[c] = k
    BY <1>1 DEF Held
  <2>2. Holders(k) = {c}
    BY <2>1, NilAssumption DEF ClientInv, OneOwner, Holders
  <2>3. places = {}
    BY <2>1 DEF ClientInv, OneOwner
  <2>4. Cardinality(Holders(k)) = 1
    BY <2>2, FS_Singleton
  <2>5. Cardinality(places) = 0
    BY <2>3, FS_EmptySet
  <2> QED BY <2>4, <2>5
<1>2. CASE InPool(k)
  <2>1. PICK i \in 1 .. Len(idle) : idle[i] = k
    BY <1>2 DEF InPool
  <2>2. places = {i}
    BY <2>1 DEF ClientInv, OneOwner
  <2>3. Holders(k) = {}
    BY <2>1 DEF ClientInv, OneOwner, Holders
  <2>4. Cardinality(places) = 1
    BY <2>2, FS_Singleton
  <2>5. Cardinality(Holders(k)) = 0
    BY <2>3, FS_EmptySet
  <2> QED BY <2>4, <2>5
<1> QED BY <1>1, <1>2 DEF ClientInv, Kept

(* The strengthened invariant holds in every run of the client.              *)
THEOREM Inductive == Spec => []ClientInv
<1>1. Init => ClientInv
  BY InitInv
<1>2. ClientInv /\ [Next]_vars => ClientInv'
  BY StepKeeps
<1> QED BY <1>1, <1>2, PTL DEF Spec

(* Every variable of the client stays in its domain: attempts are counted up *)
(* to callAttempts, the pool never holds more than maxIdleConns.             *)
THEOREM TypeCorrect == Spec => []TypeOK
<1>1. ClientInv => TypeOK
  BY DEF ClientInv
<1> QED BY <1>1, Inductive, PTL

(* A call returns the answer to its own request, whatever was on the pooled  *)
(* connection before, and only after the request was executed.               *)
THEOREM AnswersOwn == Spec => []OwnAnswer
<1>1. ClientInv => OwnAnswer
  BY DEF ClientInv, RunInv
<1> QED BY <1>1, Inductive, PTL

(* The function of a context that ended closes no connection that another    *)
(* call holds meanwhile.                                                     *)
THEOREM NoneClosedByOthers == Spec => []NoForeignClose
<1>1. ClientInv => NoForeignClose
  BY DEF ClientInv, CloseInv, NoForeignClose
<1> QED BY <1>1, Inductive, PTL

(* Each connection open here is held by exactly one call or is in the pool   *)
(* exactly once.                                                             *)
THEOREM NothingLeaked == Spec => []NoneLeaked
<1>1. ClientInv => NoneLeaked
  BY OneHolder
<1> QED BY <1>1, Inductive, PTL

(* A request is executed at most once more often than connections dropped    *)
(* under its call.                                                           *)
THEOREM RepeatsNeedDrops == Spec => []RepeatedOnlyWhenDropped
<1>1. ClientInv => RepeatedOnlyWhenDropped
  BY DEF ClientInv, RunInv, RepeatedOnlyWhenDropped
<1> QED BY <1>1, Inductive, PTL
============================================================================
