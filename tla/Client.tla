------------------------------ MODULE Client ------------------------------
(* A daemon in client mode: its calls, the connections it pools, and what    *)
(* becomes of a request whose connection drops (src/core/daemon/client.go),  *)
(* with the other end of each connection as serve treats it (daemon.go).     *)
(*                                                                           *)
(* A call has one request and is known by it. Connections are numbered by a  *)
(* finite set; one is used again when both of its ends are gone. The age of  *)
(* an idle connection is left to chance: take may find any of them stale.    *)
EXTENDS Naturals, Sequences, FiniteSets

CONSTANTS
  Calls,         \* calls made, each with its request
  Conns,         \* connections
  maxIdleConns,
  callAttempts,
  Nil            \* no connection, no request, no answer

ASSUME AttemptsAssumption == callAttempts \in Nat \ {0}
ASSUME IdleAssumption == maxIdleConns \in Nat
ASSUME NilAssumption == Nil \notin Calls /\ Nil \notin Conns

(* An answer is that of a request; failed, it is an error or a frame that the *)
(* end of the daemon cut short: in both cases the connection is given up.    *)
Answer == [to : Calls, failed : BOOLEAN]
Result == {"none", "ok", "remote", "context", "timeout", "dropped", "dial", "closed"}

VARIABLES
  at,      \* calls: "new", "dial", "send", "recv", "done"
  conn,    \* the connection a call holds
  fresh,   \* it was dialled, not taken from the pool
  tries,   \* attempts over
  ctx,     \* the context of the call has ended
  result,  \* how the call ended
  idle,    \* c.idle, a stack
  near,    \* our end: "gone", "open", "closed" (closed while a call holds it)
  far,     \* the other end: "gone", "read", "respond"
  doomed,  \* connections whose AfterFunc has started and will close them
  asked,   \* the request written and not yet read at the other end
  answer,  \* the answer written there and not yet read here
  up,      \* a daemon listens
  ran,     \* history: how often each request was executed
  lost,    \* history: connections that dropped under each call
  got      \* history: the request whose answer a call returned

caller == <<at, conn, fresh, tries, ctx, result, got, lost>>
wire == <<near, far, doomed, asked, answer>>
vars == <<at, conn, fresh, tries, ctx, result, idle, near, far, doomed, asked, answer,
          up, ran, lost, got>>

Free(k) == near[k] = "gone" /\ far[k] = "gone"
InPool(k) == \E i \in 1 .. Len(idle) : idle[i] = k
Holders(k) == {c \in Calls : conn[c] = k}
---------------------------------------------------------------------------
Init ==
  /\ at = [c \in Calls |-> "new"] /\ conn = [c \in Calls |-> Nil]
  /\ fresh = [c \in Calls |-> FALSE] /\ tries = [c \in Calls |-> 0]
  /\ ctx = [c \in Calls |-> FALSE] /\ result = [c \in Calls |-> "none"]
  /\ idle = <<>>
  /\ near = [k \in Conns |-> "gone"] /\ far = [k \in Conns |-> "gone"]
  /\ doomed = {} /\ asked = [k \in Conns |-> Nil] /\ answer = [k \in Conns |-> Nil]
  /\ up \in BOOLEAN
  /\ ran = [c \in Calls |-> 0] /\ lost = [c \in Calls |-> 0] /\ got = [c \in Calls |-> Nil]

(* Our end of the connections ks is closed: what was not read is lost here,  *)
(* a request already written may still be read at the other end.             *)
CloseAll(ks) ==
  /\ near' = [k \in Conns |-> IF k \in ks THEN "gone" ELSE near[k]]
  /\ answer' = [k \in Conns |-> IF k \in ks THEN Nil ELSE answer[k]]
  /\ doomed' = doomed \ ks

Hold(c, k, dialled) ==
  /\ at' = [at EXCEPT ![c] = "send"] /\ conn' = [conn EXCEPT ![c] = k]
  /\ fresh' = [fresh EXCEPT ![c] = dialled]

Done(c, r) ==
  /\ at' = [at EXCEPT ![c] = "done"] /\ result' = [result EXCEPT ![c] = r]
  /\ conn' = [conn EXCEPT ![c] = Nil]

(* take: idle connections are tried from the last one put back, and closed   *)
(* if stale; i is where the search ends, 0 if all were stale.                *)
Take(c, i) ==
  LET stale == {idle[j] : j \in (i + 1) .. Len(idle)}
  IN  /\ at[c] = "new" /\ i <= Len(idle)
      /\ near' = [k \in Conns |-> IF k \in stale THEN "gone" ELSE near[k]]
      /\ IF i = 0
         THEN /\ at' = [at EXCEPT ![c] = "dial"] /\ idle' = <<>>
              /\ UNCHANGED <<conn, fresh, doomed>>
         ELSE /\ Hold(c, idle[i], FALSE) /\ idle' = SubSeq(idle, 1, i - 1)
              /\ doomed' = IF ctx[c] THEN doomed \cup {idle[i]} ELSE doomed
      /\ UNCHANGED <<tries, ctx, result, far, asked, answer, up, ran, lost, got>>

(* dial, and before a second attempt the backoff, which a context that has   *)
(* ended may cut short.                                                      *)
Dial(c, k) ==
  /\ at[c] = "dial" /\ up /\ ~ctx[c] /\ Free(k)
  /\ Hold(c, k, TRUE)
  /\ near' = [near EXCEPT ![k] = "open"] /\ far' = [far EXCEPT ![k] = "read"]
  /\ UNCHANGED <<tries, ctx, result, idle, doomed, asked, answer, up, ran, lost, got>>

DialFails(c) ==
  /\ at[c] = "dial" /\ (~up \/ ctx[c])
  /\ tries' = [tries EXCEPT ![c] = @ + 1]
  /\ IF tries[c] + 1 = callAttempts THEN Done(c, "dial") ELSE UNCHANGED <<at, result, conn>>
  /\ UNCHANGED <<fresh, ctx, idle, up, ran, lost, got>> /\ UNCHANGED wire

BackoffEnds(c) ==
  /\ at[c] = "dial" /\ ctx[c] /\ tries[c] > 0
  /\ Done(c, "context")
  /\ UNCHANGED <<fresh, tries, ctx, idle, up, ran, lost, got>> /\ UNCHANGED wire
---------------------------------------------------------------------------
(* exchange *)
Send(c) ==
  LET k == conn[c]
  IN  /\ at[c] = "send" /\ near[k] = "open" /\ far[k] # "gone"
      /\ at' = [at EXCEPT ![c] = "recv"] /\ asked' = [asked EXCEPT ![k] = c]
      /\ UNCHANGED <<conn, fresh, tries, ctx, result, idle, near, far, doomed, answer, up,
                     ran, lost, got>>

(* put: a connection that may be used again goes back, unless the pool is    *)
(* full. It may if stop() came before the context's function started.        *)
PutLeaks(k, reusable) ==    \* mutant: a connection that finds the pool full is forgotten
  IF reusable
  THEN /\ idle' = IF Len(idle) < maxIdleConns THEN Append(idle, k) ELSE idle
       /\ answer' = [answer EXCEPT ![k] = Nil] /\ UNCHANGED <<near, doomed>>
  ELSE UNCHANGED idle /\ CloseAll({k})

PutAlways(k, reusable) ==   \* mutant: no limit
  IF reusable
  THEN idle' = Append(idle, k) /\ answer' = [answer EXCEPT ![k] = Nil] /\ UNCHANGED <<near, doomed>>
  ELSE UNCHANGED idle /\ CloseAll({k})

Put(k, reusable) ==
  IF reusable /\ Len(idle) < maxIdleConns
  THEN idle' = Append(idle, k) /\ answer' = [answer EXCEPT ![k] = Nil] /\ UNCHANGED <<near, doomed>>
  ELSE UNCHANGED idle /\ CloseAll({k})

ReusableAnyway(k) == TRUE   \* mutant: err == nil, whatever stop() says
Reusable(k) == k \notin doomed

Recv(c) ==
  LET k == conn[c]
      a == answer[k]
  IN  /\ at[c] = "recv" /\ near[k] = "open" /\ a # Nil
      /\ got' = [got EXCEPT ![c] = a.to]
      /\ IF a.failed THEN Done(c, "remote") /\ UNCHANGED idle /\ CloseAll({k})
                     ELSE Done(c, "ok") /\ Put(k, Reusable(k))
      /\ UNCHANGED <<fresh, tries, ctx, far, asked, up, ran, lost>>

(* Anything else that goes wrong closes the connection. An exchange whose    *)
(* connection was closed by AfterFunc, or whose context ended, is not tried  *)
(* again; one whose deadline passed is not either.                           *)
Fail(c, r) ==
  /\ Done(c, r) /\ CloseAll({conn[c]})
  /\ UNCHANGED <<fresh, tries, ctx, idle, far, asked, up, ran, lost, got>>

TimeoutPooled(c) ==         \* mutant: put back although the answer is outstanding
  /\ at[c] \in {"send", "recv"} /\ near[conn[c]] = "open"
  /\ Done(c, "timeout") /\ Put(conn[c], conn[c] \notin doomed)
  /\ UNCHANGED <<fresh, tries, ctx, far, asked, up, ran, lost, got>>

TimeoutOnWrite(c) == at[c] = "send" /\ Fail(c, "timeout")   \* mutant: no deadline for the read

Timeout(c) == at[c] \in {"send", "recv"} /\ Fail(c, "timeout")

ClosedUnder(c) ==
  /\ at[c] \in {"send", "recv"} /\ near[conn[c]] = "closed"
  /\ Fail(c, IF ctx[c] THEN "context" ELSE "closed")

(* EOF, EPIPE or ECONNRESET: the other end has gone.                         *)
Dropping(c) ==
  LET k == conn[c]
  IN  /\ at[c] \in {"send", "recv"} /\ near[k] = "open"
      /\ far[k] = "gone" /\ answer[k] = Nil

DroppedAfterEnd(c) == Dropping(c) /\ ctx[c] /\ Fail(c, "context")

(* A reused connection that drops is replaced, a dialled one uses up an      *)
(* attempt.                                                                  *)
Resend(c) ==
  /\ tries' = [tries EXCEPT ![c] = IF fresh[c] THEN @ + 1 ELSE @]
  /\ IF tries'[c] = callAttempts
     THEN Done(c, "dropped")
     ELSE /\ at' = [at EXCEPT ![c] = "dial"] /\ conn' = [conn EXCEPT ![c] = Nil]
          /\ UNCHANGED result
  /\ CloseAll({conn[c]})
  /\ UNCHANGED <<fresh, ctx, idle, far, asked, up, ran, got>>

DroppedOrLate(c) ==         \* mutant: a deadline that passes counts as dropped
  /\ Dropping(c) \/ (at[c] = "recv" /\ near[conn[c]] = "open")
  /\ ~ctx[c]
  /\ lost' = [lost EXCEPT ![c] = IF Dropping(c) THEN @ + 1 ELSE @]
  /\ Resend(c)

Dropped(c) ==
  /\ Dropping(c) /\ ~ctx[c]
  /\ lost' = [lost EXCEPT ![c] = @ + 1]
  /\ Resend(c)

(* The context of a call ends: AfterFunc starts a goroutine, which closes    *)
(* the connection later.                                                     *)
Cancel(c) ==
  /\ ~ctx[c] /\ at[c] # "done"
  /\ ctx' = [ctx EXCEPT ![c] = TRUE]
  /\ doomed' = IF at[c] \in {"send", "recv"} THEN doomed \cup {conn[c]} ELSE doomed
  /\ UNCHANGED <<at, conn, fresh, tries, result, idle, near, far, asked, answer, up, ran,
                 lost, got>>

AfterFunc(k) ==
  /\ k \in doomed /\ doomed' = doomed \ {k}
  /\ near' = [near EXCEPT ![k] = "closed"] /\ answer' = [answer EXCEPT ![k] = Nil]
  /\ UNCHANGED <<idle, far, asked, up, ran>> /\ UNCHANGED caller

(* close of the client: calls under way go on. *)
CloseIdle ==
  /\ idle # <<>> /\ idle' = <<>> /\ CloseAll({k \in Conns : InPool(k)})
  /\ UNCHANGED <<far, asked, up, ran>> /\ UNCHANGED caller
---------------------------------------------------------------------------
(* The other end. *)
Execute(k) ==
  /\ far[k] = "read" /\ asked[k] # Nil
  /\ far' = [far EXCEPT ![k] = "respond"]
  /\ ran' = [ran EXCEPT ![asked[k]] = @ + 1]
  /\ UNCHANGED <<near, doomed, asked, answer, idle, up>> /\ UNCHANGED caller

Respond(k, failed) ==
  /\ far[k] = "respond" /\ near[k] = "open"
  /\ far' = [far EXCEPT ![k] = "read"] /\ asked' = [asked EXCEPT ![k] = Nil]
  /\ answer' = [answer EXCEPT ![k] = [to |-> asked[k], failed |-> failed]]
  /\ UNCHANGED <<near, doomed, idle, up, ran>> /\ UNCHANGED caller

(* The handler ends: our end is closed, the read timed out, Stop, a crash.   *)
Hangup(k) ==
  /\ far[k] # "gone"
  /\ far' = [far EXCEPT ![k] = "gone"] /\ asked' = [asked EXCEPT ![k] = Nil]
  /\ UNCHANGED <<near, doomed, answer, idle, up, ran>> /\ UNCHANGED caller

Listening ==
  /\ up' = ~up
  /\ UNCHANGED <<idle, ran>> /\ UNCHANGED caller /\ UNCHANGED wire
---------------------------------------------------------------------------
Calling(c) ==
  \/ \E i \in 0 .. maxIdleConns : Take(c, i)
  \/ \E k \in Conns : Dial(c, k)
  \/ DialFails(c)
  \/ BackoffEnds(c)
  \/ Send(c)
  \/ Recv(c)
  \/ Timeout(c)
  \/ ClosedUnder(c)
  \/ DroppedAfterEnd(c)
  \/ Dropped(c)

Next ==
  \/ \E c \in Calls : Calling(c)
  \/ \E c \in Calls : Cancel(c)
  \/ \E k \in Conns : AfterFunc(k)
  \/ CloseIdle
  \/ \E k \in Conns : Execute(k)
  \/ \E k \in Conns, failed \in BOOLEAN : Respond(k, failed)
  \/ \E k \in Conns : Hangup(k)
  \/ Listening

(* Every exchange has a deadline and every wait a bound, so a call under way *)
(* takes steps; the other end need not do anything.                          *)
Spec == Init /\ [][Next]_vars /\ \A c \in Calls : WF_vars(Calling(c))
---------------------------------------------------------------------------
(* Every variable stays in its domain.                                       *)
TypeOK ==
  /\ at \in [Calls -> {"new", "dial", "send", "recv", "done"}]
  /\ conn \in [Calls -> Conns \cup {Nil}] /\ fresh \in [Calls -> BOOLEAN]
  /\ tries \in [Calls -> 0 .. callAttempts] /\ ctx \in [Calls -> BOOLEAN]
  /\ result \in [Calls -> Result]
  /\ idle \in Seq(Conns) /\ Len(idle) <= maxIdleConns
  /\ near \in [Conns -> {"gone", "open", "closed"}]
  /\ far \in [Conns -> {"gone", "read", "respond"}]
  /\ doomed \subseteq Conns
  /\ asked \in [Conns -> Calls \cup {Nil}] /\ answer \in [Conns -> Answer \cup {Nil}]
  /\ up \in BOOLEAN
  /\ ran \in [Calls -> Nat] /\ lost \in [Calls -> Nat] /\ got \in [Calls -> Calls \cup {Nil}]
  /\ \A c \in Calls : at[c] \in {"send", "recv"} <=> conn[c] # Nil

(* A call returns the answer to its own request, never one left on a pooled  *)
(* connection by another call, and the request was executed.                 *)
OwnAnswer == \A c \in Calls : got[c] # Nil => got[c] = c /\ ran[c] > 0

(* A call finds its connection closed on its own side only when its own      *)
(* context ended: the function of another call's context never closes it.    *)
NoForeignClose == \A c \in Calls : result[c] # "closed"

(* Every connection open here is held by one call or is in the pool once, so *)
(* that something will close it.                                             *)
NoneLeaked ==
  \A k \in Conns : near[k] # "gone" =>
    Cardinality(Holders(k)) + Cardinality({i \in 1 .. Len(idle) : idle[i] = k}) = 1

(* A request is executed again only after a connection dropped under its     *)
(* call, never because an answer was late.                                   *)
RepeatedOnlyWhenDropped == \A c \in Calls : ran[c] <= lost[c] + 1

(* Every call returns, also when nothing answers.                            *)
CallsReturn == \A c \in Calls : <>(at[c] = "done")
============================================================================
