------------------------------ MODULE Daemon ------------------------------
(* The daemons of one data directory: which process serves the unix socket,  *)
(* its listener, its accept goroutine and handlers, and how Stop and Close   *)
(* end them (src/core/daemon/daemon.go, socket.go).                          *)
(*                                                                           *)
(* A listener is <<p, i>>, the i-th one of process p. The path of the socket *)
(* leads to the listener bound to it last; connecting to a path whose        *)
(* listener is closed is refused. Early returns that change nothing (Start   *)
(* of a client, of a daemon that listens, ErrAlreadyRunning) are stutters.   *)
EXTENDS Naturals

CONSTANTS
  Procs,       \* processes that open the directory
  Callers,     \* goroutines of a process that call Start, Stop and Close
  Conns,       \* connections, used again once closed
  MaxListens,  \* bound: listeners each process opens
  Nil          \* no listener, no lock holder, no connection

ASSUME ListensAssumption == MaxListens \in [Procs -> Nat]
ASSUME NilAssumption == Nil \notin Conns /\ Nil \notin Callers /\ Nil \notin Nat
ASSUME ConnsAssumption == Conns \cap {"off", "accept", "done"} = {}

Listener == UNION {{p} \X (1 .. MaxListens[p]) : p \in Procs}
ASSUME NilNoListener == Nil \notin Listener

CallStep == {"idle", "remove", "listen",                            \* Start
             "unlink", "shut", "await", "cut", "wait", "store"}     \* Stop, Close
Call == [op : {"start", "stop", "close"}, at : CallStep, lis : Listener \cup {Nil}]

VARIABLES
  mode,     \* d.mode, "none" while the process has no Daemon
  store,    \* d.torii
  lis,      \* d.listener
  lock,     \* the caller that holds d.mu from one step to another
  conns,    \* d.conns
  call,     \* what each caller is doing
  opened,   \* listeners opened so far
  sock,     \* the listener the path of the socket leads to
  live,     \* listeners that are open
  acc,      \* accept goroutines: "off", "accept", the connection just accepted, "done"
  link,     \* connections: "free", "queued" at a listener, "up", "cut"
  to,       \* the listener each is connected to
  handler,  \* serve goroutines: "off", "read", "dispatch", "exit"
  raced     \* history: two Starts were between probe and listen at once

daemon == <<mode, store, lis, lock, conns, call, opened>>
sockets == <<sock, live, acc>>
links == <<link, to, handler>>
vars == <<mode, store, lis, lock, conns, call, opened, sock, live, acc, link, to,
          handler, raced>>

(* probeSocket: somebody accepts connections at the path. Its own connection *)
(* is closed at once, like one that is dialled and falls silent.             *)
Probed == sock # Nil /\ sock \in live

Handled(p) == {c \in Conns : handler[c] # "off" /\ to[c][1] = p}
IdleCall == [op |-> "stop", at |-> "idle", lis |-> Nil]
---------------------------------------------------------------------------
Init ==
  /\ mode = [p \in Procs |-> "none"] /\ store = [p \in Procs |-> "none"]
  /\ lis = [p \in Procs |-> Nil] /\ lock = [p \in Procs |-> Nil]
  /\ conns = [p \in Procs |-> {}]
  /\ call = [p \in Procs |-> [g \in Callers |-> IdleCall]]
  /\ opened = [p \in Procs |-> 0]
  /\ sock = Nil /\ live = {} /\ acc = [l \in Listener |-> "off"]
  /\ link = [c \in Conns |-> "free"] /\ to = [c \in Conns |-> Nil]
  /\ handler = [c \in Conns |-> "off"]
  /\ raced = FALSE

(* New: a client if the socket is live, else a server with its own store.    *)
New(p) ==
  /\ mode[p] = "none"
  /\ mode' = [mode EXCEPT ![p] = IF Probed THEN "client" ELSE "server"]
  /\ store' = [store EXCEPT ![p] = IF Probed THEN "none" ELSE "open"]
  /\ UNCHANGED <<lis, lock, conns, call, opened, raced>> /\ UNCHANGED sockets /\ UNCHANGED links

At(p, g, step) == call[p][g].at = step
Goto(p, g, step) == call' = [call EXCEPT ![p][g].at = step]
Return(p, g) == call' = [call EXCEPT ![p][g] = IdleCall]

(* Start: probe, remove what is at the path and listen, all under d.mu.      *)
Starting(p) == \E g \in Callers : At(p, g, "remove") \/ At(p, g, "listen")

BeginStart(p, g, holder) ==
  /\ mode[p] = "server" /\ store[p] = "open" /\ At(p, g, "idle")
  /\ lock[p] = Nil /\ lis[p] = Nil /\ opened[p] < MaxListens[p]
  /\ lock' = [lock EXCEPT ![p] = holder]
  /\ call' = [call EXCEPT ![p][g] = [op |-> "start", at |-> "remove", lis |-> Nil]]
  /\ raced' = (raced \/ \E q \in Procs : Starting(q))
  /\ UNCHANGED <<mode, store, lis, conns, opened>> /\ UNCHANGED sockets /\ UNCHANGED links

StartProbeUnlocked(p, g) == ~Probed /\ BeginStart(p, g, Nil)   \* mutant: without d.mu

StartProbe(p, g) == ~Probed /\ BeginStart(p, g, g)

StartRemove(p, g) ==
  /\ At(p, g, "remove") /\ Goto(p, g, "listen")
  /\ sock' = Nil
  /\ UNCHANGED <<mode, store, lis, lock, conns, opened, live, acc, raced>> /\ UNCHANGED links

StartListen(p, g) ==
  LET l == <<p, opened[p] + 1>>
  IN  /\ At(p, g, "listen") /\ Return(p, g)
      /\ lock' = [lock EXCEPT ![p] = Nil]
      /\ IF sock # Nil
         THEN UNCHANGED <<lis, conns, opened, sock, live, acc>>
         ELSE /\ lis' = [lis EXCEPT ![p] = l]
              /\ conns' = [conns EXCEPT ![p] = {}]
              /\ opened' = [opened EXCEPT ![p] = @ + 1]
              /\ sock' = l /\ live' = live \cup {l}
              /\ acc' = [acc EXCEPT ![l] = "accept"]
      /\ UNCHANGED <<mode, store, raced>> /\ UNCHANGED links
---------------------------------------------------------------------------
(* accept *)
Dial(c) ==
  /\ link[c] = "free" /\ Probed
  /\ link' = [link EXCEPT ![c] = "queued"] /\ to' = [to EXCEPT ![c] = sock]
  /\ UNCHANGED <<handler, raced>> /\ UNCHANGED daemon /\ UNCHANGED sockets

Accept(l, c) ==
  /\ acc[l] = "accept" /\ l \in live /\ link[c] = "queued" /\ to[c] = l
  /\ acc' = [acc EXCEPT ![l] = c] /\ link' = [link EXCEPT ![c] = "up"]
  /\ UNCHANGED <<sock, live, to, handler, raced>> /\ UNCHANGED daemon

AcceptFails(l) ==
  /\ acc[l] = "accept" /\ l \notin live
  /\ acc' = [acc EXCEPT ![l] = "done"]
  /\ UNCHANGED <<sock, live, raced>> /\ UNCHANGED daemon /\ UNCHANGED links

(* Under d.mu: a connection accepted from the listener the daemon no longer   *)
(* has is closed, and the goroutine ends.                                    *)
Register(l, c) ==
  LET p == l[1]
  IN  /\ acc[l] = c /\ lock[p] = Nil
      /\ IF lis[p] = l
         THEN /\ conns' = [conns EXCEPT ![p] = @ \cup {c}]
              /\ handler' = [handler EXCEPT ![c] = "read"]
              /\ acc' = [acc EXCEPT ![l] = "accept"]
              /\ UNCHANGED <<link, to>>
         ELSE /\ acc' = [acc EXCEPT ![l] = "done"]
              /\ link' = [link EXCEPT ![c] = "free"] /\ to' = [to EXCEPT ![c] = Nil]
              /\ UNCHANGED <<conns, handler>>
      /\ UNCHANGED <<mode, store, lis, lock, call, opened, sock, live, raced>>
---------------------------------------------------------------------------
(* serve *)
Handling(c, step, next) ==
  /\ handler[c] = step /\ handler' = [handler EXCEPT ![c] = next]
  /\ UNCHANGED <<link, to, raced>> /\ UNCHANGED daemon /\ UNCHANGED sockets

ReadRequest(c) == link[c] = "up" /\ Handling(c, "read", "dispatch")
ReadFails(c) == link[c] = "cut" /\ Handling(c, "read", "exit")

(* The peer has hung up, or has sent nothing for readTimeout.                *)
PeerSilent(c) == link[c] = "up" /\ Handling(c, "read", "exit")

(* dispatch, then the response: it may not reach a peer that has gone or     *)
(* does not read.                                                            *)
Respond(c) == link[c] = "up" /\ Handling(c, "dispatch", "read")
RespondFails(c) == Handling(c, "dispatch", "exit")

(* The deferred function: the connection is closed and leaves d.conns.       *)
ServeEnds(c) ==
  LET p == to[c][1]
  IN  /\ handler[c] = "exit" /\ lock[p] = Nil
      /\ handler' = [handler EXCEPT ![c] = "off"]
      /\ conns' = [conns EXCEPT ![p] = @ \ {c}]
      /\ link' = [link EXCEPT ![c] = "free"] /\ to' = [to EXCEPT ![c] = Nil]
      /\ UNCHANGED <<mode, store, lis, lock, call, opened, raced>> /\ UNCHANGED sockets
---------------------------------------------------------------------------
(* Stop, and Close, which is Stop and then the end of the store.             *)
Detach(p, g, op) ==
  /\ mode[p] = "server" /\ store[p] = "open" /\ At(p, g, "idle") /\ lock[p] = Nil
  /\ IF lis[p] # Nil
     THEN call' = [call EXCEPT ![p][g] = [op |-> op, at |-> "unlink", lis |-> lis[p]]]
     ELSE op = "close" /\ call' = [call EXCEPT ![p][g] = [op |-> op, at |-> "store", lis |-> Nil]]
  /\ lis' = [lis EXCEPT ![p] = Nil]
  /\ UNCHANGED <<mode, store, lock, conns, opened, raced>> /\ UNCHANGED sockets /\ UNCHANGED links

(* listener.Close unlinks the path, whatever it leads to, and then closes:   *)
(* connections nobody accepted are reset, and Accept returns an error.       *)
Unlink == sock' = Nil /\ UNCHANGED <<live, acc, link, to>>

Shut(l) ==
  /\ live' = live \ {l}
  /\ LET lost == {c \in Conns : link[c] = "queued" /\ to[c] = l}
     IN  /\ link' = [c \in Conns |-> IF c \in lost THEN "free" ELSE link[c]]
         /\ to' = [c \in Conns |-> IF c \in lost THEN Nil ELSE to[c]]
  /\ UNCHANGED <<sock, acc>>

StopCloseSwapped(p, g) ==   \* mutant: closes first, then unlinks
  /\ \/ At(p, g, "unlink") /\ Goto(p, g, "shut") /\ Shut(call[p][g].lis)
     \/ At(p, g, "shut") /\ Goto(p, g, "await") /\ Unlink
  /\ UNCHANGED <<mode, store, lis, lock, conns, opened, handler, raced>>

StopClose(p, g) ==
  /\ \/ At(p, g, "unlink") /\ Goto(p, g, "shut") /\ Unlink
     \/ At(p, g, "shut") /\ Goto(p, g, "await") /\ Shut(call[p][g].lis)
  /\ UNCHANGED <<mode, store, lis, lock, conns, opened, handler, raced>>

StopAwaitNot(p, g) ==       \* mutant: does not wait for the accept goroutine
  /\ At(p, g, "await") /\ Goto(p, g, "cut")
  /\ UNCHANGED <<mode, store, lis, lock, conns, opened, raced>> /\ UNCHANGED sockets /\ UNCHANGED links

StopAwait(p, g) ==
  /\ At(p, g, "await") /\ acc[call[p][g].lis] = "done" /\ Goto(p, g, "cut")
  /\ UNCHANGED <<mode, store, lis, lock, conns, opened, raced>> /\ UNCHANGED sockets /\ UNCHANGED links

StopCutNone(p, g) ==        \* mutant: closes no connection
  /\ At(p, g, "cut") /\ lock[p] = Nil /\ Goto(p, g, "wait")
  /\ UNCHANGED <<mode, store, lis, lock, conns, opened, raced>> /\ UNCHANGED sockets /\ UNCHANGED links

StopCut(p, g) ==
  /\ At(p, g, "cut") /\ lock[p] = Nil /\ Goto(p, g, "wait")
  /\ link' = [c \in Conns |-> IF c \in conns[p] THEN "cut" ELSE link[c]]
  /\ UNCHANGED <<mode, store, lis, lock, conns, opened, to, handler, raced>> /\ UNCHANGED sockets

StopReturns(p, g) ==
  /\ At(p, g, "wait")
  /\ IF call[p][g].op = "close" THEN Goto(p, g, "store") ELSE Return(p, g)
  /\ UNCHANGED <<mode, store, lis, lock, conns, opened, raced>> /\ UNCHANGED sockets /\ UNCHANGED links

StopWaitNot(p, g) == StopReturns(p, g)         \* mutant: no wg.Wait

StopWait(p, g) == Handled(p) = {} /\ StopReturns(p, g)

CloseStore(p, g) ==
  /\ At(p, g, "store") /\ Return(p, g)
  /\ store' = [store EXCEPT ![p] = "closed"]
  /\ UNCHANGED <<mode, lis, lock, conns, opened, raced>> /\ UNCHANGED sockets /\ UNCHANGED links

(* The process ends, killed or not: the kernel closes what it had open, the  *)
(* path of the socket stays.                                                 *)
Exit(p) ==
  LET lost == {c \in Conns : to[c] # Nil /\ to[c][1] = p}
  IN  /\ mode[p] # "none"
      /\ mode' = [mode EXCEPT ![p] = "none"] /\ store' = [store EXCEPT ![p] = "none"]
      /\ lis' = [lis EXCEPT ![p] = Nil] /\ lock' = [lock EXCEPT ![p] = Nil]
      /\ conns' = [conns EXCEPT ![p] = {}]
      /\ call' = [call EXCEPT ![p] = [g \in Callers |-> IdleCall]]
      /\ live' = {l \in live : l[1] # p}
      /\ acc' = [l \in Listener |-> IF l[1] = p THEN "off" ELSE acc[l]]
      /\ link' = [c \in Conns |-> IF c \in lost THEN "free" ELSE link[c]]
      /\ to' = [c \in Conns |-> IF c \in lost THEN Nil ELSE to[c]]
      /\ handler' = [c \in Conns |-> IF c \in lost THEN "off" ELSE handler[c]]
      /\ UNCHANGED <<opened, sock, raced>>
---------------------------------------------------------------------------
Calling(p, g) ==
  \/ StartRemove(p, g) \/ StartListen(p, g)
  \/ StopClose(p, g) \/ StopAwait(p, g) \/ StopCut(p, g) \/ StopWait(p, g)
  \/ CloseStore(p, g)

Accepting(l) == (\E c \in Conns : Accept(l, c) \/ Register(l, c)) \/ AcceptFails(l)

Serving(c) == ReadFails(c) \/ Respond(c) \/ RespondFails(c) \/ ServeEnds(c)

Next ==
  \/ \E p \in Procs : New(p)
  \/ \E p \in Procs, g \in Callers : StartProbe(p, g)
  \/ \E p \in Procs, g \in Callers, op \in {"stop", "close"} : Detach(p, g, op)
  \/ \E p \in Procs, g \in Callers : Calling(p, g)
  \/ \E l \in Listener : Accepting(l)
  \/ \E c \in Conns : Dial(c)
  \/ \E c \in Conns : ReadRequest(c)
  \/ \E c \in Conns : PeerSilent(c)
  \/ \E c \in Conns : Serving(c)
  \/ \E p \in Procs : Exit(p)

(* Goroutines that can run do; nothing makes a peer send or hang up, and the *)
(* read timeout is not needed.                                               *)
Fairness ==
  /\ \A p \in Procs, g \in Callers : WF_vars(Calling(p, g))
  /\ \A l \in Listener : WF_vars(Accepting(l))
  /\ \A c \in Conns : WF_vars(Serving(c))

Spec == Init /\ [][Next]_vars /\ Fairness
---------------------------------------------------------------------------
(* Every variable stays in its domain; a lock held is held by a Start.       *)
TypeOK ==
  /\ mode \in [Procs -> {"none", "server", "client"}]
  /\ store \in [Procs -> {"none", "open", "closed"}]
  /\ lis \in [Procs -> Listener \cup {Nil}] /\ lock \in [Procs -> Callers \cup {Nil}]
  /\ conns \in [Procs -> SUBSET Conns] /\ call \in [Procs -> [Callers -> Call]]
  /\ opened \in [Procs -> Nat] /\ \A p \in Procs : opened[p] <= MaxListens[p]
  /\ sock \in Listener \cup {Nil} /\ live \subseteq Listener
  /\ acc \in [Listener -> {"off", "accept", "done"} \cup Conns]
  /\ link \in [Conns -> {"free", "queued", "up", "cut"}]
  /\ to \in [Conns -> Listener \cup {Nil}]
  /\ handler \in [Conns -> {"off", "read", "dispatch", "exit"}]
  /\ raced \in BOOLEAN
  /\ \A c \in Conns : link[c] = "free" <=> to[c] = Nil
  /\ \A p \in Procs : Starting(p) <=> lock[p] # Nil

(* As long as no two Starts overlapped, a daemon that listens is the only    *)
(* one and the path leads to it: neither the removal of a stale socket, nor  *)
(* the unlinking by a Stop, nor a crash takes the socket of another daemon.  *)
ServerReachable ==
  ~raced => \A p \in Procs : lis[p] # Nil =>
    /\ sock = lis[p] /\ sock \in live
    /\ \A q \in Procs \ {p} : lis[q] = Nil

(* Close closes the store after the last handler has ended: no request runs  *)
(* on a closed store.                                                        *)
HandlersBeforeClose == \A p \in Procs : store[p] = "closed" => Handled(p) = {}

(* When Stop has waited, nothing of the listener it stopped is left: it is   *)
(* closed, and so is every connection it accepted.                           *)
StopLeavesNothing ==
  [][\A p \in Procs, g \in Callers :
       At(p, g, "wait") /\ call'[p][g].at \in {"idle", "store"} /\ mode'[p] # "none" =>
         LET l == call[p][g].lis IN l \notin live /\ \A c \in Conns : to[c] # l]_vars

(* A Stop or Close that has begun returns, although no client hangs up and   *)
(* no read times out.                                                        *)
StopEnds ==
  \A p \in Procs, g \in Callers :
    call[p][g].at \in {"unlink", "shut", "await", "cut", "wait", "store"} ~> At(p, g, "idle")
============================================================================
