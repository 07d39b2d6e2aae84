--------------------------- MODULE DaemonProofs ---------------------------
(* Theorems about Daemon, for any number of processes, callers, connections  *)
(* and listeners: the variables stay in their domains, a daemon that listens *)
(* is reachable at the socket as long as no two Starts overlapped, and its   *)
(* end leaves nothing behind.                                                *)
EXTENDS Daemon, TLAPS

(* The domains of the variables, one by one.                                 *)
Processes ==
  /\ mode \in [Procs -> {"none", "server", "client"}]
  /\ store \in [Procs -> {"none", "open", "closed"}]
  /\ lis \in [Procs -> Listener \cup {Nil}] /\ lock \in [Procs -> Callers \cup {Nil}]
  /\ conns \in [Procs -> SUBSET Conns] /\ call \in [Procs -> [Callers -> Call]]
  /\ opened \in [Procs -> Nat] /\ \A p \in Procs : opened[p] <= MaxListens[p]
  /\ \A p \in Procs : lock[p] # Nil => opened[p] < MaxListens[p]

Sockets ==
  /\ sock \in Listener \cup {Nil} /\ live \subseteq Listener
  /\ acc \in [Listener -> {"off", "accept", "done"} \cup Conns]

Links ==
  /\ link \in [Conns -> {"free", "queued", "up", "cut"}]
  /\ to \in [Conns -> Listener \cup {Nil}]
  /\ handler \in [Conns -> {"off", "read", "dispatch", "exit"}]
  /\ raced \in BOOLEAN
  /\ \A c \in Conns : link[c] = "free" <=> to[c] = Nil

Begun(p, g) == At(p, g, "remove") \/ At(p, g, "listen")

(* d.mu is held across steps by a Start under way and by nobody else.        *)
LockInv == \A p \in Procs, g \in Callers : Begun(p, g) <=> lock[p] = g

(* A connection is with the accept goroutine of its listener until it is     *)
(* registered, and then with its handler.                                    *)
ConnInv ==
  /\ \A l \in Listener, c \in Conns :
       acc[l] = c => link[c] = "up" /\ to[c] = l /\ handler[c] = "off"
  /\ \A c \in Conns : handler[c] # "off" => link[c] \in {"up", "cut"}
  /\ \A p \in Procs : \A c \in conns[p] : handler[c] # "off" /\ to[c][1] = p

TypeInv == Processes /\ Sockets /\ Links /\ LockInv /\ ConnInv

LEMMA TypeInvImplies == TypeInv => TypeOK
  <1> SUFFICES ASSUME TypeInv PROVE TypeOK
    OBVIOUS
  <1>1. ASSUME NEW p \in Procs PROVE Starting(p) <=> lock[p] # Nil
    <2>1. lock[p] \in Callers \cup {Nil}
      BY DEF TypeInv, Processes
    <2> QED BY <2>1, NilAssumption DEF TypeInv, LockInv, Begun, Starting
  <1>2. \A c \in Conns : link[c] = "free" <=> to[c] = Nil
    BY DEF TypeInv, Links
  <1> QED BY <1>1, <1>2 DEF TypeInv, Processes, Sockets, Links, TypeOK
---------------------------------------------------------------------------
(* What a step of a caller does to call.                                     *)

LEMMA CallChanged ==
  ASSUME call \in [Procs -> [Callers -> Call]], NEW p \in Procs, NEW g \in Callers, NEW r \in Call,
         call' = [call EXCEPT ![p][g] = r]
  PROVE  /\ call' \in [Procs -> [Callers -> Call]]
         /\ call'[p][g] = r
         /\ \A q \in Procs, h \in Callers : q # p \/ h # g => call'[q][h] = call[q][h]
  <1> DEFINE mine == [call[p] EXCEPT ![g] = r]
  <1>1. mine \in [Callers -> Call] /\ mine[g] = r /\ \A h \in Callers : h # g => mine[h] = call[p][h]
    OBVIOUS
  <1>2. call' = [call EXCEPT ![p] = mine]
    OBVIOUS
  <1> HIDE DEF mine
  <1> QED BY <1>1, <1>2

LEMMA GotoChanges ==
  ASSUME call \in [Procs -> [Callers -> Call]], NEW p \in Procs, NEW g \in Callers,
         NEW s \in CallStep, Goto(p, g, s)
  PROVE  /\ call' \in [Procs -> [Callers -> Call]]
         /\ call'[p][g].at = s /\ call'[p][g].lis = call[p][g].lis /\ call'[p][g].op = call[p][g].op
         /\ \A q \in Procs, h \in Callers : q # p \/ h # g => call'[q][h] = call[q][h]
  <1> DEFINE r == [call[p][g] EXCEPT !.at = s]
  <1>1. call[p][g] \in Call
    OBVIOUS
  <1>2. r \in Call /\ r.at = s /\ r.lis = call[p][g].lis /\ r.op = call[p][g].op
    BY <1>1 DEF Call
  <1>3. call' = [call EXCEPT ![p][g] = r]
    BY DEF Goto
  <1> HIDE DEF r
  <1> QED BY <1>2, <1>3, CallChanged

LEMMA ReturnChanges ==
  ASSUME call \in [Procs -> [Callers -> Call]], NEW p \in Procs, NEW g \in Callers, Return(p, g)
  PROVE  /\ call' \in [Procs -> [Callers -> Call]]
         /\ call'[p][g] = IdleCall
         /\ \A q \in Procs, h \in Callers : q # p \/ h # g => call'[q][h] = call[q][h]
  <1>1. IdleCall \in Call
    BY DEF IdleCall, Call, CallStep
  <1> QED BY <1>1, CallChanged DEF Return
---------------------------------------------------------------------------
(* TypeInv is inductive. *)

LEMMA TypeInit == Init => TypeInv
  <1> SUFFICES ASSUME Init PROVE TypeInv
    OBVIOUS
  <1>1. IdleCall \in Call
    BY DEF IdleCall, Call, CallStep
  <1>2. Processes
    BY <1>1, ListensAssumption DEF Init, Processes
  <1>3. Sockets /\ Links
    BY DEF Init, Sockets, Links
  <1>4. LockInv
    BY NilAssumption DEF Init, LockInv, Begun, At, IdleCall
  <1>5. ConnInv
    BY ConnsAssumption DEF Init, ConnInv
  <1> QED BY <1>2, <1>3, <1>4, <1>5 DEF TypeInv

(* A caller that neither begins nor ends a Start leaves the lock as it is.   *)
LEMMA LockKept ==
  ASSUME LockInv, NEW p \in Procs, NEW g \in Callers, UNCHANGED lock,
         ~Begun(p, g), ~Begun(p, g)',
         \A q \in Procs, h \in Callers : q # p \/ h # g => call'[q][h] = call[q][h]
  PROVE  LockInv'
  BY DEF LockInv, Begun, At

LEMMA NewType ==
  ASSUME TypeInv, NEW p \in Procs, New(p)
  PROVE  TypeInv'
  BY DEF TypeInv, Processes, Sockets, Links, LockInv, ConnInv, Begun, At, New, sockets, links

LEMMA StartProbeType ==
  ASSUME TypeInv, NEW p \in Procs, NEW g \in Callers, StartProbe(p, g)
  PROVE  TypeInv'
  <1> DEFINE r == [op |-> "start", at |-> "remove", lis |-> Nil]
  <1>1. r \in Call /\ r.at = "remove"
    BY DEF Call, CallStep
  <1>2. /\ call' \in [Procs -> [Callers -> Call]] /\ call'[p][g].at = "remove"
        /\ \A q \in Procs, h \in Callers : q # p \/ h # g => call'[q][h] = call[q][h]
    <2> HIDE DEF r
    <2>1. call \in [Procs -> [Callers -> Call]] /\ call' = [call EXCEPT ![p][g] = r]
      BY DEF TypeInv, Processes, StartProbe, BeginStart, r
    <2> QED BY <1>1, <2>1, CallChanged
  <1>3. Processes'
    BY <1>2 DEF TypeInv, Processes, StartProbe, BeginStart
  <1>4. Sockets' /\ Links'
    BY DEF TypeInv, Sockets, Links, StartProbe, BeginStart, sockets, links
  <1>5. LockInv'
    <2>1. lock' = [lock EXCEPT ![p] = g] /\ lock[p] = Nil /\ lock \in [Procs -> Callers \cup {Nil}]
      BY DEF TypeInv, Processes, StartProbe, BeginStart
    <2>2. \A h \in Callers : ~Begun(p, h)
      BY <2>1, NilAssumption DEF TypeInv, LockInv
    <2> QED BY <1>2, <2>1, <2>2 DEF TypeInv, LockInv, Begun, At
  <1>6. ConnInv'
    BY DEF TypeInv, ConnInv, StartProbe, BeginStart, sockets, links
  <1> QED BY <1>3, <1>4, <1>5, <1>6 DEF TypeInv

LEMMA StartRemoveType ==
  ASSUME TypeInv, NEW p \in Procs, NEW g \in Callers, StartRemove(p, g)
  PROVE  TypeInv'
  <1>1. /\ call' \in [Procs -> [Callers -> Call]] /\ call'[p][g].at = "listen"
        /\ \A q \in Procs, h \in Callers : q # p \/ h # g => call'[q][h] = call[q][h]
    BY GotoChanges DEF TypeInv, Processes, StartRemove, CallStep
  <1>2. Processes' /\ Sockets' /\ Links'
    BY <1>1 DEF TypeInv, Processes, Sockets, Links, StartRemove, links
  <1>3. LockInv'
    BY <1>1 DEF TypeInv, LockInv, Begun, At, StartRemove
  <1>4. ConnInv'
    BY DEF TypeInv, ConnInv, StartRemove, links
  <1> QED BY <1>2, <1>3, <1>4 DEF TypeInv

LEMMA NewListener ==
  ASSUME Processes, NEW p \in Procs, opened[p] < MaxListens[p]
  PROVE  <<p, opened[p] + 1>> \in Listener
  <1>1. opened[p] + 1 \in 1 .. MaxListens[p]
    BY ListensAssumption DEF Processes
  <1> QED BY <1>1 DEF Listener

LEMMA StartListenType ==
  ASSUME TypeInv, NEW p \in Procs, NEW g \in Callers, StartListen(p, g)
  PROVE  TypeInv'
  <1> DEFINE l == <<p, opened[p] + 1>>
  <1>1. /\ call' \in [Procs -> [Callers -> Call]] /\ call'[p][g] = IdleCall
        /\ \A q \in Procs, h \in Callers : q # p \/ h # g => call'[q][h] = call[q][h]
    BY ReturnChanges DEF TypeInv, Processes, StartListen
  <1>2. lock[p] = g /\ lock' = [lock EXCEPT ![p] = Nil] /\ lock \in [Procs -> Callers \cup {Nil}]
    BY DEF TypeInv, Processes, LockInv, Begun, StartListen
  <1>3. opened[p] < MaxListens[p] /\ l \in Listener
    BY <1>2, NewListener, NilAssumption DEF TypeInv, Processes
  <1>4. /\ UNCHANGED <<lis, conns, opened, sock, live, acc>>
           \/ /\ lis' = [lis EXCEPT ![p] = l] /\ conns' = [conns EXCEPT ![p] = {}]
              /\ opened' = [opened EXCEPT ![p] = @ + 1]
              /\ sock' = l /\ live' = live \cup {l} /\ acc' = [acc EXCEPT ![l] = "accept"]
        /\ UNCHANGED <<mode, store, link, to, handler, raced>>
    BY DEF StartListen, links
  <1> HIDE DEF l
  <1>5. Processes'
    <2>1. /\ lis' \in [Procs -> Listener \cup {Nil}] /\ conns' \in [Procs -> SUBSET Conns]
          /\ lock' \in [Procs -> Callers \cup {Nil}]
      <3>1. lock' \in [Procs -> Callers \cup {Nil}]
        BY <1>2
      <3>2. lis \in [Procs -> Listener \cup {Nil}] /\ conns \in [Procs -> SUBSET Conns]
        BY DEF TypeInv, Processes
      <3> QED BY <1>3, <1>4, <3>1, <3>2
    <2>2. /\ opened' \in [Procs -> Nat] /\ opened'[p] \in {opened[p], opened[p] + 1}
          /\ \A q \in Procs \ {p} : opened'[q] = opened[q]
      BY <1>4 DEF TypeInv, Processes
    <2>3. \A q \in Procs : opened[q] \in Nat /\ MaxListens[q] \in Nat
      BY ListensAssumption DEF TypeInv, Processes
    <2>4. \A q \in Procs : opened'[q] <= MaxListens[q]
      BY <1>3, <2>2, <2>3 DEF TypeInv, Processes
    <2>5. ASSUME NEW q \in Procs, lock'[q] # Nil PROVE opened'[q] < MaxListens[q]
      <3>1. q # p /\ lock[q] # Nil
        BY <1>2, <2>5
      <3> QED BY <2>2, <3>1 DEF TypeInv, Processes
    <2> QED BY <1>1, <1>4, <2>1, <2>2, <2>4, <2>5 DEF TypeInv, Processes
  <1>6. Sockets' /\ Links'
    BY <1>3, <1>4 DEF TypeInv, Sockets, Links
  <1>7. LockInv'
    <2>1. ~Begun(p, g)'
      BY <1>1 DEF Begun, At, IdleCall
    <2>2. \A h \in Callers : h # g => ~Begun(p, h)'
      BY <1>1, <1>2 DEF TypeInv, LockInv, Begun, At
    <2>3. \A q \in Procs, h \in Callers : q # p => (Begun(q, h)' <=> Begun(q, h))
      BY <1>1 DEF Begun, At
    <2> QED BY <1>2, <2>1, <2>2, <2>3, NilAssumption DEF TypeInv, LockInv
  <1>8. ConnInv'
    <2>1. \A k \in Listener, c \in Conns : acc'[k] = c => acc[k] = c
      BY <1>3, <1>4, ConnsAssumption DEF TypeInv, Sockets
    <2>2. \A q \in Procs : conns'[q] \subseteq conns[q]
      BY <1>4 DEF TypeInv, Processes
    <2> QED BY <1>4, <2>1, <2>2 DEF TypeInv, ConnInv
  <1> QED BY <1>5, <1>6, <1>7, <1>8 DEF TypeInv

(* Dial, the accept goroutine and the handlers leave the callers alone.      *)
LEMMA CallersKept ==
  ASSUME Processes, LockInv, UNCHANGED <<mode, store, lis, lock, call, opened>>,
         conns' \in [Procs -> SUBSET Conns]
  PROVE  Processes' /\ LockInv'
  BY DEF Processes, LockInv, Begun, At

LEMMA DialType ==
  ASSUME TypeInv, NEW c \in Conns, Dial(c)
  PROVE  TypeInv'
  <1>1. Sockets' /\ Links'
    BY DEF TypeInv, Sockets, Links, Dial, Probed, sockets
  <1>2. ConnInv'
    BY DEF TypeInv, Links, ConnInv, Dial, sockets, daemon
  <1> QED BY <1>1, <1>2, CallersKept DEF TypeInv, Processes, Dial, daemon

LEMMA AcceptingType ==
  ASSUME TypeInv, NEW l \in Listener, Accepting(l)
  PROVE  TypeInv'
  <1>1. CASE \E c \in Conns : Accept(l, c)
    <2>1. PICK c \in Conns : Accept(l, c)
      BY <1>1
    <2>2. Sockets' /\ Links'
      BY <2>1 DEF TypeInv, Sockets, Links, Accept
    <2>3. ConnInv'
      <3>1. link[c] = "queued" /\ to[c] = l /\ handler[c] = "off"
        BY <2>1 DEF TypeInv, Links, ConnInv, Accept
      <3>2. acc' = [acc EXCEPT ![l] = c] /\ link' = [link EXCEPT ![c] = "up"]
        BY <2>1 DEF Accept
      <3>3. UNCHANGED <<to, handler, conns>>
        BY <2>1 DEF Accept, daemon
      <3> QED BY <3>1, <3>2, <3>3 DEF TypeInv, Sockets, Links, ConnInv
    <2> QED BY <2>1, <2>2, <2>3, CallersKept DEF TypeInv, Processes, Accept, daemon
  <1>2. CASE \E c \in Conns : Register(l, c)
    <2>1. PICK c \in Conns : Register(l, c)
      BY <1>2
    <2>2. Sockets' /\ Links'
      BY <2>1 DEF TypeInv, Sockets, Links, Register
    <2>3. conns' \in [Procs -> SUBSET Conns]
      BY <2>1 DEF TypeInv, Processes, Register
    <2>4. l[1] \in Procs
      BY DEF Listener
    <2>5. link[c] = "up" /\ to[c] = l /\ handler[c] = "off"
      BY <2>1 DEF TypeInv, ConnInv, Register
    <2>6. \A k \in Listener, d \in Conns : acc'[k] = d => k # l /\ acc[k] = d
      BY <2>1, ConnsAssumption DEF TypeInv, Sockets, Register
    <2>7. ASSUME lis[l[1]] = l PROVE ConnInv'
      <3>1. /\ conns' = [conns EXCEPT ![l[1]] = @ \cup {c}]
            /\ handler' = [handler EXCEPT ![c] = "read"] /\ UNCHANGED <<link, to>>
        BY <2>1, <2>7 DEF Register
      <3>2. \A d \in Conns : d # c => handler'[d] = handler[d]
        BY <3>1 DEF TypeInv, Links
      <3>3. \A k \in Listener, d \in Conns : acc'[k] = d => d # c
        BY <2>5, <2>6 DEF TypeInv, ConnInv
      <3>4. \A q \in Procs : \A d \in conns'[q] : d \in conns[q] \/ (d = c /\ q = l[1])
        BY <2>4, <3>1 DEF TypeInv, Processes
      <3>5. handler'[c] = "read"
        BY <3>1 DEF TypeInv, Links
      <3>6. \A q \in Procs : \A d \in conns[q] : d \in Conns /\ d # c
        BY <2>5 DEF TypeInv, Processes, ConnInv
      <3>7. \A k \in Listener, d \in Conns :
              acc'[k] = d => link'[d] = "up" /\ to'[d] = k /\ handler'[d] = "off"
        BY <2>6, <3>1, <3>2, <3>3 DEF TypeInv, ConnInv
      <3>8. \A d \in Conns : handler'[d] # "off" => link'[d] \in {"up", "cut"}
        BY <2>5, <3>1, <3>2 DEF TypeInv, ConnInv
      <3>9. \A q \in Procs : \A d \in conns'[q] : handler'[d] # "off" /\ to'[d][1] = q
        BY <2>5, <3>1, <3>2, <3>4, <3>5, <3>6 DEF TypeInv, ConnInv
      <3> QED BY <3>7, <3>8, <3>9 DEF ConnInv
    <2>8. ASSUME lis[l[1]] # l PROVE ConnInv'
      <3>1. /\ link' = [link EXCEPT ![c] = "free"] /\ to' = [to EXCEPT ![c] = Nil]
            /\ UNCHANGED <<conns, handler>>
        BY <2>1, <2>8 DEF Register
      <3>2. /\ \A d \in Conns : d # c => link'[d] = link[d] /\ to'[d] = to[d]
            /\ \A q \in Procs : \A d \in conns[q] : d \in Conns /\ d # c
        BY <2>5, <3>1 DEF TypeInv, Processes, Links, ConnInv
      <3>3. \A k \in Listener, d \in Conns : acc'[k] = d => d # c
        BY <2>5, <2>6 DEF TypeInv, ConnInv
      <3>4. \A k \in Listener, d \in Conns :
              acc'[k] = d => link'[d] = "up" /\ to'[d] = k /\ handler'[d] = "off"
        BY <2>6, <3>1, <3>2, <3>3 DEF TypeInv, ConnInv
      <3>5. \A d \in Conns : handler'[d] # "off" => link'[d] \in {"up", "cut"}
        BY <2>5, <3>1, <3>2 DEF TypeInv, ConnInv
      <3>6. \A q \in Procs : \A d \in conns'[q] : handler'[d] # "off" /\ to'[d][1] = q
        BY <3>1, <3>2 DEF TypeInv, ConnInv
      <3> QED BY <3>4, <3>5, <3>6 DEF ConnInv
    <2> QED BY <2>1, <2>2, <2>3, <2>7, <2>8, CallersKept DEF TypeInv, Register
  <1>3. CASE AcceptFails(l)
    <2>1. Sockets' /\ Links'
      BY <1>3 DEF TypeInv, Sockets, Links, AcceptFails, links
    <2>2. ConnInv'
      <3>1. \A k \in Listener, c \in Conns : acc'[k] = c => acc[k] = c
        BY <1>3, ConnsAssumption DEF TypeInv, Sockets, AcceptFails
      <3> QED BY <1>3, <3>1 DEF TypeInv, ConnInv, AcceptFails, daemon, links
    <2> QED BY <1>3, <2>1, <2>2, CallersKept DEF TypeInv, Processes, AcceptFails, daemon
  <1> QED BY <1>1, <1>2, <1>3 DEF Accepting

LEMMA HandlingType ==
  ASSUME TypeInv, NEW c \in Conns, NEW step \in {"read", "dispatch"},
         NEW next \in {"read", "dispatch", "exit"}, Handling(c, step, next)
  PROVE  TypeInv'
  <1>1. Sockets' /\ Links'
    BY DEF TypeInv, Sockets, Links, Handling, sockets
  <1>2. ConnInv'
    <2>1. handler' = [handler EXCEPT ![c] = next] /\ handler[c] # "off" /\ next # "off"
      BY DEF Handling
    <2>2. UNCHANGED <<acc, link, to, conns>>
      BY DEF Handling, sockets, daemon
    <2> QED BY <2>1, <2>2 DEF TypeInv, Links, ConnInv
  <1> QED BY <1>1, <1>2, CallersKept DEF TypeInv, Processes, Handling, daemon

LEMMA ServingType ==
  ASSUME TypeInv, NEW c \in Conns, ReadRequest(c) \/ PeerSilent(c) \/ Serving(c)
  PROVE  TypeInv'
  <1>1. CASE ServeEnds(c)
    <2>1. Sockets' /\ Links'
      BY <1>1 DEF TypeInv, Sockets, Links, ServeEnds, sockets
    <2>2. conns' \in [Procs -> SUBSET Conns]
      BY <1>1 DEF TypeInv, Processes, ServeEnds
    <2>3. ConnInv'
      <3>1. /\ handler[c] # "off" /\ handler' = [handler EXCEPT ![c] = "off"]
            /\ link' = [link EXCEPT ![c] = "free"] /\ to' = [to EXCEPT ![c] = Nil]
            /\ conns' = [conns EXCEPT ![to[c][1]] = @ \ {c}] /\ UNCHANGED acc
        BY <1>1 DEF ServeEnds, sockets
      <3>2. \A q \in Procs : conns'[q] \subseteq conns[q] /\ c \notin conns'[q]
        BY <3>1 DEF TypeInv, Processes, ConnInv
      <3> QED BY <3>1, <3>2 DEF TypeInv, Processes, Links, ConnInv
    <2> QED BY <1>1, <2>1, <2>2, <2>3, CallersKept DEF TypeInv, ServeEnds
  <1>2. CASE ~ServeEnds(c)
    BY <1>2, HandlingType
       DEF Serving, ReadRequest, PeerSilent, ReadFails, Respond, RespondFails
  <1> QED BY <1>1, <1>2

LEMMA DetachType ==
  ASSUME TypeInv, NEW p \in Procs, NEW g \in Callers, NEW op \in {"stop", "close"},
         Detach(p, g, op)
  PROVE  TypeInv'
  <1>1. PICK r \in Call : r.at \in {"unlink", "store"} /\ call' = [call EXCEPT ![p][g] = r]
    BY DEF Detach, Call, CallStep, TypeInv, Processes
  <1>2. /\ call' \in [Procs -> [Callers -> Call]] /\ call'[p][g] = r
        /\ \A q \in Procs, h \in Callers : q # p \/ h # g => call'[q][h] = call[q][h]
    BY <1>1, CallChanged DEF TypeInv, Processes
  <1>3. Processes' /\ Sockets' /\ Links'
    BY <1>2 DEF TypeInv, Processes, Sockets, Links, Detach, sockets, links
  <1>4. LockInv'
    BY <1>1, <1>2, LockKept DEF TypeInv, Begun, At, Detach
  <1>5. ConnInv'
    BY DEF TypeInv, ConnInv, Detach, sockets, links
  <1> QED BY <1>3, <1>4, <1>5 DEF TypeInv

LEMMA StopStepType ==
  ASSUME TypeInv, NEW p \in Procs, NEW g \in Callers,
         StopClose(p, g) \/ StopAwait(p, g) \/ StopCut(p, g) \/ StopWait(p, g) \/ CloseStore(p, g)
  PROVE  TypeInv'
  <1>1. /\ call' \in [Procs -> [Callers -> Call]]
        /\ \A q \in Procs, h \in Callers : q # p \/ h # g => call'[q][h] = call[q][h]
        /\ ~Begun(p, g) /\ ~Begun(p, g)'
    <2>1. \/ At(p, g, "unlink") \/ At(p, g, "shut") \/ At(p, g, "await")
          \/ At(p, g, "cut") \/ At(p, g, "wait") \/ At(p, g, "store")
      BY DEF StopClose, StopAwait, StopCut, StopWait, StopReturns, CloseStore
    <2>2. \/ Return(p, g)
          \/ Goto(p, g, "shut") \/ Goto(p, g, "await") \/ Goto(p, g, "cut")
          \/ Goto(p, g, "wait") \/ Goto(p, g, "store")
      BY DEF StopClose, StopAwait, StopCut, StopWait, StopReturns, CloseStore
    <2>3. ~Begun(p, g)
      BY <2>1 DEF Begun, At
    <2>4. CASE Return(p, g)
      BY <2>3, <2>4, ReturnChanges DEF TypeInv, Processes, Begun, At, IdleCall
    <2>5. ASSUME NEW s \in {"shut", "await", "cut", "wait", "store"}, Goto(p, g, s)
          PROVE  /\ call' \in [Procs -> [Callers -> Call]]
                 /\ \A q \in Procs, h \in Callers : q # p \/ h # g => call'[q][h] = call[q][h]
                 /\ ~Begun(p, g)'
      <3>1. s \in CallStep /\ s \notin {"remove", "listen"}
        BY DEF CallStep
      <3> QED BY <2>5, <3>1, GotoChanges DEF TypeInv, Processes, Begun, At
    <2> QED BY <2>2, <2>3, <2>4, <2>5
  <1>2. UNCHANGED <<mode, lis, lock, conns, opened, raced, acc, handler>>
    BY DEF StopClose, StopAwait, StopCut, StopWait, StopReturns, CloseStore, Unlink, Shut,
           sockets, links
  <1>3. Processes'
    BY <1>1, <1>2 DEF TypeInv, Processes, StopClose, StopAwait, StopCut, StopWait, StopReturns,
                      CloseStore
  <1>4. Sockets' /\ Links'
    <2>1. CASE StopCut(p, g)
      <3>1. link' = [c \in Conns |-> IF c \in conns[p] THEN "cut" ELSE link[c]]
        BY <2>1 DEF StopCut
      <3>2. \A c \in conns[p] : link[c] # "free"
        BY DEF TypeInv, Processes, ConnInv
      <3>3. UNCHANGED <<sock, live, acc, to, handler, raced>>
        BY <2>1 DEF StopCut, sockets
      <3> QED BY <3>1, <3>2, <3>3 DEF TypeInv, Sockets, Links
    <2>2. CASE StopClose(p, g)
      BY <1>2, <2>2 DEF TypeInv, Sockets, Links, StopClose, Unlink, Shut
    <2>3. CASE UNCHANGED sockets /\ UNCHANGED links
      BY <1>2, <2>3 DEF TypeInv, Sockets, Links, sockets, links
    <2> QED BY <2>1, <2>2, <2>3 DEF StopAwait, StopWait, StopReturns, CloseStore
  <1>5. LockInv'
    BY <1>1, <1>2, LockKept DEF TypeInv
  <1>6. ConnInv'
    <2>1. CASE StopCut(p, g)
      <3>1. /\ link' = [c \in Conns |-> IF c \in conns[p] THEN "cut" ELSE link[c]]
            /\ UNCHANGED to
        BY <2>1 DEF StopCut
      <3>2. \A l \in Listener, c \in Conns : acc[l] = c => c \notin conns[p]
        BY DEF TypeInv, ConnInv
      <3> QED BY <1>2, <3>1, <3>2 DEF TypeInv, Processes, Links, ConnInv
    <2>2. CASE StopClose(p, g)
      <3>1. \A c \in Conns : link[c] # "queued" => link'[c] = link[c] /\ to'[c] = to[c]
        BY <2>2 DEF TypeInv, Links, StopClose, Unlink, Shut
      <3>2. \A q \in Procs : \A c \in conns[q] : c \in Conns /\ link[c] # "queued"
        BY DEF TypeInv, Processes, ConnInv
      <3>3. \A c \in Conns : handler[c] # "off" => link[c] # "queued"
        BY DEF TypeInv, ConnInv
      <3>4. \A l \in Listener, c \in Conns : acc[l] = c => link[c] # "queued"
        BY DEF TypeInv, ConnInv
      <3> QED BY <1>2, <3>1, <3>2, <3>3, <3>4 DEF TypeInv, ConnInv
    <2>3. CASE UNCHANGED sockets /\ UNCHANGED links
      BY <1>2, <2>3 DEF TypeInv, ConnInv, sockets, links
    <2> QED BY <2>1, <2>2, <2>3 DEF StopAwait, StopWait, StopReturns, CloseStore
  <1> QED BY <1>3, <1>4, <1>5, <1>6 DEF TypeInv

LEMMA ExitType ==
  ASSUME TypeInv, NEW p \in Procs, Exit(p)
  PROVE  TypeInv'
  <1>1. IdleCall \in Call /\ IdleCall.at = "idle"
    BY DEF IdleCall, Call, CallStep
  <1>2. call' = [call EXCEPT ![p] = [g \in Callers |-> IdleCall]]
    BY DEF Exit
  <1>3. /\ call' \in [Procs -> [Callers -> Call]]
        /\ \A g \in Callers : call'[p][g].at = "idle"
        /\ \A q \in Procs, g \in Callers : q # p => call'[q][g] = call[q][g]
    BY <1>1, <1>2 DEF TypeInv, Processes
  <1>4. Processes'
    BY <1>3 DEF TypeInv, Processes, Exit
  <1>5. Sockets' /\ Links'
    BY DEF TypeInv, Sockets, Links, Exit
  <1>6. LockInv'
    <2>1. lock' = [lock EXCEPT ![p] = Nil] /\ lock \in [Procs -> Callers \cup {Nil}]
      BY DEF TypeInv, Processes, Exit
    <2> QED BY <1>3, <2>1, NilAssumption DEF TypeInv, LockInv, Begun, At
  <1>7. ConnInv'
    <2> DEFINE lost == {c \in Conns : to[c] # Nil /\ to[c][1] = p}
    <2>1. \A l \in Listener, c \in Conns : acc'[l] = c => l[1] # p /\ acc[l] = c
      BY ConnsAssumption DEF TypeInv, Sockets, Exit
    <2>2. \A c \in Conns \ lost :
            link'[c] = link[c] /\ to'[c] = to[c] /\ handler'[c] = handler[c]
      BY DEF Exit
    <2>3. \A c \in lost : handler'[c] = "off"
      BY DEF Exit
    <2>4. \A q \in Procs : q # p => conns'[q] = conns[q] /\ conns[q] \cap lost = {}
      BY DEF TypeInv, Processes, ConnInv, Exit
    <2>5. conns'[p] = {}
      BY DEF TypeInv, Processes, Exit
    <2>6. \A l \in Listener, c \in Conns : acc'[l] = c => c \notin lost
      BY <2>1 DEF TypeInv, ConnInv
    <2>7. conns' \in [Procs -> SUBSET Conns]
      BY <1>4 DEF Processes
    <2> HIDE DEF lost
    <2> QED BY <2>1, <2>2, <2>3, <2>4, <2>5, <2>6, <2>7 DEF TypeInv, ConnInv
  <1> QED BY <1>4, <1>5, <1>6, <1>7 DEF TypeInv

LEMMA TypeStep == TypeInv /\ [Next]_vars => TypeInv'
  <1> SUFFICES ASSUME TypeInv, [Next]_vars PROVE TypeInv'
    OBVIOUS
  <1>1. CASE UNCHANGED vars
    BY <1>1 DEF vars, TypeInv, Processes, Sockets, Links, LockInv, ConnInv, Begun, At
  <1>2. ASSUME NEW p \in Procs, NEW g \in Callers, Calling(p, g) PROVE TypeInv'
    BY <1>2, StartRemoveType, StartListenType, StopStepType DEF Calling
  <1>3. CASE Next
    BY <1>2, <1>3, NewType, StartProbeType, DetachType, AcceptingType, DialType, ServingType,
       ExitType DEF Next
  <1> QED BY <1>1, <1>3

(* The variables of Daemon stay in their domains, a Start and nobody else    *)
(* holds d.mu across steps, and a connection belongs to a listener exactly   *)
(* while it exists.                                                          *)
THEOREM TypeCorrect == Spec => []TypeOK
  <1>1. Spec => []TypeInv
    BY TypeInit, TypeStep, PTL DEF Spec
  <1> QED BY <1>1, TypeInvImplies, PTL
---------------------------------------------------------------------------
(* Listeners carry their process and their number: what a daemon has, or a   *)
(* Stop is closing, was opened by its own process.                           *)
Opened(p, l) == l[1] = p /\ l[2] <= opened[p]

IndexInv ==
  /\ \A p \in Procs : lis[p] # Nil => Opened(p, lis[p])
  /\ \A p \in Procs, g \in Callers : call[p][g].lis # Nil => Opened(p, call[p][g].lis)
  /\ \A p \in Procs, g \in Callers :
       At(p, g, "unlink") \/ At(p, g, "shut") => call[p][g].lis # Nil

(* The path leads to the listener of the daemon that listens, or to the one  *)
(* a Stop is about to unlink; the listener a Stop is about to shut is not at *)
(* the path; and a Start runs alone, with nobody at the path.                *)
Listening == \A p \in Procs : lis[p] # Nil => sock = lis[p] /\ sock \in live

Unlinking ==
  /\ \A p \in Procs, g \in Callers :
       At(p, g, "unlink") => sock = call[p][g].lis /\ sock \in live /\ lis[p] = Nil
  /\ \A p \in Procs, g, h \in Callers : At(p, g, "unlink") /\ At(p, h, "unlink") => g = h

Shutting == \A p \in Procs, g \in Callers : At(p, g, "shut") => call[p][g].lis # sock

StartsAlone ==
  /\ \A p \in Procs, g \in Callers : At(p, g, "listen") => sock = Nil
  /\ \A p \in Procs, g \in Callers : Begun(p, g) =>
       /\ ~Probed
       /\ \A q \in Procs, h \in Callers : Begun(q, h) => q = p

OwnerInv == Listening /\ Unlinking /\ Shutting /\ StartsAlone

ReachInv == TypeInv /\ IndexInv /\ (~raced => OwnerInv)

LEMMA ReachInvImplies == ReachInv => ServerReachable
  <1> SUFFICES ASSUME ReachInv, ~raced, NEW p \in Procs, lis[p] # Nil
               PROVE  /\ sock = lis[p] /\ sock \in live
                      /\ \A q \in Procs \ {p} : lis[q] = Nil
    BY DEF ServerReachable
  <1> QED BY DEF ReachInv, IndexInv, Opened, OwnerInv, Listening

LEMMA ReachInit == Init => ReachInv
  BY TypeInit DEF Init, ReachInv, IndexInv, OwnerInv, Listening, Unlinking, Shutting, StartsAlone,
                  Begun, At, IdleCall

(* A caller's step that leaves the listeners and the path alone, and does    *)
(* not enter a step that depends on them.                                    *)
LEMMA CallerIdle ==
  ASSUME IndexInv, ~raced => OwnerInv, NEW p \in Procs, NEW g \in Callers,
         UNCHANGED <<sock, live, lis, opened, raced>>,
         \A q \in Procs, h \in Callers : q # p \/ h # g => call'[q][h] = call[q][h],
         call'[p][g].lis \in {call[p][g].lis, Nil},
         call'[p][g].at \notin {"remove", "listen", "unlink", "shut"}
  PROVE  IndexInv' /\ (~raced => OwnerInv)'
  <1>1. ~At(p, g, "unlink")' /\ ~At(p, g, "shut")' /\ ~At(p, g, "listen")' /\ ~Begun(p, g)'
    BY DEF At, Begun
  <1>2. \A q \in Procs, h \in Callers : q # p \/ h # g =>
          /\ call'[q][h] = call[q][h] /\ (Begun(q, h)' <=> Begun(q, h))
          /\ (At(q, h, "unlink")' <=> At(q, h, "unlink")) /\ (At(q, h, "shut")' <=> At(q, h, "shut"))
          /\ (At(q, h, "listen")' <=> At(q, h, "listen"))
    BY DEF At, Begun
  <1>3. IndexInv'
    BY <1>1, <1>2 DEF IndexInv, Opened
  <1>4. ASSUME ~raced PROVE OwnerInv'
    <2>1. Listening' /\ Shutting'
      BY <1>1, <1>2, <1>4 DEF OwnerInv, Listening, Shutting
    <2>2. Unlinking'
      BY <1>1, <1>2, <1>4 DEF OwnerInv, Unlinking
    <2>3. StartsAlone'
      BY <1>1, <1>2, <1>4 DEF OwnerInv, StartsAlone, Probed
    <2> QED BY <2>1, <2>2, <2>3 DEF OwnerInv
  <1> QED BY <1>3, <1>4

(* Steps that change neither the callers nor the listeners.                  *)
LEMMA NoCaller ==
  ASSUME IndexInv, ~raced => OwnerInv, UNCHANGED <<sock, live, lis, opened, raced, call>>
  PROVE  IndexInv' /\ (~raced => OwnerInv)'
  BY DEF IndexInv, Opened, OwnerInv, Listening, Unlinking, Shutting, StartsAlone, Begun, At, Probed
---------------------------------------------------------------------------
(* ReachInv is inductive. *)

LEMMA StartProbeReach ==
  ASSUME ReachInv, NEW p \in Procs, NEW g \in Callers, StartProbe(p, g)
  PROVE  IndexInv' /\ (~raced => OwnerInv)'
  <1> DEFINE r == [op |-> "start", at |-> "remove", lis |-> Nil]
  <1>1. r \in Call /\ r.at = "remove" /\ r.lis = Nil
    BY DEF Call, CallStep
  <1>2. call'[p][g] = r /\ \A q \in Procs, h \in Callers : q # p \/ h # g => call'[q][h] = call[q][h]
    <2> HIDE DEF r
    <2>1. call \in [Procs -> [Callers -> Call]] /\ call' = [call EXCEPT ![p][g] = r]
      BY DEF ReachInv, TypeInv, Processes, StartProbe, BeginStart, r
    <2> QED BY <1>1, <2>1, CallChanged
  <1>3. UNCHANGED <<sock, live, lis, opened>> /\ ~Probed
    BY DEF StartProbe, BeginStart, sockets
  <1> HIDE DEF r
  <1>4. IndexInv'
    BY <1>1, <1>2, <1>3 DEF ReachInv, IndexInv, Opened, At
  <1>5. ASSUME ~raced' PROVE OwnerInv'
    <2>1. ~raced /\ \A q \in Procs, h \in Callers : ~Begun(q, h)
      BY <1>5 DEF StartProbe, BeginStart, Starting, Begun
    <2>2. OwnerInv
      BY <2>1 DEF ReachInv
    <2>3. Listening' /\ Unlinking' /\ Shutting'
      BY <1>1, <1>2, <1>3, <2>2 DEF OwnerInv, Listening, Unlinking, Shutting, At
    <2>4. \A q \in Procs, h \in Callers : Begun(q, h)' => q = p /\ h = g
      BY <1>2, <2>1 DEF Begun, At
    <2>5. StartsAlone'
      BY <1>1, <1>2, <1>3, <2>1, <2>4 DEF StartsAlone, Begun, At, Probed
    <2> QED BY <2>3, <2>5 DEF OwnerInv
  <1> QED BY <1>4, <1>5

(* With nobody at the path no daemon listens and no Stop is about to unlink. *)
LEMMA NobodyThere ==
  ASSUME IndexInv, OwnerInv, ~Probed
  PROVE  /\ \A p \in Procs : lis[p] = Nil
         /\ \A p \in Procs, g \in Callers : ~At(p, g, "unlink")
  BY DEF IndexInv, OwnerInv, Listening, Unlinking, Probed

LEMMA StartRemoveReach ==
  ASSUME ReachInv, NEW p \in Procs, NEW g \in Callers, StartRemove(p, g)
  PROVE  IndexInv' /\ (~raced => OwnerInv)'
  <1>1. /\ call'[p][g].at = "listen" /\ call'[p][g].lis = call[p][g].lis
        /\ \A q \in Procs, h \in Callers : q # p \/ h # g => call'[q][h] = call[q][h]
    BY GotoChanges DEF ReachInv, TypeInv, Processes, StartRemove, CallStep
  <1>2. sock' = Nil /\ UNCHANGED <<live, lis, opened, raced>> /\ Begun(p, g)
    BY DEF StartRemove, Begun
  <1>3. IndexInv'
    BY <1>1, <1>2 DEF ReachInv, IndexInv, Opened, At
  <1>4. ASSUME ~raced PROVE OwnerInv'
    <2>1. OwnerInv /\ ~Probed
      BY <1>2, <1>4 DEF ReachInv, OwnerInv, StartsAlone
    <2>2. /\ \A q \in Procs : lis[q] = Nil
          /\ \A q \in Procs, h \in Callers : ~At(q, h, "unlink")
      BY <2>1, NobodyThere DEF ReachInv
    <2>3. Listening' /\ Unlinking'
      BY <1>1, <1>2, <2>2 DEF Listening, Unlinking, At
    <2>4. Shutting'
      BY <1>1, <1>2 DEF ReachInv, IndexInv, Shutting, At
    <2>5. \A q \in Procs, h \in Callers : Begun(q, h)' => Begun(q, h)
      BY <1>1, <1>2 DEF Begun, At
    <2>6. StartsAlone'
      BY <1>2, <2>1, <2>5 DEF OwnerInv, StartsAlone, Probed
    <2> QED BY <2>3, <2>4, <2>6 DEF OwnerInv
  <1> QED BY <1>2, <1>3, <1>4

LEMMA ListenerParts ==
  ASSUME NEW l \in Listener
  PROVE  l[1] \in Procs /\ l[2] \in Nat
  BY ListensAssumption DEF Listener

LEMMA StartListenReach ==
  ASSUME ReachInv, NEW p \in Procs, NEW g \in Callers, StartListen(p, g)
  PROVE  IndexInv' /\ (~raced => OwnerInv)'
  <1> DEFINE l == <<p, opened[p] + 1>>
  <1>1. /\ call'[p][g] = IdleCall
        /\ \A q \in Procs, h \in Callers : q # p \/ h # g => call'[q][h] = call[q][h]
    BY ReturnChanges DEF ReachInv, TypeInv, Processes, StartListen
  <1>2. Begun(p, g) /\ UNCHANGED raced /\ At(p, g, "listen")
    BY DEF StartListen, Begun
  <1>3. l[1] = p /\ l[2] = opened[p] + 1 /\ l # Nil
    <2>1. lock[p] # Nil
      BY <1>2, NilAssumption DEF ReachInv, TypeInv, LockInv
    <2> QED BY <2>1, NewListener, NilNoListener DEF ReachInv, TypeInv, Processes
  <1>4. opened[p] \in Nat /\ opened'[p] \in Nat /\ opened[p] <= opened'[p]
    BY DEF ReachInv, TypeInv, Processes, StartListen
  <1>5. \A q \in Procs : q # p => opened'[q] = opened[q] /\ lis'[q] = lis[q]
    BY DEF ReachInv, TypeInv, Processes, StartListen
  <1>6. CASE sock # Nil
    <2>1. UNCHANGED <<sock, live, lis, opened, raced>>
      BY <1>6 DEF StartListen
    <2> QED BY <1>1, <2>1, CallerIdle DEF ReachInv, IdleCall
  <1>7. CASE sock = Nil
    <2>1. /\ lis'[p] = l /\ opened'[p] = opened[p] + 1
          /\ sock' = l /\ live' = live \cup {l}
      BY <1>7 DEF ReachInv, TypeInv, Processes, StartListen
    <2> HIDE DEF l
    <2>2. IndexInv'
      <3>1. ASSUME NEW q \in Procs, lis'[q] # Nil PROVE Opened(q, lis[q])'
        <4>1. CASE q = p
          BY <1>3, <1>4, <2>1, <4>1 DEF Opened
        <4>2. CASE q # p
          BY <1>5, <3>1, <4>2 DEF ReachInv, IndexInv, Opened
        <4> QED BY <4>1, <4>2
      <3>2. ASSUME NEW q \in Procs, NEW h \in Callers, call'[q][h].lis # Nil
            PROVE  Opened(q, call[q][h].lis)'
        <4>1. call'[q][h].lis = call[q][h].lis /\ call[q][h].lis # Nil
          BY <1>1, <3>2 DEF IdleCall
        <4>2. call[q][h].lis[1] = q /\ call[q][h].lis[2] <= opened[q]
          BY <4>1 DEF ReachInv, IndexInv, Opened
        <4>3. call[q][h].lis[2] \in Nat
          BY <4>1, ListenerParts DEF ReachInv, TypeInv, Processes, Call
        <4>4. CASE q = p
          BY <1>4, <4>1, <4>2, <4>3, <4>4 DEF Opened
        <4>5. CASE q # p
          BY <1>5, <4>1, <4>2, <4>5 DEF Opened
        <4> QED BY <4>4, <4>5
      <3>3. \A q \in Procs, h \in Callers :
              (At(q, h, "unlink") \/ At(q, h, "shut"))' => call'[q][h].lis # Nil
        BY <1>1 DEF ReachInv, IndexInv, At, IdleCall
      <3> QED BY <3>1, <3>2, <3>3 DEF IndexInv
    <2>3. ASSUME ~raced PROVE OwnerInv'
      <3>1. OwnerInv /\ ~Probed
        BY <1>2, <2>3 DEF ReachInv, OwnerInv, StartsAlone
      <3>2. /\ \A q \in Procs : lis[q] = Nil
            /\ \A q \in Procs, h \in Callers : ~At(q, h, "unlink")
        BY <3>1, NobodyThere DEF ReachInv
      <3>3. Listening' /\ Unlinking'
        BY <1>1, <1>5, <2>1, <3>2 DEF Listening, Unlinking, At, IdleCall
      <3>4. ASSUME NEW q \in Procs, NEW h \in Callers, At(q, h, "shut")'
            PROVE  call'[q][h].lis # sock'
        <4>1. call'[q][h] = call[q][h] /\ At(q, h, "shut")
          BY <1>1, <3>4 DEF At, IdleCall
        <4>2. call[q][h].lis[1] = q /\ call[q][h].lis[2] <= opened[q]
          BY <4>1 DEF ReachInv, IndexInv, Opened
        <4>3. call[q][h].lis # l
          BY <1>3, <1>4, <4>2
        <4> QED BY <2>1, <4>1, <4>3
      <3>5. \A q \in Procs, h \in Callers : ~Begun(q, h)'
        BY <1>1, <1>2, <3>1 DEF ReachInv, TypeInv, LockInv, OwnerInv, StartsAlone, Begun, At, IdleCall
      <3>6. StartsAlone'
        BY <3>5 DEF StartsAlone, Begun
      <3> QED BY <3>3, <3>4, <3>6 DEF OwnerInv, Shutting
    <2> QED BY <1>2, <2>2, <2>3
  <1> QED BY <1>6, <1>7

LEMMA DetachReach ==
  ASSUME ReachInv, NEW p \in Procs, NEW g \in Callers, NEW op \in {"stop", "close"},
         Detach(p, g, op)
  PROVE  IndexInv' /\ (~raced => OwnerInv)'
  <1>1. lis[p] \in Listener \cup {Nil} /\ call \in [Procs -> [Callers -> Call]]
    BY DEF ReachInv, TypeInv, Processes
  <1>2. PICK r \in Call : /\ call' = [call EXCEPT ![p][g] = r] /\ r.lis = lis[p]
                          /\ \/ lis[p] # Nil /\ r.at = "unlink"
                             \/ lis[p] = Nil /\ r.at = "store"
    <2>1. CASE lis[p] # Nil
      <3> DEFINE r == [op |-> op, at |-> "unlink", lis |-> lis[p]]
      <3>1. r \in Call /\ r.lis = lis[p] /\ r.at = "unlink"
        BY <1>1 DEF Call, CallStep
      <3>2. call' = [call EXCEPT ![p][g] = r]
        BY <2>1 DEF Detach
      <3> QED BY <2>1, <3>1, <3>2
    <2>2. CASE lis[p] = Nil
      <3> DEFINE r == [op |-> op, at |-> "store", lis |-> Nil]
      <3>1. r \in Call /\ r.lis = lis[p] /\ r.at = "store"
        BY <2>2 DEF Call, CallStep
      <3>2. call' = [call EXCEPT ![p][g] = r]
        BY <2>2 DEF Detach
      <3> QED BY <2>2, <3>1, <3>2
    <2> QED BY <2>1, <2>2
  <1>3. /\ call'[p][g] = r
        /\ \A q \in Procs, h \in Callers : q # p \/ h # g => call'[q][h] = call[q][h]
    BY <1>1, <1>2, CallChanged
  <1>4. /\ lis' = [lis EXCEPT ![p] = Nil] /\ lis'[p] = Nil
        /\ \A q \in Procs : q # p => lis'[q] = lis[q]
    BY DEF ReachInv, TypeInv, Processes, Detach
  <1>5. UNCHANGED <<sock, live, opened, raced>>
    BY DEF Detach, sockets
  <1>6. IndexInv'
    <2>1. \A q \in Procs : lis'[q] # Nil => Opened(q, lis[q])'
      BY <1>4, <1>5 DEF ReachInv, IndexInv, Opened
    <2>2. \A q \in Procs, h \in Callers : call'[q][h].lis # Nil => Opened(q, call[q][h].lis)'
      BY <1>2, <1>3, <1>5 DEF ReachInv, IndexInv, Opened
    <2>3. \A q \in Procs, h \in Callers :
            (At(q, h, "unlink") \/ At(q, h, "shut"))' => call'[q][h].lis # Nil
      BY <1>2, <1>3 DEF ReachInv, IndexInv, At
    <2> QED BY <2>1, <2>2, <2>3 DEF IndexInv
  <1>7. ASSUME ~raced PROVE OwnerInv'
    <2>1. OwnerInv
      BY <1>7 DEF ReachInv
    <2>2. Listening'
      BY <1>4, <1>5, <2>1 DEF OwnerInv, Listening
    <2>3. \A h \in Callers : At(p, h, "unlink") => lis[p] = Nil
      BY <2>1 DEF OwnerInv, Unlinking
    <2>4. Unlinking'
      <3>1. ASSUME NEW q \in Procs, NEW h \in Callers, At(q, h, "unlink")'
            PROVE  sock' = call'[q][h].lis /\ sock' \in live' /\ lis'[q] = Nil
        <4>1. CASE q = p /\ h = g
          BY <1>2, <1>3, <1>4, <1>5, <2>1, <3>1, <4>1 DEF OwnerInv, Listening, At
        <4>2. CASE q # p \/ h # g
          BY <1>3, <1>4, <1>5, <2>1, <3>1, <4>2 DEF OwnerInv, Unlinking, At
        <4> QED BY <4>1, <4>2
      <3>2. \A q \in Procs, h, k \in Callers : At(q, h, "unlink")' /\ At(q, k, "unlink")' => h = k
        BY <1>2, <1>3, <2>1, <2>3 DEF OwnerInv, Unlinking, At
      <3> QED BY <3>1, <3>2 DEF Unlinking
    <2>5. Shutting'
      BY <1>2, <1>3, <1>5, <2>1 DEF OwnerInv, Shutting, At
    <2>6. StartsAlone'
      BY <1>2, <1>3, <1>5, <2>1 DEF OwnerInv, StartsAlone, Begun, At, Probed
    <2> QED BY <2>2, <2>4, <2>5, <2>6 DEF OwnerInv
  <1> QED BY <1>5, <1>6, <1>7

(* Unlinking the path takes nobody else's socket away: it leads to the       *)
(* listener of this Stop.                                                    *)
LEMMA UnlinkReach ==
  ASSUME ReachInv, NEW p \in Procs, NEW g \in Callers, StopClose(p, g), At(p, g, "unlink")
  PROVE  IndexInv' /\ (~raced => OwnerInv)'
  <1>1. Goto(p, g, "shut") /\ sock' = Nil /\ UNCHANGED <<live, lis, opened, raced>>
    BY DEF StopClose, Unlink, At
  <1>2. /\ call'[p][g].at = "shut" /\ call'[p][g].lis = call[p][g].lis
        /\ \A q \in Procs, h \in Callers : q # p \/ h # g => call'[q][h] = call[q][h]
    BY <1>1, GotoChanges DEF ReachInv, TypeInv, Processes, CallStep
  <1>3. IndexInv'
    BY <1>1, <1>2 DEF ReachInv, IndexInv, Opened, At
  <1>4. ASSUME ~raced PROVE OwnerInv'
    <2>1. OwnerInv /\ IndexInv
      BY <1>4 DEF ReachInv
    <2>2. sock = call[p][g].lis /\ sock \in live /\ lis[p] = Nil /\ sock # Nil /\ sock[1] = p
      BY <2>1 DEF OwnerInv, Unlinking, IndexInv, Opened
    <2>3. \A q \in Procs : lis[q] = Nil
      BY <2>1, <2>2 DEF OwnerInv, Listening, IndexInv, Opened
    <2>4. \A q \in Procs, h \in Callers : At(q, h, "unlink") => q = p /\ h = g
      BY <2>1, <2>2 DEF OwnerInv, Unlinking, IndexInv, Opened
    <2>5. \A q \in Procs, h \in Callers : ~At(q, h, "unlink")'
      BY <1>2, <2>4 DEF At
    <2>6. \A q \in Procs, h \in Callers : ~Begun(q, h)'
      BY <1>2, <2>1, <2>2 DEF OwnerInv, StartsAlone, Begun, At, Probed
    <2>7. Listening' /\ Unlinking' /\ StartsAlone'
      BY <1>1, <2>3, <2>5, <2>6 DEF Listening, Unlinking, StartsAlone, Begun
    <2>8. Shutting'
      BY <1>1, <1>3 DEF IndexInv, Shutting
    <2> QED BY <2>7, <2>8 DEF OwnerInv
  <1> QED BY <1>1, <1>3, <1>4

LEMMA ShutReach ==
  ASSUME ReachInv, NEW p \in Procs, NEW g \in Callers, StopClose(p, g), At(p, g, "shut")
  PROVE  IndexInv' /\ (~raced => OwnerInv)'
  <1>1. /\ Goto(p, g, "await") /\ live' = live \ {call[p][g].lis}
        /\ UNCHANGED <<sock, lis, opened, raced>>
    BY DEF StopClose, Shut, At
  <1>2. /\ call'[p][g].at = "await" /\ call'[p][g].lis = call[p][g].lis
        /\ \A q \in Procs, h \in Callers : q # p \/ h # g => call'[q][h] = call[q][h]
    BY <1>1, GotoChanges DEF ReachInv, TypeInv, Processes, CallStep
  <1>3. IndexInv'
    BY <1>1, <1>2 DEF ReachInv, IndexInv, Opened, At
  <1>4. ASSUME ~raced PROVE OwnerInv'
    <2>1. OwnerInv /\ sock # call[p][g].lis
      BY <1>4 DEF ReachInv, OwnerInv, Shutting
    <2>2. Listening' /\ Unlinking'
      BY <1>1, <1>2, <2>1 DEF OwnerInv, Listening, Unlinking, At
    <2>3. Shutting' /\ StartsAlone'
      BY <1>1, <1>2, <2>1 DEF OwnerInv, Shutting, StartsAlone, Begun, At, Probed
    <2> QED BY <2>2, <2>3 DEF OwnerInv
  <1> QED BY <1>1, <1>3, <1>4

LEMMA StopStepReach ==
  ASSUME ReachInv, NEW p \in Procs, NEW g \in Callers,
         StopAwait(p, g) \/ StopCut(p, g) \/ StopWait(p, g) \/ CloseStore(p, g)
  PROVE  IndexInv' /\ (~raced => OwnerInv)'
  <1>1. Return(p, g) \/ Goto(p, g, "cut") \/ Goto(p, g, "wait") \/ Goto(p, g, "store")
    BY DEF StopAwait, StopCut, StopWait, StopReturns, CloseStore
  <1>2. UNCHANGED <<sock, live, lis, opened, raced>>
    BY DEF StopAwait, StopCut, StopWait, StopReturns, CloseStore, sockets
  <1>3. CASE Return(p, g)
    <2>1. /\ call'[p][g] = IdleCall
          /\ \A q \in Procs, h \in Callers : q # p \/ h # g => call'[q][h] = call[q][h]
      BY <1>3, ReturnChanges DEF ReachInv, TypeInv, Processes
    <2>2. call'[p][g].lis = Nil /\ call'[p][g].at = "idle"
      BY <2>1 DEF IdleCall
    <2> QED BY <1>2, <2>1, <2>2, CallerIdle DEF ReachInv
  <1>4. ASSUME NEW s \in {"cut", "wait", "store"}, Goto(p, g, s)
        PROVE  IndexInv' /\ (~raced => OwnerInv)'
    <2>1. s \in CallStep
      BY DEF CallStep
    <2>2. /\ call'[p][g].at = s /\ call'[p][g].lis = call[p][g].lis
          /\ \A q \in Procs, h \in Callers : q # p \/ h # g => call'[q][h] = call[q][h]
      BY <1>4, <2>1, GotoChanges DEF ReachInv, TypeInv, Processes
    <2> QED BY <1>2, <2>2, CallerIdle DEF ReachInv
  <1> QED BY <1>1, <1>3, <1>4

LEMMA ExitReach ==
  ASSUME ReachInv, NEW p \in Procs, Exit(p)
  PROVE  IndexInv' /\ (~raced => OwnerInv)'
  <1>1. call' = [call EXCEPT ![p] = [g \in Callers |-> IdleCall]]
    BY DEF Exit
  <1>2. /\ \A g \in Callers : call'[p][g] = IdleCall
        /\ \A q \in Procs : q # p => call'[q] = call[q]
    BY <1>1 DEF ReachInv, TypeInv, Processes
  <1>3. lis'[p] = Nil /\ \A q \in Procs : q # p => lis'[q] = lis[q]
    BY DEF ReachInv, TypeInv, Processes, Exit
  <1>4. live' = {l \in live : l[1] # p} /\ UNCHANGED <<opened, sock, raced>>
    BY DEF Exit
  <1>5. IndexInv'
    BY <1>2, <1>3, <1>4 DEF ReachInv, IndexInv, Opened, At, IdleCall
  <1>6. ASSUME ~raced PROVE OwnerInv'
    <2>1. OwnerInv /\ IndexInv
      BY <1>6 DEF ReachInv
    <2>2. Listening'
      BY <1>3, <1>4, <2>1 DEF OwnerInv, Listening, IndexInv, Opened
    <2>3. \A q \in Procs, g \in Callers :
            /\ At(q, g, "unlink")' => q # p /\ At(q, g, "unlink")
            /\ At(q, g, "shut")' => q # p /\ At(q, g, "shut")
            /\ At(q, g, "listen")' => At(q, g, "listen")
            /\ Begun(q, g)' => Begun(q, g)
      BY <1>2 DEF At, Begun, IdleCall
    <2>4. Unlinking'
      BY <1>2, <1>3, <1>4, <2>1, <2>3 DEF OwnerInv, Unlinking, IndexInv, Opened
    <2>5. Shutting' /\ StartsAlone'
      BY <1>2, <1>4, <2>1, <2>3 DEF OwnerInv, Shutting, StartsAlone, Probed
    <2> QED BY <2>2, <2>4, <2>5 DEF OwnerInv
  <1> QED BY <1>4, <1>5, <1>6

LEMMA ReachStep == ReachInv /\ [Next]_vars => ReachInv'
  <1> SUFFICES ASSUME ReachInv, [Next]_vars PROVE ReachInv'
    OBVIOUS
  <1>1. TypeInv'
    BY TypeStep DEF ReachInv
  <1> SUFFICES IndexInv' /\ (~raced => OwnerInv)'
    BY <1>1 DEF ReachInv
  <1>2. CASE UNCHANGED <<sock, live, lis, opened, raced, call>>
    BY <1>2, NoCaller DEF ReachInv
  <1>3. CASE UNCHANGED vars
    BY <1>2, <1>3 DEF vars
  <1>4. ASSUME NEW p \in Procs, NEW g \in Callers, Calling(p, g)
        PROVE  IndexInv' /\ (~raced => OwnerInv)'
    <2>1. CASE StopClose(p, g)
      BY <2>1, UnlinkReach, ShutReach DEF StopClose
    <2>2. CASE ~StopClose(p, g)
      BY <1>4, <2>2, StartRemoveReach, StartListenReach, StopStepReach DEF Calling
    <2> QED BY <2>1, <2>2
  <1>5. CASE \/ \E p \in Procs : New(p)
             \/ \E c \in Conns : Dial(c) \/ ReadRequest(c) \/ PeerSilent(c) \/ Serving(c)
    BY <1>2, <1>5 DEF New, Dial, ReadRequest, PeerSilent, Serving, ReadFails, Respond,
                      RespondFails, Handling, ServeEnds, daemon, sockets
  <1>6. CASE \E l \in Listener : Accepting(l)
    BY <1>2, <1>6 DEF Accepting, Accept, Register, AcceptFails, daemon
  <1>7. CASE Next
    BY <1>4, <1>5, <1>6, <1>7, StartProbeReach, DetachReach, ExitReach DEF Next
  <1> QED BY <1>3, <1>7

(* As long as no two Starts overlapped, a daemon that listens is reachable   *)
(* at the socket, and it is the only one, whatever Starts, Stops, exits and  *)
(* crashes of any number of processes come before.                           *)
THEOREM Reachable == Spec => []ServerReachable
  <1>1. Spec => []ReachInv
    BY ReachInit, ReachStep, PTL DEF Spec
  <1> QED BY <1>1, ReachInvImplies, PTL
---------------------------------------------------------------------------
(* What the end of a daemon leaves behind: Stop and Close.                   *)

(* A connection that exists waits at an open listener, is in the hands of    *)
(* the accept goroutine of its listener, or has a handler.                   *)
Queued == \A c \in Conns : link[c] = "queued" => to[c] \in live
Accepted == \A c \in Conns : link[c] \in {"up", "cut"} => handler[c] # "off" \/ acc[to[c]] = c

(* Only listeners that were opened have an accept goroutine.                 *)
Numbered == \A l \in Listener : acc[l] # "off" => Opened(l[1], l)

(* A Stop that has closed its listener will not see it open again, and once  *)
(* it has waited for the accept goroutine, that has ended for good.          *)
Stopping ==
  \A p \in Procs, g \in Callers :
    /\ At(p, g, "await") \/ At(p, g, "cut") \/ At(p, g, "wait") =>
         call[p][g].lis # Nil /\ call[p][g].lis \notin live
    /\ At(p, g, "cut") \/ At(p, g, "wait") => acc[call[p][g].lis] = "done"

StopInv == Queued /\ Accepted /\ Numbered /\ Stopping
---------------------------------------------------------------------------
(* The callers of p but g, and those of other processes, do nothing.         *)
OthersWait(p, g) == \A q \in Procs, h \in Callers : q # p \/ h # g => call'[q][h] = call[q][h]

(* Listeners in use are listeners of their process.                          *)
LEMMA CallListener ==
  ASSUME ReachInv, NEW p \in Procs, NEW g \in Callers, call[p][g].lis # Nil
  PROVE  /\ call[p][g].lis \in Listener /\ Opened(p, call[p][g].lis)
         /\ call[p][g].lis[1] = p
  BY DEF ReachInv, IndexInv, TypeInv, Processes, Call, Opened

LEMMA StoppingKept ==
  ASSUME ReachInv, Stopping, NEW p \in Procs, NEW g \in Callers, OthersWait(p, g),
         call'[p][g].at \notin {"await", "cut", "wait"},
         \A l \in Listener : Opened(l[1], l) =>
           (l \notin live => l \notin live') /\ (acc[l] = "done" => acc'[l] = "done")
  PROVE  Stopping'
<1> SUFFICES ASSUME NEW q \in Procs, NEW h \in Callers,
                    call'[q][h].at \in {"await", "cut", "wait"}
             PROVE  /\ call'[q][h].lis # Nil /\ call'[q][h].lis \notin live'
                    /\ At(q, h, "cut")' \/ At(q, h, "wait")' => acc'[call'[q][h].lis] = "done"
  BY DEF Stopping, At
<1>1. call'[q][h] = call[q][h]
  BY DEF OthersWait
<1>2. /\ call[q][h].lis # Nil /\ call[q][h].lis \notin live
      /\ At(q, h, "cut") \/ At(q, h, "wait") => acc[call[q][h].lis] = "done"
  BY <1>1 DEF Stopping, At
<1>3. call[q][h].lis \in Listener /\ Opened(q, call[q][h].lis) /\ call[q][h].lis[1] = q
  BY <1>2, CallListener
<1> QED BY <1>1, <1>2, <1>3 DEF At

(* Steps that change no caller. *)
LEMMA StoppingStays ==
  ASSUME ReachInv, Stopping, UNCHANGED call,
         \A l \in Listener :
           (l \notin live => l \notin live') /\ (acc[l] = "done" => acc'[l] = "done")
  PROVE  Stopping'
  BY CallListener DEF Stopping, At

LEMMA QuietStop ==
  ASSUME StopInv, UNCHANGED <<live, acc, link, to, handler, opened>>
  PROVE  Queued' /\ Accepted' /\ Numbered'
  BY DEF StopInv, Queued, Accepted, Numbered, Opened

(* Steps of a caller that only take it further.                              *)
LEMMA StartProbeStop ==
  ASSUME ReachInv, StopInv, NEW p \in Procs, NEW g \in Callers, StartProbe(p, g)
  PROVE  StopInv'
<1> DEFINE r == [op |-> "start", at |-> "remove", lis |-> Nil]
<1>1. r \in Call /\ r.at = "remove"
  BY DEF Call, CallStep
<1>2. call' = [call EXCEPT ![p][g] = r] /\ call \in [Procs -> [Callers -> Call]]
  BY DEF ReachInv, TypeInv, Processes, StartProbe, BeginStart
<1>3. UNCHANGED <<live, acc, link, to, handler, opened>>
  BY DEF StartProbe, BeginStart, sockets, links
<1> HIDE DEF r
<1>4. OthersWait(p, g) /\ call'[p][g].at = "remove"
  BY <1>1, <1>2, CallChanged DEF OthersWait
<1> QED BY <1>3, <1>4, StoppingKept, QuietStop DEF StopInv

LEMMA StartRemoveStop ==
  ASSUME ReachInv, StopInv, NEW p \in Procs, NEW g \in Callers, StartRemove(p, g)
  PROVE  StopInv'
<1>1. OthersWait(p, g) /\ call'[p][g].at = "listen"
  BY GotoChanges DEF ReachInv, TypeInv, Processes, StartRemove, CallStep, OthersWait
<1>2. UNCHANGED <<live, acc, link, to, handler, opened>>
  BY DEF StartRemove, links
<1> QED BY <1>1, <1>2, StoppingKept, QuietStop DEF StopInv

(* A listener that is opened is a new one. *)
LEMMA StartListenStop ==
  ASSUME ReachInv, StopInv, NEW p \in Procs, NEW g \in Callers, StartListen(p, g)
  PROVE  StopInv'
<1> DEFINE l == <<p, opened[p] + 1>>
<1>1. OthersWait(p, g) /\ call'[p][g].at = "idle"
  BY ReturnChanges DEF ReachInv, TypeInv, Processes, StartListen, OthersWait, IdleCall
<1>2. UNCHANGED <<link, to, handler>>
  BY DEF StartListen, links
<1>3. CASE sock # Nil
  <2>1. UNCHANGED <<live, acc, opened>>
    BY <1>3 DEF StartListen
  <2> QED BY <1>1, <1>2, <2>1, StoppingKept, QuietStop DEF StopInv
<1>4. CASE sock = Nil
  <2>1. /\ opened' = [opened EXCEPT ![p] = @ + 1] /\ live' = live \cup {l}
        /\ acc' = [acc EXCEPT ![l] = "accept"]
    BY <1>4 DEF StartListen
  <2>2. opened \in [Procs -> Nat] /\ opened[p] \in Nat
    BY DEF ReachInv, TypeInv, Processes
  <2>3. l[1] = p /\ l[2] = opened[p] + 1
    OBVIOUS
  <2>4. \A k \in Listener : Opened(k[1], k) => k # l
    BY <2>2, <2>3, ListenerParts DEF Opened
  <2> HIDE DEF l
  <2>5. \A k \in Listener : Opened(k[1], k) => Opened(k[1], k)'
    <3> SUFFICES ASSUME NEW k \in Listener, k[2] <= opened[k[1]]
                 PROVE  k[2] <= opened'[k[1]]
      BY DEF Opened
    <3>1. k[1] \in Procs /\ k[2] \in Nat /\ opened[k[1]] \in Nat
      BY <2>2, ListenerParts
    <3>2. opened'[k[1]] \in {opened[k[1]], opened[k[1]] + 1}
      BY <2>1, <2>2, <3>1
    <3> QED BY <3>1, <3>2
  <2>6. \A k \in Listener : k # l => acc'[k] = acc[k]
    BY <2>1 DEF ReachInv, TypeInv, Sockets
  <2>7. Queued'
    BY <1>2, <2>1 DEF StopInv, Queued
  <2>8. Accepted'
    <3> SUFFICES ASSUME NEW c \in Conns, link[c] \in {"up", "cut"}, handler[c] = "off"
                 PROVE  acc'[to[c]] = c
      BY <1>2 DEF Accepted
    <3>1. acc[to[c]] = c /\ to[c] # Nil /\ to[c] \in Listener
      BY DEF StopInv, Accepted, ReachInv, TypeInv, Links
    <3>2. Opened(to[c][1], to[c])
      BY <3>1, ConnsAssumption DEF StopInv, Numbered
    <3> QED BY <2>4, <2>6, <3>1, <3>2
  <2>9. Numbered'
    <3> SUFFICES ASSUME NEW k \in Listener, acc'[k] # "off"
                 PROVE  Opened(k[1], k)'
      BY DEF Numbered
    <3>1. CASE k = l
      BY <2>1, <2>2, <2>3, <3>1 DEF Opened
    <3>2. CASE k # l
      BY <2>5, <2>6, <3>2 DEF StopInv, Numbered
    <3> QED BY <3>1, <3>2
  <2>10. Stopping'
    BY <1>1, <2>1, <2>4, <2>6, StoppingKept DEF StopInv
  <2> QED BY <2>7, <2>8, <2>9, <2>10 DEF StopInv
<1> QED BY <1>3, <1>4

LEMMA DetachStop ==
  ASSUME ReachInv, StopInv, NEW p \in Procs, NEW g \in Callers, NEW op \in {"stop", "close"},
         Detach(p, g, op)
  PROVE  StopInv'
<1>1. PICK r \in Call : r.at \in {"unlink", "store"} /\ call' = [call EXCEPT ![p][g] = r]
  BY DEF Detach, Call, CallStep, ReachInv, TypeInv, Processes
<1>2. OthersWait(p, g) /\ call'[p][g] = r
  BY <1>1, CallChanged DEF ReachInv, TypeInv, Processes, OthersWait
<1>3. UNCHANGED <<live, acc, link, to, handler, opened>>
  BY DEF Detach, sockets, links
<1>4. r.at \notin {"await", "cut", "wait"}
  BY <1>1
<1> QED BY <1>2, <1>3, <1>4, StoppingKept, QuietStop DEF StopInv

(* listener.Close unlinks, then closes: connections that wait are reset.     *)
LEMMA StopCloseStop ==
  ASSUME ReachInv, StopInv, NEW p \in Procs, NEW g \in Callers, StopClose(p, g)
  PROVE  StopInv'
<1>1. CASE At(p, g, "unlink")
  <2>1. Goto(p, g, "shut") /\ UNCHANGED <<live, acc, link, to, handler, opened>>
    BY <1>1 DEF StopClose, Unlink, At
  <2>2. OthersWait(p, g) /\ call'[p][g].at = "shut"
    BY <2>1, GotoChanges DEF ReachInv, TypeInv, Processes, CallStep, OthersWait
  <2> QED BY <2>1, <2>2, StoppingKept, QuietStop DEF StopInv
<1>2. CASE At(p, g, "shut")
  <2> DEFINE l == call[p][g].lis
  <2>1. /\ Goto(p, g, "await") /\ live' = live \ {l}
        /\ UNCHANGED <<acc, handler, opened>>
    BY <1>2 DEF StopClose, Shut, At
  <2>2. /\ OthersWait(p, g) /\ call'[p][g].at = "await" /\ call'[p][g].lis = l
    BY <2>1, GotoChanges DEF ReachInv, TypeInv, Processes, CallStep, OthersWait
  <2>3. l # Nil
    BY <1>2 DEF ReachInv, IndexInv
  <2>4. \A c \in Conns :
          /\ link[c] = "queued" /\ to[c] = l => link'[c] = "free"
          /\ ~(link[c] = "queued" /\ to[c] = l) => link'[c] = link[c] /\ to'[c] = to[c]
    BY <1>2 DEF StopClose, Shut, At
  <2> HIDE DEF l
  <2>5. Queued'
    BY <2>1, <2>4 DEF StopInv, Queued
  <2>6. Accepted'
    BY <2>1, <2>4 DEF StopInv, Accepted
  <2>7. Numbered'
    BY <2>1 DEF StopInv, Numbered, Opened
  <2>8. Stopping'
    BY <2>1, <2>2, <2>3 DEF StopInv, Stopping, OthersWait, At
  <2> QED BY <2>5, <2>6, <2>7, <2>8 DEF StopInv
<1> QED BY <1>1, <1>2 DEF StopClose

LEMMA StopStepStop ==
  ASSUME ReachInv, StopInv, NEW p \in Procs, NEW g \in Callers,
         StopAwait(p, g) \/ StopCut(p, g) \/ StopWait(p, g) \/ CloseStore(p, g)
  PROVE  StopInv'
<1>1. UNCHANGED <<live, acc, to, handler, opened>>
  BY DEF StopAwait, StopCut, StopWait, StopReturns, CloseStore, sockets, links
<1>2. Queued' /\ Accepted' /\ Numbered'
  <2>1. CASE StopCut(p, g)
    <3>1. link' = [c \in Conns |-> IF c \in conns[p] THEN "cut" ELSE link[c]]
      BY <2>1 DEF StopCut
    <3>2. \A c \in Conns : c \in conns[p] => handler[c] # "off"
      BY DEF ReachInv, TypeInv, ConnInv
    <3> QED BY <1>1, <3>1, <3>2 DEF StopInv, Queued, Accepted, Numbered, Opened
  <2>2. CASE UNCHANGED link
    BY <1>1, <2>2, QuietStop
  <2> QED BY <2>1, <2>2 DEF StopAwait, StopWait, StopReturns, CloseStore, links
<1>3. Stopping'
  <2>1. CASE StopAwait(p, g)
    <3>1. At(p, g, "await") /\ acc[call[p][g].lis] = "done" /\ Goto(p, g, "cut")
      BY <2>1 DEF StopAwait
    <3>2. OthersWait(p, g) /\ call'[p][g].at = "cut" /\ call'[p][g].lis = call[p][g].lis
      BY <3>1, GotoChanges DEF ReachInv, TypeInv, Processes, CallStep, OthersWait
    <3> QED BY <1>1, <3>1, <3>2 DEF StopInv, Stopping, OthersWait, At
  <2>2. CASE StopCut(p, g)
    <3>1. At(p, g, "cut") /\ Goto(p, g, "wait")
      BY <2>2 DEF StopCut
    <3>2. OthersWait(p, g) /\ call'[p][g].at = "wait" /\ call'[p][g].lis = call[p][g].lis
      BY <3>1, GotoChanges DEF ReachInv, TypeInv, Processes, CallStep, OthersWait
    <3> QED BY <1>1, <3>1, <3>2 DEF StopInv, Stopping, OthersWait, At
  <2>3. CASE StopWait(p, g) \/ CloseStore(p, g)
    <3>1. Return(p, g) \/ Goto(p, g, "store")
      BY <2>3 DEF StopWait, StopReturns, CloseStore
    <3>2. OthersWait(p, g) /\ call'[p][g].at \in {"idle", "store"}
      BY <3>1, GotoChanges, ReturnChanges
         DEF ReachInv, TypeInv, Processes, CallStep, OthersWait, IdleCall
    <3> QED BY <1>1, <3>2, StoppingKept DEF StopInv
  <2> QED BY <2>1, <2>2, <2>3
<1> QED BY <1>2, <1>3 DEF StopInv

(* Connections come and go. *)
LEMMA DialStop ==
  ASSUME ReachInv, StopInv, NEW c \in Conns, Dial(c)
  PROVE  StopInv'
<1>1. /\ link' = [link EXCEPT ![c] = "queued"] /\ to' = [to EXCEPT ![c] = sock]
      /\ sock \in live /\ UNCHANGED <<live, acc, handler, opened, call>>
  BY DEF Dial, Probed, daemon, sockets
<1>2. Queued' /\ Accepted' /\ Numbered'
  BY <1>1 DEF ReachInv, TypeInv, Links, StopInv, Queued, Accepted, Numbered, Opened
<1>3. Stopping'
  BY <1>1, StoppingStays DEF StopInv
<1> QED BY <1>2, <1>3 DEF StopInv

LEMMA AcceptingStop ==
  ASSUME ReachInv, StopInv, NEW l \in Listener, Accepting(l)
  PROVE  StopInv'
<1>1. CASE \E c \in Conns : Accept(l, c)
  <2>1. PICK c \in Conns : Accept(l, c)
    BY <1>1
  <2>2. /\ acc[l] = "accept" /\ to[c] = l /\ link' = [link EXCEPT ![c] = "up"]
        /\ acc' = [acc EXCEPT ![l] = c] /\ UNCHANGED <<live, to, handler, opened, call>>
    BY <2>1 DEF Accept, daemon
  <2>3. Accepted'
    BY <2>2, ConnsAssumption DEF ReachInv, TypeInv, Sockets, Links, StopInv, Accepted
  <2>4. Queued' /\ Numbered'
    BY <2>2 DEF ReachInv, TypeInv, Sockets, Links, StopInv, Queued, Numbered, Opened
  <2>5. \A k \in Listener : acc[k] = "done" => acc'[k] = "done"
    BY <2>2 DEF ReachInv, TypeInv, Sockets
  <2>6. Stopping'
    BY <2>2, <2>5, StoppingStays DEF StopInv
  <2> QED BY <2>3, <2>4, <2>6 DEF StopInv
<1>2. CASE \E c \in Conns : Register(l, c)
  <2>1. PICK c \in Conns : Register(l, c)
    BY <1>2
  <2>2. acc[l] = c /\ to[c] = l /\ link[c] = "up" /\ UNCHANGED <<live, opened, call>>
    BY <2>1 DEF Register, ReachInv, TypeInv, ConnInv
  <2>3. \/ /\ handler' = [handler EXCEPT ![c] = "read"] /\ UNCHANGED <<link, to>>
           /\ acc' = [acc EXCEPT ![l] = "accept"]
        \/ /\ link' = [link EXCEPT ![c] = "free"] /\ to' = [to EXCEPT ![c] = Nil]
           /\ acc' = [acc EXCEPT ![l] = "done"] /\ UNCHANGED handler
    BY <2>1 DEF Register
  <2>4. \A d \in Conns : d # c => /\ link'[d] = link[d] /\ to'[d] = to[d]
                                  /\ handler'[d] = handler[d]
    BY <2>3 DEF ReachInv, TypeInv, Links
  <2>5. \A k \in Listener : k # l => acc'[k] = acc[k]
    BY <2>3 DEF ReachInv, TypeInv, Sockets
  <2>6. \/ handler'[c] # "off" /\ link'[c] = "up"
        \/ link'[c] = "free"
    BY <2>2, <2>3 DEF ReachInv, TypeInv, Links
  <2>7. Accepted'
    <3> SUFFICES ASSUME NEW d \in Conns, link'[d] \in {"up", "cut"}, handler'[d] = "off"
                 PROVE  acc'[to'[d]] = d
      BY DEF Accepted
    <3>1. d # c
      BY <2>6
    <3>2. link[d] \in {"up", "cut"} /\ handler[d] = "off" /\ to'[d] = to[d]
      BY <2>4, <3>1
    <3>3. acc[to[d]] = d /\ to[d] \in Listener
      BY <3>2 DEF StopInv, Accepted, ReachInv, TypeInv, Links
    <3> QED BY <2>2, <2>5, <3>1, <3>2, <3>3
  <2>8. Queued'
    BY <2>2, <2>4, <2>6 DEF StopInv, Queued
  <2>9. Numbered'
    BY <2>2, <2>5, ConnsAssumption DEF StopInv, Numbered, Opened
  <2>10. \A k \in Listener : acc[k] = "done" => acc'[k] = "done"
    BY <2>2, <2>5, ConnsAssumption
  <2>11. Stopping'
    BY <2>2, <2>10, StoppingStays DEF StopInv
  <2> QED BY <2>7, <2>8, <2>9, <2>11 DEF StopInv
<1>3. CASE AcceptFails(l)
  <2>1. /\ acc[l] = "accept" /\ acc' = [acc EXCEPT ![l] = "done"]
        /\ UNCHANGED <<live, link, to, handler, opened, call>>
    BY <1>3 DEF AcceptFails, daemon, links
  <2>2. Accepted'
    BY <2>1, ConnsAssumption DEF ReachInv, TypeInv, Sockets, Links, StopInv, Accepted
  <2>3. Queued' /\ Numbered'
    BY <2>1 DEF ReachInv, TypeInv, Sockets, StopInv, Queued, Numbered, Opened
  <2>4. \A k \in Listener : acc[k] = "done" => acc'[k] = "done"
    BY <2>1 DEF ReachInv, TypeInv, Sockets
  <2>5. Stopping'
    BY <2>1, <2>4, StoppingStays DEF StopInv
  <2> QED BY <2>2, <2>3, <2>5 DEF StopInv
<1> QED BY <1>1, <1>2, <1>3 DEF Accepting

LEMMA HandlingStop ==
  ASSUME ReachInv, StopInv, NEW c \in Conns, NEW step, NEW next \in {"read", "dispatch", "exit"},
         Handling(c, step, next)
  PROVE  StopInv'
<1>1. /\ handler' = [handler EXCEPT ![c] = next]
      /\ UNCHANGED <<live, acc, link, to, opened, call>>
  BY DEF Handling, daemon, sockets
<1>2. Queued' /\ Accepted' /\ Numbered'
  BY <1>1 DEF ReachInv, TypeInv, Links, StopInv, Queued, Accepted, Numbered, Opened
<1>3. Stopping'
  BY <1>1, StoppingStays DEF StopInv
<1> QED BY <1>2, <1>3 DEF StopInv

LEMMA ServingStop ==
  ASSUME ReachInv, StopInv, NEW c \in Conns, ReadRequest(c) \/ PeerSilent(c) \/ Serving(c)
  PROVE  StopInv'
<1>1. CASE ServeEnds(c)
  <2>1. /\ handler' = [handler EXCEPT ![c] = "off"] /\ link' = [link EXCEPT ![c] = "free"]
        /\ to' = [to EXCEPT ![c] = Nil] /\ UNCHANGED <<live, acc, opened, call>>
    BY <1>1 DEF ServeEnds, sockets
  <2>2. Queued' /\ Accepted' /\ Numbered'
    BY <2>1 DEF ReachInv, TypeInv, Links, StopInv, Queued, Accepted, Numbered, Opened
  <2>3. Stopping'
    BY <2>1, StoppingStays DEF StopInv
  <2> QED BY <2>2, <2>3 DEF StopInv
<1>2. CASE ~ServeEnds(c)
  BY <1>2, HandlingStop DEF Serving, ReadRequest, PeerSilent, ReadFails, Respond, RespondFails
<1> QED BY <1>1, <1>2

LEMMA ExitStop ==
  ASSUME ReachInv, StopInv, NEW p \in Procs, Exit(p)
  PROVE  StopInv'
<1>1. call' = [call EXCEPT ![p] = [g \in Callers |-> IdleCall]]
  BY DEF Exit
<1>2. /\ \A g \in Callers : call'[p][g].at = "idle"
      /\ \A q \in Procs : q # p => call'[q] = call[q]
  BY <1>1 DEF ReachInv, TypeInv, Processes, IdleCall
<1>3. /\ live' = {l \in live : l[1] # p} /\ opened' = opened
      /\ acc' = [l \in Listener |-> IF l[1] = p THEN "off" ELSE acc[l]]
  BY DEF Exit
<1>4. \A c \in Conns :
        \/ link'[c] = "free"
        \/ link'[c] = link[c] /\ to'[c] = to[c] /\ handler'[c] = handler[c]
           /\ (to[c] # Nil => to[c][1] # p)
  BY DEF Exit
<1>5. Queued'
  <2> SUFFICES ASSUME NEW c \in Conns, link'[c] = "queued"
               PROVE  to'[c] \in live'
    BY DEF Queued
  <2>1. link[c] = "queued" /\ to'[c] = to[c] /\ (to[c] # Nil => to[c][1] # p)
    BY <1>4
  <2>2. to[c] # Nil /\ to[c] \in live
    BY <2>1 DEF StopInv, Queued, ReachInv, TypeInv, Links
  <2> QED BY <1>3, <2>1, <2>2
<1>6. Accepted'
  <2> SUFFICES ASSUME NEW c \in Conns, link'[c] \in {"up", "cut"}, handler'[c] = "off"
               PROVE  acc'[to'[c]] = c
    BY DEF Accepted
  <2>1. /\ link[c] \in {"up", "cut"} /\ handler[c] = "off" /\ to'[c] = to[c]
        /\ (to[c] # Nil => to[c][1] # p)
    BY <1>4
  <2>2. to[c] # Nil /\ to[c] \in Listener /\ acc[to[c]] = c
    BY <2>1 DEF StopInv, Accepted, ReachInv, TypeInv, Links
  <2> QED BY <1>3, <2>1, <2>2
<1>7. Numbered'
  BY <1>3 DEF StopInv, Numbered, Opened
<1>8. Stopping'
  <2> SUFFICES ASSUME NEW q \in Procs, NEW h \in Callers,
                      call'[q][h].at \in {"await", "cut", "wait"}
               PROVE  /\ call'[q][h].lis # Nil /\ call'[q][h].lis \notin live'
                      /\ At(q, h, "cut")' \/ At(q, h, "wait")' => acc'[call'[q][h].lis] = "done"
    BY DEF Stopping, At
  <2>1. q # p /\ call'[q][h] = call[q][h]
    BY <1>2
  <2>2. /\ call[q][h].lis # Nil /\ call[q][h].lis \notin live
        /\ At(q, h, "cut") \/ At(q, h, "wait") => acc[call[q][h].lis] = "done"
    BY <2>1 DEF StopInv, Stopping, At
  <2>3. call[q][h].lis \in Listener /\ call[q][h].lis[1] = q
    BY <2>2, CallListener
  <2> QED BY <1>3, <2>1, <2>2, <2>3 DEF At
<1> QED BY <1>5, <1>6, <1>7, <1>8 DEF StopInv

LEMMA StopInit == Init => StopInv
  BY DEF Init, StopInv, Queued, Accepted, Numbered, Stopping, At, IdleCall

LEMMA StopInvStep ==
  ASSUME ReachInv, StopInv, [Next]_vars
  PROVE  StopInv'
<1>1. CASE UNCHANGED vars
  <2>1. UNCHANGED <<live, acc, link, to, handler, opened, call>>
    BY <1>1 DEF vars
  <2> QED BY <2>1, QuietStop, StoppingStays DEF StopInv
<1>2. CASE \E p \in Procs : New(p)
  <2>1. UNCHANGED <<live, acc, link, to, handler, opened, call>>
    BY <1>2 DEF New, sockets, links
  <2> QED BY <2>1, QuietStop, StoppingStays DEF StopInv
<1>3. ASSUME NEW p \in Procs, NEW g \in Callers, Calling(p, g)
      PROVE  StopInv'
  BY <1>3, StartRemoveStop, StartListenStop, StopCloseStop, StopStepStop DEF Calling
<1>4. CASE Next
  BY <1>2, <1>3, <1>4, StartProbeStop, DetachStop, AcceptingStop, DialStop, ServingStop, ExitStop
     DEF Next
<1> QED BY <1>1, <1>4

(* The invariants of DaemonProofs and of this module hold in every run.      *)
LEMMA StopAlways == Spec => [](ReachInv /\ StopInv)
<1>1. Init => ReachInv /\ StopInv
  BY ReachInit, StopInit
<1>2. ReachInv /\ StopInv /\ [Next]_vars => (ReachInv /\ StopInv)'
  BY ReachStep, StopInvStep
<1> QED BY <1>1, <1>2, PTL DEF Spec
---------------------------------------------------------------------------
(* Only a Stop that has waited for the handlers leaves its last step.        *)
LEMMA WaitEnds ==
  ASSUME ReachInv, [Next]_vars, NEW p \in Procs, NEW g \in Callers, At(p, g, "wait"),
         call'[p][g].at \in {"idle", "store"}, mode'[p] # "none"
  PROVE  Handled(p) = {}
<1>1. call' # call
  BY DEF At
<1>2. ASSUME NEW q \in Procs, NEW h \in Callers, OthersWait(q, h)
      PROVE  q = p /\ h = g
  BY <1>2 DEF OthersWait, At
<1>3. ASSUME NEW q \in Procs, NEW h \in Callers, StartProbe(q, h)
      PROVE  FALSE
  <2> DEFINE r == [op |-> "start", at |-> "remove", lis |-> Nil]
  <2>1. r \in Call
    BY DEF Call, CallStep
  <2>2. call' = [call EXCEPT ![q][h] = r] /\ call \in [Procs -> [Callers -> Call]]
    BY <1>3 DEF ReachInv, TypeInv, Processes, StartProbe, BeginStart
  <2> HIDE DEF r
  <2>3. OthersWait(q, h)
    BY <2>1, <2>2, CallChanged DEF OthersWait
  <2> QED BY <1>2, <1>3, <2>3 DEF StartProbe, BeginStart, At
<1>4. ASSUME NEW q \in Procs, NEW h \in Callers, NEW op \in {"stop", "close"}, Detach(q, h, op)
      PROVE  FALSE
  <2>1. PICK r \in Call : call' = [call EXCEPT ![q][h] = r]
    BY <1>4 DEF Detach, Call, CallStep, ReachInv, TypeInv, Processes
  <2>2. OthersWait(q, h)
    BY <2>1, CallChanged DEF ReachInv, TypeInv, Processes, OthersWait
  <2> QED BY <1>2, <1>4, <2>2 DEF Detach, At
<1>5. ASSUME NEW q \in Procs, NEW h \in Callers, Calling(q, h), ~StopWait(q, h)
      PROVE  FALSE
  <2>1. At(q, h, "remove") \/ At(q, h, "listen") \/ At(q, h, "unlink") \/ At(q, h, "shut")
        \/ At(q, h, "await") \/ At(q, h, "cut") \/ At(q, h, "store")
    BY <1>5 DEF Calling, StartRemove, StartListen, StopClose, StopAwait, StopCut, CloseStore
  <2>2. \/ Return(q, h)
        \/ \E s \in {"listen", "shut", "await", "cut", "wait", "store"} : Goto(q, h, s)
    BY <1>5 DEF Calling, StartRemove, StartListen, StopClose, StopAwait, StopCut, CloseStore
  <2>3. OthersWait(q, h)
    BY <2>2, GotoChanges, ReturnChanges
       DEF ReachInv, TypeInv, Processes, CallStep, OthersWait
  <2> QED BY <1>2, <2>1, <2>3 DEF At
<1>6. ASSUME NEW q \in Procs, Exit(q)
      PROVE  FALSE
  <2>1. mode' = [mode EXCEPT ![q] = "none"] /\ mode \in [Procs -> {"none", "server", "client"}]
    BY <1>6 DEF Exit, ReachInv, TypeInv, Processes
  <2>2. q # p
    BY <2>1
  <2>3. call'[p] = call[p]
    BY <1>6, <2>2 DEF Exit, ReachInv, TypeInv, Processes
  <2> QED BY <2>3 DEF At
<1>7. ASSUME NEW q \in Procs, NEW h \in Callers, StopWait(q, h)
      PROVE  Handled(p) = {}
  <2>1. Goto(q, h, "store") \/ Return(q, h)
    BY <1>7 DEF StopWait, StopReturns
  <2>2. OthersWait(q, h)
    BY <2>1, GotoChanges, ReturnChanges
       DEF ReachInv, TypeInv, Processes, CallStep, OthersWait
  <2> QED BY <1>2, <1>7, <2>2 DEF StopWait
<1>8. CASE UNCHANGED call
  BY <1>1, <1>8
<1>9. ASSUME NEW c \in Conns, Dial(c) \/ ReadRequest(c) \/ PeerSilent(c) \/ Serving(c)
      PROVE  UNCHANGED call
  BY <1>9 DEF Dial, ReadRequest, PeerSilent, Serving, ReadFails, Respond, RespondFails, Handling,
              ServeEnds, daemon
<1>10. ASSUME NEW l \in Listener, Accepting(l)
       PROVE  UNCHANGED call
  BY <1>10 DEF Accepting, Accept, Register, AcceptFails, daemon
<1> QED BY <1>3, <1>4, <1>5, <1>6, <1>7, <1>8, <1>9, <1>10 DEF Next, New, vars

(* When the Stop of a daemon has waited, the listener it stopped is closed   *)
(* and every connection that listener was ever given is gone, however many   *)
(* goroutines start and stop the daemon meanwhile.                           *)
THEOREM StopClean == Spec => StopLeavesNothing
<1> DEFINE Clean == \A p \in Procs, g \in Callers :
             At(p, g, "wait") /\ call'[p][g].at \in {"idle", "store"} /\ mode'[p] # "none" =>
               LET l == call[p][g].lis IN l \notin live /\ \A c \in Conns : to[c] # l
<1>1. ReachInv /\ StopInv /\ [Next]_vars => [Clean]_vars
  <2> SUFFICES ASSUME ReachInv, StopInv, [Next]_vars, NEW p \in Procs, NEW g \in Callers,
                      At(p, g, "wait"), call'[p][g].at \in {"idle", "store"}, mode'[p] # "none"
               PROVE  /\ call[p][g].lis \notin live
                      /\ \A c \in Conns : to[c] # call[p][g].lis
    OBVIOUS
  <2> DEFINE l == call[p][g].lis
  <2>1. l # Nil /\ l \notin live /\ acc[l] = "done"
    BY DEF StopInv, Stopping
  <2>2. l \in Listener /\ l[1] = p
    BY <2>1, CallListener
  <2>3. Handled(p) = {}
    BY WaitEnds
  <2> HIDE DEF l
  <2>4. ASSUME NEW c \in Conns, to[c] = l
        PROVE  FALSE
    <3>1. link[c] \in {"queued", "up", "cut"}
      BY <2>1, <2>4 DEF ReachInv, TypeInv, Links
    <3>2. link[c] # "queued"
      BY <2>1, <2>4 DEF StopInv, Queued
    <3>3. handler[c] = "off"
      BY <2>2, <2>3, <2>4 DEF Handled
    <3>4. acc[l] = c
      BY <2>4, <3>1, <3>2, <3>3 DEF StopInv, Accepted
    <3> QED BY <2>1, <3>4, ConnsAssumption
  <2> QED BY <2>1, <2>4 DEF l
<1> QED BY <1>1, StopAlways, PTL DEF Spec, StopLeavesNothing
---------------------------------------------------------------------------
(* What holds where the calls of Start, Stop and Close of a daemon do not    *)
(* overlap: while one is under way the daemon has no listener, a handler     *)
(* outlives its listener only until the Stop has waited, and a closed daemon *)
(* has neither.                                                              *)
Quiet(p) == \A g \in Callers : At(p, g, "idle")
Ending(p, l) ==
  \E g \in Callers :
    call[p][g].lis = l /\ call[p][g].at \in {"unlink", "shut", "await", "cut", "wait"}
Attended(c) == lis[to[c][1]] = to[c] \/ Ending(to[c][1], to[c])

EndInv ==
  /\ \A p \in Procs : ~Quiet(p) => lis[p] = Nil
  /\ \A p \in Procs : store[p] = "closed" => lis[p] = Nil /\ Quiet(p)
  /\ \A c \in Conns : handler[c] # "off" => Attended(c)

OneCaller == \A g, h \in Callers : g = h

LEMMA EndInvImplies ==
  ASSUME TypeInv, EndInv
  PROVE  HandlersBeforeClose
<1> SUFFICES ASSUME NEW p \in Procs, store[p] = "closed", NEW c \in Conns, handler[c] # "off",
                    to[c][1] = p
             PROVE  FALSE
  BY DEF HandlersBeforeClose, Handled
<1>1. lis[p] = Nil /\ Quiet(p)
  BY DEF EndInv
<1>2. ~Ending(p, to[c])
  BY <1>1 DEF Ending, Quiet, At
<1>3. to[c] # Nil
  BY DEF TypeInv, Links, ConnInv
<1> QED BY <1>1, <1>2, <1>3 DEF EndInv, Attended

(* A step of the only caller of p. *)
LEMMA EndMove ==
  ASSUME OneCaller, TypeInv, EndInv, NEW p \in Procs, NEW g \in Callers, OthersWait(p, g),
         handler' = handler, \A c \in Conns : handler[c] # "off" => to'[c] = to[c],
         \A q \in Procs : q # p => lis'[q] = lis[q] /\ store'[q] = store[q],
         call'[p][g].at # "idle" => lis'[p] = Nil,
         store'[p] = "closed" => lis'[p] = Nil /\ call'[p][g].at = "idle",
         \A c \in Conns : handler[c] # "off" /\ to[c][1] = p
                          /\ (lis[p] = to[c] \/ Ending(p, to[c])) =>
           lis'[p] = to[c] \/ Ending(p, to[c])'
  PROVE  EndInv'
<1>1. \A q \in Procs, h \in Callers : q # p => call'[q][h] = call[q][h]
  BY DEF OthersWait
<1>2. \A q \in Procs : q # p => (Quiet(q)' <=> Quiet(q)) /\ \A l : Ending(q, l)' <=> Ending(q, l)
  BY <1>1 DEF Quiet, Ending, At
<1>3. Quiet(p)' <=> call'[p][g].at = "idle"
  BY DEF OneCaller, Quiet, At
<1>4. \A q \in Procs : ~Quiet(q)' => lis'[q] = Nil
  BY <1>2, <1>3 DEF EndInv
<1>5. \A q \in Procs : store'[q] = "closed" => lis'[q] = Nil /\ Quiet(q)'
  BY <1>2, <1>3 DEF EndInv
<1>6. \A c \in Conns : handler'[c] # "off" => Attended(c)'
  <2> SUFFICES ASSUME NEW c \in Conns, handler'[c] # "off"
               PROVE  Attended(c)'
    OBVIOUS
  <2>1. handler[c] # "off" /\ to'[c] = to[c]
    OBVIOUS
  <2>2. to[c][1] \in Procs
    BY <2>1, ListenerParts DEF TypeInv, Links, ConnInv
  <2>3. Attended(c)
    BY <2>1 DEF EndInv
  <2> QED BY <1>2, <2>1, <2>2, <2>3 DEF Attended
<1> QED BY <1>4, <1>5, <1>6 DEF EndInv

(* Steps of nobody's call that add no handler. *)
LEMMA EndStays ==
  ASSUME EndInv, UNCHANGED <<lis, call>>,
         \A p \in Procs : store'[p] = "closed" => store[p] = "closed",
         \A c \in Conns : handler'[c] # "off" => handler[c] # "off" /\ to'[c] = to[c]
  PROVE  EndInv'
  BY DEF EndInv, Attended, Quiet, Ending, At

(* A caller that is idle, or starts the daemon, has no handlers to wait for  *)
(* while there is no listener.                                               *)
LEMMA NoHandlers ==
  ASSUME OneCaller, TypeInv, EndInv, NEW p \in Procs, NEW g \in Callers, lis[p] = Nil,
         call[p][g].at \notin {"unlink", "shut", "await", "cut", "wait"},
         NEW c \in Conns, handler[c] # "off", to[c][1] = p
  PROVE  FALSE
<1>1. ~Ending(p, to[c])
  BY DEF OneCaller, Ending
<1>2. to[c] # Nil
  BY DEF TypeInv, Links, ConnInv
<1> QED BY <1>1, <1>2 DEF EndInv, Attended

LEMMA StartEnd ==
  ASSUME OneCaller, TypeInv, EndInv, NEW p \in Procs, NEW g \in Callers,
         StartProbe(p, g) \/ StartRemove(p, g) \/ StartListen(p, g)
  PROVE  EndInv'
<1>1. OthersWait(p, g)
  <2>1. CASE StartProbe(p, g)
    <3> DEFINE r == [op |-> "start", at |-> "remove", lis |-> Nil]
    <3>1. r \in Call
      BY DEF Call, CallStep
    <3>2. call' = [call EXCEPT ![p][g] = r] /\ call \in [Procs -> [Callers -> Call]]
      BY <2>1 DEF TypeInv, Processes, StartProbe, BeginStart
    <3> HIDE DEF r
    <3> QED BY <3>1, <3>2, CallChanged DEF OthersWait
  <2>2. CASE StartRemove(p, g) \/ StartListen(p, g)
    BY <2>2, GotoChanges, ReturnChanges
       DEF TypeInv, Processes, StartRemove, StartListen, CallStep, OthersWait
  <2> QED BY <2>1, <2>2
<1>2. /\ call[p][g].at \in {"idle", "remove", "listen"}
      /\ UNCHANGED <<store, to, handler>>
  BY DEF StartProbe, BeginStart, StartRemove, StartListen, At, links
<1>3. lis[p] = Nil
  <2>1. CASE StartProbe(p, g)
    BY <2>1 DEF StartProbe, BeginStart
  <2>2. CASE StartRemove(p, g) \/ StartListen(p, g)
    <3>1. ~Quiet(p)
      BY <2>2 DEF StartRemove, StartListen, Quiet, At
    <3> QED BY <3>1 DEF EndInv
  <2> QED BY <2>1, <2>2
<1>4. store[p] # "closed"
  <2>1. CASE StartProbe(p, g)
    BY <2>1 DEF StartProbe, BeginStart
  <2>2. CASE StartRemove(p, g) \/ StartListen(p, g)
    <3>1. ~Quiet(p)
      BY <2>2 DEF StartRemove, StartListen, Quiet, At
    <3> QED BY <3>1 DEF EndInv
  <2> QED BY <2>1, <2>2
<1>5. \A q \in Procs : q # p => lis'[q] = lis[q]
  BY DEF TypeInv, Processes, StartProbe, BeginStart, StartRemove, StartListen
<1>6. call'[p][g].at # "idle" => lis'[p] = Nil
  <2>1. CASE StartListen(p, g)
    BY <2>1, ReturnChanges DEF TypeInv, Processes, StartListen, IdleCall
  <2>2. CASE StartProbe(p, g) \/ StartRemove(p, g)
    BY <1>3, <2>2 DEF StartProbe, BeginStart, StartRemove
  <2> QED BY <2>1, <2>2
<1>7. \A c \in Conns : ~(handler[c] # "off" /\ to[c][1] = p)
  BY <1>2, <1>3, NoHandlers
<1> QED BY <1>1, <1>2, <1>4, <1>5, <1>6, <1>7, EndMove

LEMMA DetachEnd ==
  ASSUME OneCaller, TypeInv, EndInv, NEW p \in Procs, NEW g \in Callers,
         NEW op \in {"stop", "close"}, Detach(p, g, op)
  PROVE  EndInv'
<1>1. lis[p] \in Listener \cup {Nil} /\ call \in [Procs -> [Callers -> Call]]
  BY DEF TypeInv, Processes
<1>2. PICK r \in Call : /\ call' = [call EXCEPT ![p][g] = r] /\ r.lis = lis[p]
                        /\ lis[p] # Nil => r.at = "unlink"
  <2>1. CASE lis[p] # Nil
    <3> DEFINE r == [op |-> op, at |-> "unlink", lis |-> lis[p]]
    <3>1. r \in Call /\ r.lis = lis[p] /\ r.at = "unlink"
      BY <1>1 DEF Call, CallStep
    <3>2. call' = [call EXCEPT ![p][g] = r]
      BY <2>1 DEF Detach
    <3> QED BY <3>1, <3>2
  <2>2. CASE lis[p] = Nil
    <3> DEFINE r == [op |-> op, at |-> "store", lis |-> Nil]
    <3>1. r \in Call /\ r.lis = lis[p]
      BY <2>2 DEF Call, CallStep
    <3>2. call' = [call EXCEPT ![p][g] = r]
      BY <2>2 DEF Detach
    <3> QED BY <2>2, <3>1, <3>2
  <2> QED BY <2>1, <2>2
<1>3. OthersWait(p, g) /\ call'[p][g] = r
  BY <1>1, <1>2, CallChanged DEF OthersWait
<1>4. /\ store[p] # "closed" /\ UNCHANGED <<store, to, handler>>
      /\ At(p, g, "idle") /\ lis'[p] = Nil /\ \A q \in Procs : q # p => lis'[q] = lis[q]
  BY DEF TypeInv, Processes, Detach, links
<1>5. ASSUME NEW c \in Conns, handler[c] # "off", to[c][1] = p
      PROVE  Ending(p, to[c])'
  <2>1. lis[p] # Nil
    BY <1>4, <1>5, NoHandlers DEF At
  <2>2. ~Ending(p, to[c])
    BY <1>4 DEF OneCaller, Ending, At
  <2>3. lis[p] = to[c]
    BY <1>5, <2>2 DEF EndInv, Attended
  <2>4. call'[p][g].lis = to[c] /\ call'[p][g].at = "unlink"
    BY <1>2, <1>3, <2>1, <2>3
  <2>5. to'[c] = to[c]
    BY <1>4
  <2> QED BY <2>4, <2>5 DEF Ending
<1> QED BY <1>3, <1>4, <1>5, EndMove

LEMMA StopEnd ==
  ASSUME OneCaller, TypeInv, EndInv, NEW p \in Procs, NEW g \in Callers,
         StopClose(p, g) \/ StopAwait(p, g) \/ StopCut(p, g) \/ StopWait(p, g) \/ CloseStore(p, g)
  PROVE  EndInv'
<1>1. /\ call[p][g].at \in {"unlink", "shut", "await", "cut", "wait", "store"}
      /\ lis' = lis /\ handler' = handler
  BY DEF StopClose, StopAwait, StopCut, StopWait, StopReturns, CloseStore, At, links
<1>2. ~Quiet(p)
  BY <1>1 DEF Quiet, At
<1>3. lis[p] = Nil /\ store[p] # "closed"
  BY <1>2 DEF EndInv
<1>4. \A c \in Conns : handler[c] # "off" => to'[c] = to[c]
  BY DEF TypeInv, ConnInv, StopClose, Unlink, Shut, StopAwait, StopCut, StopWait, StopReturns,
         CloseStore, links
<1>5. CASE StopClose(p, g) \/ StopAwait(p, g) \/ StopCut(p, g)
  <2>1. PICK s \in {"shut", "await", "cut", "wait"} : Goto(p, g, s)
    BY <1>5 DEF StopClose, StopAwait, StopCut
  <2>2. OthersWait(p, g) /\ call'[p][g].at = s /\ call'[p][g].lis = call[p][g].lis
    BY <2>1, GotoChanges DEF TypeInv, Processes, CallStep, OthersWait
  <2>3. call[p][g].at # "store" /\ store' = store
    BY <1>5 DEF StopClose, StopAwait, StopCut, At
  <2>4. ASSUME NEW c \in Conns, handler[c] # "off", to[c][1] = p
        PROVE  Ending(p, to[c])'
    <3>1. Ending(p, to[c])
      BY <1>3, <2>4 DEF EndInv, Attended, TypeInv, Links, ConnInv
    <3>2. call[p][g].lis = to[c]
      BY <3>1 DEF OneCaller, Ending
    <3>3. call'[p][g].lis = to'[c]
      BY <1>4, <2>2, <2>4, <3>2
    <3> QED BY <2>2, <3>3 DEF Ending
  <2> QED BY <1>1, <1>3, <1>4, <2>2, <2>3, <2>4, EndMove
<1>6. CASE StopWait(p, g) \/ CloseStore(p, g)
  <2>1. Return(p, g) \/ Goto(p, g, "store")
    BY <1>6 DEF StopWait, StopReturns, CloseStore
  <2>2. OthersWait(p, g)
    BY <2>1, GotoChanges, ReturnChanges DEF TypeInv, Processes, CallStep, OthersWait
  <2>3. \A c \in Conns : ~(handler[c] # "off" /\ to[c][1] = p)
    <3>1. CASE StopWait(p, g)
      BY <3>1 DEF StopWait, Handled
    <3>2. CASE CloseStore(p, g)
      BY <1>3, <3>2, NoHandlers DEF CloseStore, At
    <3> QED BY <1>6, <3>1, <3>2
  <2>4. \A q \in Procs : q # p => store'[q] = store[q]
    BY <1>6 DEF TypeInv, Processes, StopWait, StopReturns, CloseStore
  <2>5. store'[p] = "closed" => call'[p][g].at = "idle"
    <3>1. CASE StopWait(p, g)
      BY <1>3, <3>1 DEF StopWait, StopReturns
    <3>2. CASE CloseStore(p, g)
      BY <3>2, ReturnChanges DEF TypeInv, Processes, CloseStore, IdleCall
    <3> QED BY <1>6, <3>1, <3>2
  <2> QED BY <1>1, <1>3, <1>4, <2>2, <2>3, <2>4, <2>5, EndMove
<1> QED BY <1>5, <1>6

(* A handler starts only at the listener its daemon has.                     *)
LEMMA RegisterEnd ==
  ASSUME TypeInv, EndInv, NEW l \in Listener, NEW c \in Conns, Register(l, c)
  PROVE  EndInv'
<1>1. UNCHANGED <<lis, call, store>> /\ to[c] = l /\ handler[c] = "off"
  BY DEF Register, TypeInv, ConnInv
<1>2. CASE lis[l[1]] = l
  <2>1. handler' = [handler EXCEPT ![c] = "read"] /\ to' = to
    BY <1>2 DEF Register
  <2> QED BY <1>1, <1>2, <2>1 DEF TypeInv, Links, EndInv, Attended, Quiet, Ending, At
<1>3. CASE lis[l[1]] # l
  <2>1. handler' = handler /\ to' = [to EXCEPT ![c] = Nil]
    BY <1>3 DEF Register
  <2> QED BY <1>1, <2>1, EndStays DEF TypeInv, Links
<1> QED BY <1>2, <1>3

LEMMA ExitEnd ==
  ASSUME TypeInv, EndInv, NEW p \in Procs, Exit(p)
  PROVE  EndInv'
<1>1. call' = [call EXCEPT ![p] = [g \in Callers |-> IdleCall]]
  BY DEF Exit
<1>2. /\ \A g \in Callers : call'[p][g].at = "idle"
      /\ \A q \in Procs : q # p => call'[q] = call[q]
  BY <1>1 DEF TypeInv, Processes, IdleCall
<1>3. /\ lis'[p] = Nil /\ store'[p] = "none"
      /\ \A q \in Procs : q # p => lis'[q] = lis[q] /\ store'[q] = store[q]
  BY DEF TypeInv, Processes, Exit
<1>4. \A c \in Conns : handler'[c] # "off" =>
        handler[c] # "off" /\ to'[c] = to[c] /\ to[c] # Nil /\ to[c][1] # p
  BY DEF TypeInv, Links, ConnInv, Exit
<1>5. \A q \in Procs : q # p => (Quiet(q)' <=> Quiet(q)) /\ \A k : Ending(q, k)' <=> Ending(q, k)
  BY <1>2 DEF Quiet, Ending, At
<1>6. Quiet(p)'
  BY <1>2 DEF Quiet, At
<1>7. \A q \in Procs : ~Quiet(q)' => lis'[q] = Nil
  BY <1>3, <1>5, <1>6 DEF EndInv
<1>8. \A q \in Procs : store'[q] = "closed" => lis'[q] = Nil /\ Quiet(q)'
  BY <1>3, <1>5 DEF EndInv
<1>9. \A c \in Conns : handler'[c] # "off" => Attended(c)'
  <2> SUFFICES ASSUME NEW c \in Conns, handler'[c] # "off"
               PROVE  Attended(c)'
    OBVIOUS
  <2>1. to[c][1] \in Procs /\ to[c][1] # p /\ handler[c] # "off"
    BY <1>4, ListenerParts DEF TypeInv, Links
  <2>2. Attended(c)
    BY <2>1 DEF EndInv
  <2>3. to'[c] = to[c]
    BY <1>4
  <2> QED BY <1>3, <1>5, <2>1, <2>2, <2>3 DEF Attended
<1> QED BY <1>7, <1>8, <1>9 DEF EndInv

LEMMA EndStep ==
  ASSUME OneCaller, TypeInv, EndInv, [Next]_vars
  PROVE  EndInv'
<1>1. CASE UNCHANGED vars
  BY <1>1, EndStays DEF vars
<1>2. ASSUME NEW p \in Procs, New(p)
      PROVE  EndInv'
  <2>1. UNCHANGED <<lis, call, to, handler>>
    BY <1>2 DEF New, links
  <2>2. \A q \in Procs : store'[q] = "closed" => store[q] = "closed"
    BY <1>2 DEF New, TypeInv, Processes
  <2> QED BY <2>1, <2>2, EndStays
<1>3. ASSUME NEW p \in Procs, NEW g \in Callers, Calling(p, g)
      PROVE  EndInv'
  BY <1>3, StartEnd, StopEnd DEF Calling
<1>4. ASSUME NEW l \in Listener, Accepting(l)
      PROVE  EndInv'
  <2>1. CASE \E c \in Conns : Register(l, c)
    BY <2>1, RegisterEnd
  <2>2. CASE ~\E c \in Conns : Register(l, c)
    BY <1>4, <2>2, EndStays DEF Accepting, Accept, AcceptFails, daemon, links
  <2> QED BY <2>1, <2>2
<1>5. ASSUME NEW c \in Conns, Dial(c)
      PROVE  EndInv'
  <2>1. /\ UNCHANGED <<lis, call, store, handler>> /\ to' = [to EXCEPT ![c] = sock]
        /\ handler[c] = "off"
    BY <1>5 DEF Dial, daemon, TypeInv, ConnInv
  <2> QED BY <2>1, EndStays DEF TypeInv, Links
<1>6. ASSUME NEW c \in Conns, ReadRequest(c) \/ PeerSilent(c) \/ Serving(c)
      PROVE  EndInv'
  <2>1. UNCHANGED <<lis, call, store>>
    BY <1>6 DEF ReadRequest, PeerSilent, Serving, ReadFails, Respond, RespondFails, Handling,
                ServeEnds, daemon
  <2>2. \A d \in Conns : handler'[d] # "off" => handler[d] # "off" /\ to'[d] = to[d]
    BY <1>6 DEF ReadRequest, PeerSilent, Serving, ReadFails, Respond, RespondFails, Handling,
                ServeEnds, TypeInv, Links
  <2> QED BY <2>1, <2>2, EndStays
<1>7. CASE Next
  BY <1>2, <1>3, <1>4, <1>5, <1>6, <1>7, StartEnd, DetachEnd, ExitEnd DEF Next
<1> QED BY <1>1, <1>7

LEMMA EndInit == Init => EndInv
  BY DEF Init, EndInv, Quiet, At, IdleCall

(* Where the calls of Start, Stop and Close of a daemon do not overlap,      *)
(* Close closes the store after the last handler has ended, and none starts  *)
(* on a closed store, in any number of processes and with any connections.   *)
THEOREM HandlersEnd ==
  ASSUME OneCaller
  PROVE  Spec => []HandlersBeforeClose
<1>1. Init => TypeInv /\ EndInv
  BY TypeInit, EndInit
<1>2. TypeInv /\ EndInv /\ [Next]_vars => (TypeInv /\ EndInv)'
  BY TypeStep, EndStep
<1>3. TypeInv /\ EndInv => HandlersBeforeClose
  BY EndInvImplies
<1> QED BY <1>1, <1>2, <1>3, PTL DEF Spec
============================================================================
