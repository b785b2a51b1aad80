----------------------------- MODULE TreeAttach -----------------------------
(***************************************************************************)
(* The attachment tree (internal/tree/manager.go) over WebSocket           *)
(* connections (internal/transport/ws) as cmd/server/main.go wires them: a *)
(* transient dials a substrate, says hello, becomes its child on welcome,  *)
(* and looks for another parent when the connection goes away.             *)
(*                                                                         *)
(* Actors: per transient the goroutine that attaches at start-up, the      *)
(* reattach loop and Stop; per connection and side one read loop, which    *)
(* runs the handlers.  Every critical section of the manager's mutex is    *)
(* one step.  The client's flag closed and the end of its read loop are    *)
(* separate: a local Close sets the first, and the read loop fires the     *)
(* close handlers later.  Every substrate knows every other.  A connection *)
(* number is used again once both sides are through with it.               *)
(***************************************************************************)
EXTENDS Integers, FiniteSets, Sequences

CONSTANTS
  Transients, Substrates,
  Conns,        \* bound: connections at one time
  MaxChildren,  \* MaxChildren[s]: NODE_MAX_CHILDREN of s
  MaxFaults,    \* bound: cut connections, failed dials and timeouts
  MaxShutdowns  \* bound: substrates that shut down

None == "none"

ASSUME TreeAssumption ==
  /\ IsFiniteSet(Transients) /\ IsFiniteSet(Substrates) /\ IsFiniteSet(Conns)
  /\ MaxChildren \in [Substrates -> Nat] /\ MaxFaults \in Nat /\ MaxShutdowns \in Nat
  /\ Conns # {} /\ None \notin Conns \cup Transients \cup Substrates

VARIABLES
  \* The manager of a transient.
  parent,     \* parent[t]: the connection to its parent, or None
  alts,       \* alts[t]: lastKnownAlts
  run,        \* run[t]: the goroutine that attaches: what, where, how far
  stop,       \* stop[t]: how far Stop has come
  taken,      \* taken[t]: the parent Stop has taken and has to close
  attached,   \* history: transients that have had a parent
  \* The manager of a substrate.
  up,         \* substrates whose listener is open
  children,   \* children[s][t]: the connection of child t, or None
  \* Connections.
  owner, target,  \* owner[c], target[c]: its transient and substrate
  linked,     \* connections neither side closed and the network did not cut
  hello,      \* hello[c]: "sent" until it is read, "refused" if turned away, else "none"
  frames,     \* frames[c]: what the substrate has sent, oldest first
  hooks,      \* hooks[c]: the client's handlers: "temp", "gone" or "long"
  answer,     \* answer[c]: what is in attach's channels: welcome, goodbye or close
  closed,     \* connections whose client side is marked closed
  reader,     \* reader[c]: where the client's read loop stands
  serving,    \* connections whose substrate side still reads
  faults

treeVars == <<parent, alts, run, stop, taken, attached>>
subVars  == <<up, children>>
connVars == <<owner, target, linked, hello, frames, hooks, answer, closed, reader, serving>>
vars == <<treeVars, subVars, connVars, faults>>

Idle == [kind |-> "none", pc |-> "idle", layer |-> "none", todo |-> {}, to |-> None, conn |-> None]

\* The loop is running: reattachInFlight.
InFlight(t) == run[t].kind = "loop"
NeverHalts(t) == FALSE   \* mutant: stopping is not consulted
Halts(t) == stop[t] # "running"

\* An unused connection; their names do not matter.
NewConn == CHOOSE c \in Conns : (\E d \in Conns : owner[d] = None) => owner[c] = None

Fault == faults < MaxFaults /\ faults' = faults + 1

\* Where a node looks for a parent: the seeds, what a welcome's topology
\* lists, the sender included, and what a goodbye offers.
Seeds == Substrates
buildAltsFromTopology == Substrates
getAlternativeSubstrates(s) == Substrates \ {s}

\* What is on its way to the client once the substrate has sent f.
SendAttachment(c, f) == IF c \in linked THEN Append(frames[c], f) ELSE frames[c]

-----------------------------------------------------------------------------
(* Attaching: the loop over seeds in main, reattachLoop, tryAlternatives.  *)

\* The loop looks at stopping before each alternative and each layer, and not
\* again until the dial is through; the attach at start-up never does.
GoesOn(t) == run[t].pc = "try" /\ (run[t].kind = "loop" => ~Halts(t))

TryNext(t) ==
  /\ GoesOn(t)
  /\ \E s \in run[t].todo :
       run' = [run EXCEPT ![t].pc = "dialing", ![t].todo = @ \ {s}, ![t].to = s]
  /\ UNCHANGED <<parent, alts, stop, taken, attached, subVars, connVars, faults>>

\* The substrate is gone, the network fails, or Stop cancels the dial.
DialFails(t) ==
  /\ run[t].pc = "dialing"
  /\ IF run[t].to \notin up \/ (run[t].kind = "loop" /\ Halts(t)) THEN UNCHANGED faults ELSE Fault
  /\ run' = [run EXCEPT ![t].pc = "try", ![t].to = None]
  /\ UNCHANGED <<parent, alts, stop, taken, attached, subVars, connVars>>

\* ConnectToSubstrate, then the first half of attach: the temporary handlers
\* are installed before hello is sent.
Dial(t) ==
  LET c == NewConn
      s == run[t].to
  IN
  /\ run[t].pc = "dialing" /\ s \in up
  /\ owner[c] = None
  /\ run' = [run EXCEPT ![t].pc = "waiting", ![t].to = None, ![t].conn = c]
  /\ owner' = [owner EXCEPT ![c] = t]
  /\ target' = [target EXCEPT ![c] = s]
  /\ linked' = linked \cup {c} /\ serving' = serving \cup {c}
  /\ hello' = [hello EXCEPT ![c] = "sent"]
  /\ hooks' = [hooks EXCEPT ![c] = "temp"]
  /\ reader' = [reader EXCEPT ![c] = "reading"]
  /\ UNCHANGED <<parent, alts, stop, taken, attached, subVars, frames, answer, closed, faults>>

\* mutant: the loop gives up after the seeds
OnePass(t, r) ==
  IF r.layer \in {"none", "seeds"} THEN Idle
  ELSE [r EXCEPT !.layer = IF @ = "cached" THEN "seeds" ELSE "cached", !.todo = Seeds]

\* What comes after a layer: the cache after the goodbye's alternatives, the
\* seeds after the cache, and after the backoff the cache again.  The attach
\* at start-up gives up after one pass over the seeds.
Following(t, r) ==
  IF r.kind = "initial" THEN Idle
  ELSE IF r.layer = "cached" THEN [r EXCEPT !.layer = "seeds", !.todo = Seeds]
  ELSE [r EXCEPT !.layer = "cached", !.todo = alts[t]]

\* A layer is through, or the cached layer hits its deadline.
NextLayer(t) ==
  /\ GoesOn(t)
  /\ run[t].todo = {} \/ run[t].layer = "cached"
  /\ run' = [run EXCEPT ![t] = Following(t, @)]
  /\ UNCHANGED <<parent, alts, stop, taken, attached, subVars, connVars, faults>>

\* The loop, its layers and its sleep end as soon as Stop has begun.
LoopHalts(t) ==
  /\ run[t].kind = "loop" /\ run[t].pc = "try" /\ Halts(t)
  /\ run' = [run EXCEPT ![t].pc = "ending"]
  /\ UNCHANGED <<parent, alts, stop, taken, attached, subVars, connVars, faults>>

\* attach takes the welcome and removes its temporary handlers.
Welcomed(t) ==
  LET c == run[t].conn
  IN /\ run[t].pc = "waiting" /\ "welcome" \in answer[c]
     /\ run' = [run EXCEPT ![t].pc = "welcomed"]
     /\ hooks' = [hooks EXCEPT ![c] = "gone"]
     /\ answer' = [answer EXCEPT ![c] = {}]
     /\ UNCHANGED <<parent, alts, stop, taken, attached, subVars, owner, target, linked,
                    hello, frames, closed, reader, serving, faults>>

GivenUp(r) == [r EXCEPT !.pc = "try", !.conn = None]

\* A goodbye or a close, the timer, or the end of the context; the caller
\* closes the connection and goes on with the next alternative.
AttachFails(t) ==
  LET c == run[t].conn
  IN /\ run[t].pc = "waiting"
     /\ \/ answer[c] \ {"welcome"} # {} /\ UNCHANGED faults
        \/ (IF run[t].kind = "loop" THEN Halts(t) ELSE stop[t] = "done") /\ UNCHANGED faults
        \/ Fault
     /\ run' = [run EXCEPT ![t] = GivenUp(@)]
     /\ hooks' = [hooks EXCEPT ![c] = "gone"]
     /\ answer' = [answer EXCEPT ![c] = {}]
     /\ closed' = closed \cup {c}
     /\ linked' = linked \ {c}
     /\ UNCHANGED <<parent, alts, stop, taken, attached, subVars, owner, target,
                    hello, frames, reader, serving>>

\* The welcome makes the connection the parent and its topology the cache.
Register(t) ==
  /\ run[t].pc = "welcomed"
  /\ run' = [run EXCEPT ![t].pc = "registered"]
  /\ parent' = [parent EXCEPT ![t] = run[t].conn]
  /\ alts' = [alts EXCEPT ![t] = buildAltsFromTopology]
  /\ attached' = attached \cup {t}
  /\ UNCHANGED <<stop, taken, subVars, connVars, faults>>

\* The long-lived handlers; a close that was fired before finds nobody.
InstallHandlers(t) ==
  /\ run[t].pc = "registered"
  /\ hooks' = [hooks EXCEPT ![run[t].conn] = "long"]
  /\ run' = [run EXCEPT ![t] = IF @.kind = "initial" THEN Idle ELSE [@ EXCEPT !.pc = "installed"]]
  /\ UNCHANGED <<parent, alts, stop, taken, attached, subVars, owner, target, linked,
                 hello, frames, answer, closed, reader, serving, faults>>

\* The race guard of tryAlternatives.
Activate(t) ==
  LET c == run[t].conn
  IN /\ run[t].pc = "installed"
     /\ run' = [run EXCEPT ![t].pc = IF parent[t] = c /\ c \notin closed THEN "ending" ELSE "try",
                           ![t].conn = None]
     /\ UNCHANGED <<parent, alts, stop, taken, attached, subVars, connVars, faults>>

\* The deferred reset of reattachInFlight.
LoopEnds(t) ==
  /\ run[t].pc = "ending"
  /\ run' = [run EXCEPT ![t] = Idle]
  /\ UNCHANGED <<parent, alts, stop, taken, attached, subVars, connVars, faults>>

Attaching(t) ==
  \/ TryNext(t) \/ DialFails(t) \/ Dial(t) \/ NextLayer(t)
  \/ LoopHalts(t) \/ Welcomed(t) \/ AttachFails(t) \/ Register(t) \/ InstallHandlers(t)
  \/ Activate(t) \/ LoopEnds(t)

-----------------------------------------------------------------------------
(* The client's read loop: frames in order, then the end of the connection.*)

\* A frame for the temporary handlers fills attach's channels; a goodbye for
\* the long-lived handler is checked against the parent first.
ClientFrame(c) ==
  /\ reader[c] = "reading" /\ c \notin closed /\ frames[c] # <<>>
  /\ frames' = [frames EXCEPT ![c] = Tail(@)]
  /\ answer' = [answer EXCEPT ![c] = IF hooks[c] = "temp" THEN @ \cup {Head(frames[c])} ELSE @]
  /\ reader' = [reader EXCEPT ![c] =
       IF hooks[c] = "long" /\ Head(frames[c]) = "goodbye" /\ parent[owner[c]] = c
         THEN "goodbye" ELSE @]
  /\ UNCHANGED <<treeVars, subVars, owner, target, linked, hello, hooks, closed, serving, faults>>

\* The read fails: fireClose runs the handlers installed at this moment.
ClientClose(c) ==
  /\ reader[c] = "reading"
  /\ c \in closed \/ (c \notin linked /\ frames[c] = <<>>)
  /\ closed' = closed \cup {c}
  /\ linked' = linked \ {c}
  /\ frames' = [frames EXCEPT ![c] = <<>>]
  /\ answer' = [answer EXCEPT ![c] = IF hooks[c] = "temp" THEN @ \cup {"close"} ELSE @]
  /\ reader' = [reader EXCEPT ![c] =
       IF hooks[c] = "long" /\ parent[owner[c]] = c THEN "lost" ELSE "done"]
  /\ UNCHANGED <<treeVars, subVars, owner, target, hello, hooks, serving, faults>>

\* Both handlers forget the parent in a second critical section, whoever it
\* is by then; triggerReattach reads stopping before it takes the mutex.
ForgetParent(c) ==
  /\ reader[c] \in {"goodbye", "lost"}
  /\ parent' = [parent EXCEPT ![owner[c]] = None]
  /\ reader' = [reader EXCEPT ![c] =
       IF Halts(owner[c]) THEN (IF @ = "goodbye" THEN "reading" ELSE "done")
       ELSE (IF @ = "goodbye" THEN "goodbye-start" ELSE "lost-start")]
  /\ UNCHANGED <<alts, run, stop, taken, attached, subVars, owner, target, linked, hello,
                 frames, hooks, answer, closed, serving, faults>>

\* Single flight: a trigger that finds the flag set changes nothing.
triggerReattach(c) ==
  LET t == owner[c]
      supplied == IF reader[c] = "goodbye-start" THEN getAlternativeSubstrates(target[c]) ELSE {}
  IN /\ reader[c] \in {"goodbye-start", "lost-start"}
     /\ reader' = [reader EXCEPT ![c] = IF @ = "goodbye-start" THEN "reading" ELSE "done"]
     /\ run' = IF InFlight(t) THEN run
               ELSE [run EXCEPT ![t] = [kind |-> "loop", pc |-> "try", layer |-> "supplied",
                                        todo |-> supplied, to |-> None, conn |-> None]]
     /\ UNCHANGED <<parent, alts, stop, taken, attached, subVars, owner, target, linked, hello,
                    frames, hooks, answer, closed, serving, faults>>

Reading(c) ==
  \/ ClientFrame(c) \/ ClientClose(c) \/ ForgetParent(c) \/ triggerReattach(c)

-----------------------------------------------------------------------------
(* Manager.Stop of a transient.                                            *)
StopBegins(t) ==
  /\ stop[t] = "running"
  /\ stop' = [stop EXCEPT ![t] = "stopping"]
  /\ UNCHANGED <<parent, alts, run, taken, attached, subVars, connVars, faults>>

StopTakes(t) ==
  /\ stop[t] = "stopping"
  /\ stop' = [stop EXCEPT ![t] = "closing"]
  /\ taken' = [taken EXCEPT ![t] = parent[t]]
  /\ parent' = [parent EXCEPT ![t] = None]
  /\ UNCHANGED <<alts, run, attached, subVars, connVars, faults>>

StopCloses(t) ==
  LET c == taken[t]
  IN /\ stop[t] = "closing"
     /\ stop' = [stop EXCEPT ![t] = "waiting"]
     /\ taken' = [taken EXCEPT ![t] = None]
     /\ closed' = IF c = None THEN closed ELSE closed \cup {c}
     /\ linked' = linked \ {c}
     /\ UNCHANGED <<parent, alts, run, attached, subVars, owner, target, hello, frames,
                    hooks, answer, reader, serving, faults>>

ReturnsAtOnce(t) ==   \* mutant: Stop does not wait for the loop
  /\ stop[t] = "waiting"
  /\ stop' = [stop EXCEPT ![t] = "done"]
  /\ UNCHANGED <<parent, alts, run, taken, attached, subVars, connVars, faults>>

\* m.wg.Wait: the loop has ended.
StopReturns(t) ==
  /\ stop[t] = "waiting" /\ ~InFlight(t)
  /\ stop' = [stop EXCEPT ![t] = "done"]
  /\ UNCHANGED <<parent, alts, run, taken, attached, subVars, connVars, faults>>

Stopping(t) == StopTakes(t) \/ StopCloses(t) \/ StopReturns(t)

-----------------------------------------------------------------------------
(* The substrate.                                                          *)
ChildCount(s) == Cardinality({t \in Transients : children[s][t] # None})

\* HandleHello turns the child away; a child that is still counted under an
\* older connection is no exception.
Refuses(c) == ChildCount(target[c]) >= MaxChildren[target[c]]

\* HandleHello runs in the substrate's read loop: register, then welcome, or
\* goodbye with alternatives.  A hello that was sent is read although the
\* connection has been closed since, and then takes the place of whatever
\* connection the child has now.
HandleHello(c) ==
  LET s == target[c]
  IN /\ c \in serving /\ hello[c] = "sent"
     /\ hello' = [hello EXCEPT ![c] = IF Refuses(c) THEN "refused" ELSE "none"]
     /\ IF Refuses(c)
          THEN /\ frames' = [frames EXCEPT ![c] = SendAttachment(c, "goodbye")]
               /\ UNCHANGED children
          ELSE /\ frames' = [frames EXCEPT ![c] = SendAttachment(c, "welcome")]
               /\ children' = [children EXCEPT ![s][owner[c]] = c]
     /\ UNCHANGED <<treeVars, up, owner, target, linked, hooks, answer,
                    closed, reader, serving, faults>>

\* The substrate hangs up: half a second after a redirect, or after 30 s
\* without hello.  What it has sent is still delivered.
SubstrateCloses(c) ==
  /\ c \in serving /\ c \in linked
  /\ \/ hello[c] = "refused" /\ UNCHANGED faults
     \/ hello[c] = "sent" /\ Fault
  /\ linked' = linked \ {c}
  /\ UNCHANGED <<treeVars, subVars, owner, target, hello, frames, hooks, answer, closed,
                 reader, serving>>

KeepsEntry(c) == children   \* mutant: nobody takes the child out
RemovesAny(c) == [children EXCEPT ![target[c]][owner[c]] = None]   \* mutant: no identity check

\* What the close handler leaves of the children: it knows its own entry.
WithoutChild(c) ==
  [children EXCEPT ![target[c]][owner[c]] = IF @ = c THEN None ELSE @]

\* The substrate's read loop ends; a hello it has not read is lost.
ServerClose(c) ==
  /\ c \in serving /\ c \notin linked
  /\ serving' = serving \ {c}
  /\ hello' = [hello EXCEPT ![c] = "none"]
  /\ children' = WithoutChild(c)
  /\ UNCHANGED <<treeVars, up, owner, target, linked, frames, hooks, answer,
                 closed, reader, faults>>

\* Shutdown of a substrate: the listener closes, Stop says goodbye to the
\* children and forgets them.
SubstrateStops(s) ==
  /\ s \in up /\ Cardinality(Substrates \ up) < MaxShutdowns
  /\ up' = up \ {s}
  /\ frames' = [c \in Conns |->
       IF \E t \in Transients : children[s][t] = c
         THEN SendAttachment(c, "goodbye") ELSE frames[c]]
  /\ children' = [children EXCEPT ![s] = [t \in Transients |-> None]]
  /\ UNCHANGED <<treeVars, owner, target, linked, hello, hooks, answer, closed, reader,
                 serving, faults>>

\* The process exits, with its sockets, its read loops and its table.
SubstrateExits(s) ==
  /\ s \notin up
  /\ \E c \in serving : target[c] = s
  /\ linked' = {c \in linked : target[c] # s}
  /\ serving' = {c \in serving : target[c] # s}
  /\ hello' = [c \in Conns |-> IF target[c] = s THEN "none" ELSE hello[c]]
  /\ children' = [children EXCEPT ![s] = [t \in Transients |-> None]]
  /\ UNCHANGED <<treeVars, up, owner, target, frames, hooks, answer, closed, reader, faults>>

\* The network cuts a connection; heartbeat and keep-alive let both sides know.
Cut(c) ==
  /\ c \in linked
  /\ Fault
  /\ linked' = linked \ {c}
  /\ frames' = [frames EXCEPT ![c] = <<>>]
  /\ UNCHANGED <<treeVars, subVars, owner, target, hello, hooks, answer, closed, reader, serving>>

\* Nobody refers to the connection any more.
Forgotten(c) ==
  /\ owner[c] # None /\ c \notin serving /\ reader[c] = "done"
  /\ \A t \in Transients : parent[t] # c /\ taken[t] # c /\ run[t].conn # c
  /\ owner' = [owner EXCEPT ![c] = None]
  /\ target' = [target EXCEPT ![c] = None]
  /\ hooks' = [hooks EXCEPT ![c] = "gone"]
  /\ closed' = closed \ {c}
  /\ UNCHANGED <<treeVars, subVars, linked, hello, frames, answer, reader, serving, faults>>

-----------------------------------------------------------------------------
Init ==
  /\ parent = [t \in Transients |-> None] /\ alts = [t \in Transients |-> {}]
  /\ run = [t \in Transients |-> [Idle EXCEPT !.kind = "initial", !.pc = "try", !.todo = Seeds]]
  /\ stop = [t \in Transients |-> "running"] /\ taken = [t \in Transients |-> None]
  /\ attached = {}
  /\ up = Substrates
  /\ children = [s \in Substrates |-> [t \in Transients |-> None]]
  /\ owner = [c \in Conns |-> None] /\ target = [c \in Conns |-> None]
  /\ linked = {} /\ closed = {} /\ serving = {} /\ hello = [c \in Conns |-> "none"]
  /\ frames = [c \in Conns |-> <<>>] /\ hooks = [c \in Conns |-> "gone"]
  /\ answer = [c \in Conns |-> {}] /\ reader = [c \in Conns |-> "done"]
  /\ faults = 0

Next ==
  \/ \E t \in Transients : Attaching(t) \/ StopBegins(t) \/ Stopping(t)
  \/ \E c \in Conns : Reading(c) \/ HandleHello(c) \/ SubstrateCloses(c)
                       \/ ServerClose(c) \/ Cut(c) \/ Forgotten(c)
  \/ \E s \in Substrates : SubstrateStops(s) \/ SubstrateExits(s)

Spec == Init /\ [][Next]_vars

-----------------------------------------------------------------------------
(* Properties.                                                             *)
\* A substrate's table of children holds only connections its read loop still
\* watches, each under the child it belongs to: a slot is never held by a
\* connection nobody will take out, also where a child reconnected.
ChildrenWatched ==
  \A s \in Substrates, t \in Transients :
    LET c == children[s][t]
    IN c # None => c \in serving /\ owner[c] = t /\ target[c] = s

\* The entry of a connection that works stays while its substrate is up, until
\* a hello of the same child on another connection is read: no close takes it
\* out, however late and in whatever order closes are noticed.  That hello need
\* not be the newer one: HandleHello enters whichever it reads last.
OnlyHelloReplaces ==
  [][\A s \in Substrates, t \in Transients :
       LET c == children[s][t]
           d == children'[s][t]
       IN (c # None /\ c \in linked /\ s \in up' /\ d # c) =>
            /\ d # None /\ owner[d] = t /\ target[d] = s
            /\ hello[d] = "sent" /\ hello'[d] = "none"]_vars

\* A transient of a running node that has been attached has a parent whose end
\* it will notice, or is looking for one.
AttachedOrTrying ==
  \A t \in attached :
    \/ Halts(t) \/ run[t].pc # "idle"
    \/ \E c \in Conns : owner[c] = t /\ reader[c] \notin {"done", "reading"}
    \/ parent[t] # None /\ reader[parent[t]] = "reading" /\ hooks[parent[t]] = "long"

\* Once Stop has returned, the reattach loop is not dialling, shaking hands or
\* making a connection the parent, and a trigger that read stopping before Stop
\* began may only start a loop that ends: Stop waits for a loop that looked at
\* stopping before it was set.
NoAttachAfterStop ==
  \A t \in Transients :
    (stop[t] = "done" /\ InFlight(t)) => run[t].pc \in {"try", "ending"}

(***************************************************************************)
(* Liveness.  Goroutines are scheduled, sent frames arrive or the          *)
(* connection breaks, timers fire.                                         *)
(***************************************************************************)
Fairness ==
  /\ \A t \in Transients : WF_vars(Attaching(t)) /\ WF_vars(Stopping(t))
  /\ \A c \in Conns :
       /\ WF_vars(Reading(c)) /\ WF_vars(HandleHello(c))
       /\ WF_vars(SubstrateCloses(c)) /\ WF_vars(ServerClose(c))
       /\ WF_vars(Forgotten(c))
  /\ \A s \in Substrates : WF_vars(SubstrateExits(s))

LiveSpec == Spec /\ Fairness

\* Stop returns: it waits for a loop that may be dialling, sleeping or in the
\* middle of a handshake.
StopReturnsAtLast ==
  \A t \in Transients : (stop[t] = "stopping") ~> (stop[t] = "done")

\* A connection the transient attached and then lost sight of: it is still
\* open, and neither the parent nor the loop's concern.
Abandoned(t) ==
  \E c \in linked : owner[c] = t /\ parent[t] # c /\ run[t].conn # c /\ taken[t] # c

\* A reattach loop finds a parent, unless the node stops, no substrate is
\* left, or the transient has abandoned an open connection, which may hold
\* the last free slot: also when a substrate still counts the child's old
\* connection, and when another handler started the loop too late.
LoopFindsParent ==
  \A t \in Transients :
    (InFlight(t) /\ run[t].pc = "try" /\ parent[t] = None)
      ~> (parent[t] # None \/ Halts(t) \/ up = {} \/ Abandoned(t))
=============================================================================
