-------------------------- MODULE TreeAttachProofs --------------------------
(***************************************************************************)
(* Proofs about TreeAttach, for every set of transients, substrates and    *)
(* connections, and any limits of children.                                *)
(***************************************************************************)
EXTENDS TreeAttach, TLAPS

\* The part of the state the table of children depends on.
TableTypes ==
  /\ children \in [Substrates -> [Transients -> Conns \cup {None}]]
  /\ owner \in [Conns -> Transients \cup {None}]
  /\ target \in [Conns -> Substrates \cup {None}]
  /\ serving \in SUBSET Conns /\ up \in SUBSET Substrates
  /\ hello \in [Conns -> {"none", "sent", "refused"}]

\* A connection that a substrate reads from has both ends.
ServedHaveEnds == \A c \in serving : owner[c] \in Transients /\ target[c] \in Substrates

TableInv == TableTypes /\ ServedHaveEnds /\ ChildrenWatched

\* A new connection is one nobody owns, if there is one.
LEMMA NewConnFree == NewConn \in Conns
  BY TreeAssumption DEF NewConn

\* The steps that change neither the table nor the ends of a connection.
Aside == UNCHANGED <<up, children, owner, target, serving, hello>>

LEMMA AsideKeeps ==
  ASSUME TableInv, Aside
  PROVE  TableInv'
  BY DEF TableInv, TableTypes, ServedHaveEnds, ChildrenWatched, Aside

\* Of a transient's steps only Dial touches the table or the ends.
LEMMA AttachingKinds ==
  ASSUME NEW t \in Transients, Attaching(t)
  PROVE  Aside \/ Dial(t)
  <1> USE DEF Aside, subVars, connVars
  <1>1. CASE TryNext(t) \/ DialFails(t) \/ NextLayer(t) \/ LoopHalts(t) \/ Activate(t) \/ LoopEnds(t)
    BY <1>1 DEF TryNext, DialFails, NextLayer, LoopHalts, Activate, LoopEnds
  <1>2. CASE Welcomed(t) \/ AttachFails(t) \/ Register(t) \/ InstallHandlers(t)
    BY <1>2 DEF Welcomed, AttachFails, Register, InstallHandlers
  <1> QED BY <1>1, <1>2 DEF Attaching

\* Every step is one of six, or leaves the table alone.
LEMMA StepKinds ==
  ASSUME [Next]_vars
  PROVE  \/ Aside
         \/ \E t \in Transients : Dial(t)
         \/ \E c \in Conns : HandleHello(c) \/ ServerClose(c) \/ Forgotten(c)
         \/ \E s \in Substrates : SubstrateStops(s) \/ SubstrateExits(s)
  <1>1. CASE UNCHANGED vars
    BY <1>1 DEF vars, Aside, subVars, connVars
  <1>2. ASSUME NEW t \in Transients, Attaching(t)
        PROVE  Aside \/ Dial(t)
    BY <1>2, AttachingKinds
  <1>3. ASSUME NEW t \in Transients, StopBegins(t) \/ Stopping(t) PROVE Aside
    BY <1>3 DEF Aside, subVars, connVars, StopBegins, Stopping, StopTakes, StopCloses, StopReturns
  <1>4. ASSUME NEW c \in Conns, Reading(c) \/ SubstrateCloses(c) \/ Cut(c) PROVE Aside
    BY <1>4 DEF Aside, subVars, Reading, ClientFrame, ClientClose, ForgetParent, triggerReattach,
                SubstrateCloses, Cut
  <1> QED BY <1>1, <1>2, <1>3, <1>4 DEF Next

\* Dial gives a connection that nobody watched its two ends.
LEMMA DialKeeps ==
  ASSUME TableInv, NEW t \in Transients, Dial(t)
  PROVE  TableInv'
  <1> DEFINE c == NewConn
             s == run[t].to
  <1>1. c \in Conns /\ s \in Substrates
    BY NewConnFree DEF Dial, TableInv, TableTypes
  <1>2. /\ owner[c] = None /\ serving' = serving \cup {c} /\ UNCHANGED <<children, up>>
        /\ owner' = [owner EXCEPT ![c] = t] /\ target' = [target EXCEPT ![c] = s]
        /\ hello' = [hello EXCEPT ![c] = "sent"]
    BY DEF Dial, subVars
  <1> HIDE DEF c, s
  <1>3. TableTypes'
    BY <1>1, <1>2 DEF TableInv, TableTypes
  <1>4. owner'[c] = t /\ target'[c] = s
    BY <1>1, <1>2 DEF TableInv, TableTypes
  <1>5. \A d \in Conns \ {c} : owner'[d] = owner[d] /\ target'[d] = target[d]
    BY <1>1, <1>2 DEF TableInv, TableTypes
  <1>6. ServedHaveEnds'
    BY <1>1, <1>2, <1>4, <1>5 DEF TableInv, TableTypes, ServedHaveEnds
  <1>7. ChildrenWatched'
    <2> SUFFICES ASSUME NEW s2 \in Substrates, NEW t2 \in Transients, children[s2][t2] # None
                 PROVE  LET d == children[s2][t2]
                        IN d \in serving' /\ owner'[d] = t2 /\ target'[d] = s2
      BY <1>2 DEF ChildrenWatched
    <2> DEFINE d == children[s2][t2]
    <2>1. d \in serving /\ owner[d] = t2 /\ target[d] = s2 /\ d \in Conns
      BY DEF TableInv, TableTypes, ChildrenWatched
    <2>2. d # c
      BY <1>2, <2>1, TreeAssumption
    <2> QED BY <1>2, <1>5, <2>1, <2>2
  <1> QED BY <1>3, <1>6, <1>7 DEF TableInv

\* HandleHello enters a connection that it reads from under its own ends.
LEMMA HelloKeeps ==
  ASSUME TableInv, NEW c \in Conns, HandleHello(c)
  PROVE  TableInv'
  <1>1. /\ c \in serving /\ UNCHANGED <<owner, target, serving, up>>
        /\ hello' = [hello EXCEPT ![c] = IF Refuses(c) THEN "refused" ELSE "none"]
        /\ children' = children \/ children' = [children EXCEPT ![target[c]][owner[c]] = c]
    BY DEF HandleHello
  <1>2. target[c] \in Substrates /\ owner[c] \in Transients
    BY <1>1 DEF TableInv, ServedHaveEnds
  <1>0. hello' \in [Conns -> {"none", "sent", "refused"}]
    BY <1>1 DEF TableInv, TableTypes
  <1>3. CASE children' = children
    BY <1>0, <1>1, <1>3 DEF TableInv, TableTypes, ServedHaveEnds, ChildrenWatched
  <1>4. CASE children' = [children EXCEPT ![target[c]][owner[c]] = c]
    <2>1. TableTypes'
      BY <1>0, <1>1, <1>2, <1>4 DEF TableInv, TableTypes
    <2>2. \A s \in Substrates, t \in Transients :
            children'[s][t] = IF s = target[c] /\ t = owner[c] THEN c ELSE children[s][t]
      BY <1>2, <1>4 DEF TableInv, TableTypes
    <2>3. ChildrenWatched'
      BY <1>1, <1>2, <2>2 DEF TableInv, ChildrenWatched
    <2> QED BY <1>1, <2>1, <2>3 DEF TableInv, ServedHaveEnds
  <1> QED BY <1>1, <1>3, <1>4

\* What the close handler leaves.
LEMMA WithoutChildEntries ==
  ASSUME TableInv, NEW c \in serving
  PROVE  /\ WithoutChild(c) \in [Substrates -> [Transients -> Conns \cup {None}]]
         /\ \A s \in Substrates, t \in Transients :
              WithoutChild(c)[s][t] = IF children[s][t] = c THEN None ELSE children[s][t]
  <1>1. c \in Conns /\ target[c] \in Substrates /\ owner[c] \in Transients
    BY DEF TableInv, TableTypes, ServedHaveEnds
  <1>2. WithoutChild(c) \in [Substrates -> [Transients -> Conns \cup {None}]]
    BY <1>1 DEF WithoutChild, TableInv, TableTypes
  <1>3. ASSUME NEW s \in Substrates, NEW t \in Transients
        PROVE  WithoutChild(c)[s][t] = IF children[s][t] = c THEN None ELSE children[s][t]
    <2>1. CASE s = target[c] /\ t = owner[c]
      BY <1>1, <2>1 DEF WithoutChild, TableInv, TableTypes
    <2>2. CASE ~(s = target[c] /\ t = owner[c])
      <3>1. WithoutChild(c)[s][t] = children[s][t]
        BY <1>1, <2>2 DEF WithoutChild, TableInv, TableTypes
      <3>2. children[s][t] # c
        BY <1>1, <2>2, TreeAssumption DEF TableInv, ChildrenWatched
      <3> QED BY <3>1, <3>2
    <2> QED BY <2>1, <2>2
  <1> QED BY <1>2, <1>3

\* The read loop that ends takes its entry with it.
LEMMA ServerCloseKeeps ==
  ASSUME TableInv, NEW c \in Conns, ServerClose(c)
  PROVE  TableInv'
  <1>1. /\ c \in serving /\ serving' = serving \ {c} /\ children' = WithoutChild(c)
        /\ hello' = [hello EXCEPT ![c] = "none"] /\ UNCHANGED <<owner, target, up>>
    BY DEF ServerClose
  <1>2. /\ children' \in [Substrates -> [Transients -> Conns \cup {None}]]
        /\ \A s \in Substrates, t \in Transients :
             children'[s][t] = IF children[s][t] = c THEN None ELSE children[s][t]
    BY <1>1, WithoutChildEntries
  <1> QED BY <1>1, <1>2 DEF TableInv, TableTypes, ServedHaveEnds, ChildrenWatched

\* A substrate that stops forgets its children.
LEMMA StopKeeps ==
  ASSUME TableInv, NEW s \in Substrates, SubstrateStops(s)
  PROVE  TableInv'
  <1>1. /\ children' = [children EXCEPT ![s] = [t \in Transients |-> None]]
        /\ up' = up \ {s} /\ UNCHANGED <<owner, target, serving, hello>>
    BY DEF SubstrateStops
  <1>2. children' \in [Substrates -> [Transients -> Conns \cup {None}]]
    BY <1>1 DEF TableInv, TableTypes
  <1>3. \A r \in Substrates, t \in Transients : children'[r][t] \in {None, children[r][t]}
    BY <1>1 DEF TableInv, TableTypes
  <1> QED BY <1>1, <1>2, <1>3 DEF TableInv, TableTypes, ServedHaveEnds, ChildrenWatched

\* A substrate that exits leaves no entry of a connection it read from.
LEMMA ExitKeeps ==
  ASSUME TableInv, NEW s \in Substrates, SubstrateExits(s)
  PROVE  TableInv'
  <1>1. /\ children' = [children EXCEPT ![s] = [t \in Transients |-> None]]
        /\ serving' = {c \in serving : target[c] # s}
        /\ hello' = [c \in Conns |-> IF target[c] = s THEN "none" ELSE hello[c]]
        /\ UNCHANGED <<owner, target, up>>
    BY DEF SubstrateExits
  <1>2. TableTypes'
    BY <1>1 DEF TableInv, TableTypes
  <1>3. \A r \in Substrates, t \in Transients :
          children'[r][t] = IF r = s THEN None ELSE children[r][t]
    BY <1>1 DEF TableInv, TableTypes
  <1>4. ServedHaveEnds'
    BY <1>1 DEF TableInv, ServedHaveEnds
  <1>5. ChildrenWatched'
    BY <1>1, <1>3 DEF TableInv, ChildrenWatched
  <1> QED BY <1>2, <1>4, <1>5 DEF TableInv

\* A connection is forgotten once no substrate reads from it.
LEMMA ForgottenKeeps ==
  ASSUME TableInv, NEW c \in Conns, Forgotten(c)
  PROVE  TableInv'
  <1>1. /\ c \notin serving /\ UNCHANGED <<children, serving, up, hello>>
        /\ owner' = [owner EXCEPT ![c] = None] /\ target' = [target EXCEPT ![c] = None]
    BY DEF Forgotten, subVars
  <1>2. TableTypes'
    BY <1>1 DEF TableInv, TableTypes
  <1>3. \A d \in serving : owner'[d] = owner[d] /\ target'[d] = target[d]
    BY <1>1 DEF TableInv, TableTypes
  <1>4. ServedHaveEnds'
    BY <1>1, <1>3 DEF TableInv, ServedHaveEnds
  <1>5. ChildrenWatched'
    BY <1>1, <1>3 DEF TableInv, ChildrenWatched
  <1> QED BY <1>2, <1>4, <1>5 DEF TableInv

LEMMA StepKeeps ==
  ASSUME TableInv, [Next]_vars
  PROVE  TableInv'
  BY StepKinds, AsideKeeps, DialKeeps, HelloKeeps, ServerCloseKeeps, StopKeeps, ExitKeeps,
     ForgottenKeeps

LEMMA InitHolds == Init => TableInv
  BY DEF Init, TableInv, TableTypes, ServedHaveEnds, ChildrenWatched

LEMMA TableAlways == Spec => []TableInv
  <1>1. TableInv /\ [Next]_vars => TableInv'
    BY StepKeeps
  <1> QED BY <1>1, InitHolds, PTL DEF Spec

-----------------------------------------------------------------------------
\* Every entry of a substrate's table of children is a connection its read loop
\* still watches, under the child it belongs to (Manager.HandleHello and the
\* close handler it installs).
THEOREM ChildrenAlwaysWatched == Spec => []ChildrenWatched
  <1>1. TableInv => ChildrenWatched
    BY DEF TableInv
  <1> QED BY <1>1, TableAlways, PTL

\* What OnlyHelloReplaces says of one step.
EntriesKept ==
  \A s \in Substrates, t \in Transients :
    LET c == children[s][t]
        d == children'[s][t]
    IN (c # None /\ c \in linked /\ s \in up' /\ d # c) =>
         /\ d # None /\ owner[d] = t /\ target[d] = s
         /\ hello[d] = "sent" /\ hello'[d] = "none"

LEMMA StepKeepsEntries ==
  ASSUME TableInv, [Next]_vars
  PROVE  EntriesKept
  <1> SUFFICES ASSUME NEW s \in Substrates, NEW t \in Transients,
                      children[s][t] # None, children[s][t] \in linked, s \in up',
                      children'[s][t] # children[s][t]
               PROVE  /\ children'[s][t] # None
                      /\ owner[children'[s][t]] = t /\ target[children'[s][t]] = s
                      /\ hello[children'[s][t]] = "sent" /\ hello'[children'[s][t]] = "none"
    BY DEF EntriesKept
  <1>1. CASE Aside
    BY <1>1 DEF Aside
  <1>2. ASSUME NEW t2 \in Transients, Dial(t2) PROVE FALSE
    BY <1>2 DEF Dial, subVars
  <1>3. ASSUME NEW c \in Conns, HandleHello(c)
        PROVE  children'[s][t] = c /\ owner[c] = t /\ target[c] = s
                 /\ hello[c] = "sent" /\ hello'[c] = "none"
    <2>1. c \in serving /\ hello[c] = "sent"
      BY <1>3 DEF HandleHello
    <2>2. target[c] \in Substrates /\ owner[c] \in Transients
      BY <2>1 DEF TableInv, ServedHaveEnds
    <2>3. ~Refuses(c) /\ children' = [children EXCEPT ![target[c]][owner[c]] = c]
      BY <1>3 DEF HandleHello
    <2>4. hello'[c] = "none"
      BY <1>3, <2>3 DEF HandleHello, TableInv, TableTypes
    <2>5. s = target[c] /\ t = owner[c] /\ children'[s][t] = c
      BY <2>2, <2>3 DEF TableInv, TableTypes
    <2> QED BY <2>1, <2>4, <2>5
  <1>4. ASSUME NEW c \in Conns, ServerClose(c) PROVE FALSE
    <2>1. c \in serving /\ c \notin linked /\ children' = WithoutChild(c)
      BY <1>4 DEF ServerClose
    <2>2. children'[s][t] = IF children[s][t] = c THEN None ELSE children[s][t]
      BY <2>1, WithoutChildEntries
    <2> QED BY <2>1, <2>2
  <1>5. ASSUME NEW c \in Conns, Forgotten(c) PROVE FALSE
    BY <1>5 DEF Forgotten, subVars
  <1>6. ASSUME NEW s2 \in Substrates, SubstrateStops(s2) \/ SubstrateExits(s2) PROVE FALSE
    <2>1. s # s2 /\ children' = [children EXCEPT ![s2] = [u \in Transients |-> None]]
      BY <1>6 DEF SubstrateStops, SubstrateExits
    <2> QED BY <2>1 DEF TableInv, TableTypes
  <1>7. \A c \in Conns : c # None
    BY TreeAssumption
  <1> QED BY <1>1, <1>2, <1>3, <1>4, <1>5, <1>6, <1>7, StepKinds

\* The entry of a working connection changes only when a hello of the same
\* child is read or its substrate stops: no close of another connection takes
\* it out (HandleHello and the identity check of its close handler).
THEOREM EntriesReplacedByHello == Spec => OnlyHelloReplaces
  <1>1. TableInv /\ [Next]_vars =>
          [\A s \in Substrates, t \in Transients :
             LET c == children[s][t]
                 d == children'[s][t]
             IN (c # None /\ c \in linked /\ s \in up' /\ d # c) =>
                  /\ d # None /\ owner[d] = t /\ target[d] = s
                  /\ hello[d] = "sent" /\ hello'[d] = "none"]_vars
    BY StepKeepsEntries DEF EntriesKept
  <1> QED BY <1>1, TableAlways, PTL DEF Spec, OnlyHelloReplaces

-----------------------------------------------------------------------------
(* Stop and the reattach loop.                                             *)
Kinds == {"none", "initial", "loop"}
Places == {"idle", "try", "dialing", "waiting", "welcomed", "registered", "installed", "ending"}
Runs == [kind : Kinds, pc : Places, layer : {"none", "supplied", "cached", "seeds"},
         todo : SUBSET Substrates, to : Substrates \cup {None}, conn : Conns \cup {None}]

\* Where the goroutine that attaches stands, and how far Stop has come.  The
\* cache is there for what NextLayer takes from it.
RunTypes ==
  /\ run \in [Transients -> Runs]
  /\ alts \in [Transients -> SUBSET Substrates]
  /\ stop \in [Transients -> {"running", "stopping", "closing", "waiting", "done"}]

StopInv == RunTypes /\ NoAttachAfterStop

\* The steps that leave the goroutine, the cache and Stop alone.
Elsewhere == UNCHANGED <<run, alts, stop>>

\* A step of the goroutine of t that a loop takes only while Stop has not
\* begun, or that stays clear of attaching.
Moves(t) ==
  \E r \in Runs :
    /\ run' = [run EXCEPT ![t] = r]
    /\ alts' \in [Transients -> SUBSET Substrates] /\ stop' = stop
    /\ \/ r.kind # "loop" \/ r.pc \in {"try", "ending"}
       \/ r.kind = run[t].kind /\ run[t].pc \notin {"try", "ending"}
       \/ r.kind = run[t].kind /\ ~Halts(t)

LEMMA MovesKeep ==
  ASSUME RunTypes, NoAttachAfterStop, NEW t \in Transients, Moves(t)
  PROVE  run' \in [Transients -> Runs] /\ NoAttachAfterStop'
  <1>1. PICK r \in Runs :
          /\ run' = [run EXCEPT ![t] = r] /\ stop' = stop
          /\ \/ r.kind # "loop" \/ r.pc \in {"try", "ending"}
             \/ r.kind = run[t].kind /\ run[t].pc \notin {"try", "ending"}
             \/ r.kind = run[t].kind /\ ~Halts(t)
    BY DEF Moves
  <1>2. \A u \in Transients : run'[u] = IF u = t THEN r ELSE run[u]
    BY <1>1 DEF RunTypes
  <1>3. run' \in [Transients -> Runs]
    BY <1>1 DEF RunTypes
  <1>4. stop[t] = "done" => Halts(t)
    BY DEF Halts
  <1>5. NoAttachAfterStop'
    BY <1>1, <1>2, <1>4 DEF NoAttachAfterStop, InFlight
  <1> QED BY <1>3, <1>5

\* The goroutine goes from one place to the next.
LEMMA AttachingMoves ==
  ASSUME RunTypes, NEW t \in Transients, Attaching(t)
  PROVE  Moves(t)
  <1> DEFINE old == run[t]
  <1>0. old \in Runs /\ alts \in [Transients -> SUBSET Substrates] /\ alts[t] \in SUBSET Substrates
    BY DEF RunTypes
  <1>1. CASE TryNext(t)
    <2>1. PICK s \in old.todo :
            /\ run' = [run EXCEPT ![t].pc = "dialing", ![t].todo = @ \ {s}, ![t].to = s]
            /\ GoesOn(t) /\ UNCHANGED <<alts, stop>>
      BY <1>1 DEF TryNext
    <2> DEFINE r == [old EXCEPT !.pc = "dialing", !.todo = @ \ {s}, !.to = s]
    <2>2. r \in Runs /\ r.kind = old.kind
      BY <1>0, <2>1 DEF Runs, Places
    <2>3. run' = [run EXCEPT ![t] = r]
      BY <2>1 DEF RunTypes, Runs
    <2>4. r.kind # "loop" \/ ~Halts(t)
      BY <2>1, <2>2 DEF GoesOn
    <2> HIDE DEF r
    <2> QED BY <1>0, <2>1, <2>2, <2>3, <2>4 DEF Moves
  <1>2. CASE DialFails(t)
    <2> DEFINE r == [old EXCEPT !.pc = "try", !.to = None]
    <2>1. r \in Runs /\ r.pc = "try"
      BY <1>0 DEF Runs, Places
    <2>2. run' = [run EXCEPT ![t] = r] /\ UNCHANGED <<alts, stop>>
      BY <1>2 DEF DialFails, RunTypes, Runs
    <2> HIDE DEF r
    <2> QED BY <1>0, <2>1, <2>2 DEF Moves
  <1>3. CASE Dial(t)
    <2> DEFINE r == [old EXCEPT !.pc = "waiting", !.to = None, !.conn = NewConn]
    <2>1. r \in Runs /\ r.kind = old.kind
      BY <1>0, NewConnFree DEF Runs, Places
    <2>2. run' = [run EXCEPT ![t] = r] /\ UNCHANGED <<alts, stop>> /\ old.pc = "dialing"
      BY <1>3 DEF Dial, RunTypes, Runs
    <2> HIDE DEF r
    <2> QED BY <1>0, <2>1, <2>2 DEF Moves
  <1>4. CASE NextLayer(t)
    <2> DEFINE r == Following(t, old)
    <2>1. GoesOn(t) /\ UNCHANGED <<alts, stop>> /\ run' = [run EXCEPT ![t] = r]
      BY <1>4 DEF NextLayer, RunTypes
    <2>2. r \in Runs /\ (r.kind # "loop" \/ r.pc = "try")
      BY <1>0, <2>1 DEF GoesOn, Following, Idle, Seeds, Runs, Kinds, Places
    <2> HIDE DEF r
    <2> QED BY <1>0, <2>1, <2>2 DEF Moves
  <1>5. CASE LoopHalts(t)
    <2> DEFINE r == [old EXCEPT !.pc = "ending"]
    <2>1. r \in Runs /\ r.pc = "ending"
      BY <1>0 DEF Runs, Places
    <2>2. run' = [run EXCEPT ![t] = r] /\ UNCHANGED <<alts, stop>>
      BY <1>5 DEF LoopHalts, RunTypes, Runs
    <2> HIDE DEF r
    <2> QED BY <1>0, <2>1, <2>2 DEF Moves
  <1>6. CASE Welcomed(t)
    <2> DEFINE r == [old EXCEPT !.pc = "welcomed"]
    <2>1. r \in Runs /\ r.kind = old.kind
      BY <1>0 DEF Runs, Places
    <2>2. run' = [run EXCEPT ![t] = r] /\ UNCHANGED <<alts, stop>> /\ old.pc = "waiting"
      BY <1>6 DEF Welcomed, RunTypes, Runs
    <2> HIDE DEF r
    <2> QED BY <1>0, <2>1, <2>2 DEF Moves
  <1>7. CASE AttachFails(t)
    <2> DEFINE r == GivenUp(old)
    <2>1. r \in Runs /\ r.pc = "try"
      BY <1>0 DEF GivenUp, Runs, Places
    <2>2. run' = [run EXCEPT ![t] = r] /\ UNCHANGED <<alts, stop>>
      BY <1>7 DEF AttachFails, RunTypes
    <2> HIDE DEF r
    <2> QED BY <1>0, <2>1, <2>2 DEF Moves
  <1>8. CASE Register(t)
    <2> DEFINE r == [old EXCEPT !.pc = "registered"]
    <2>1. r \in Runs /\ r.kind = old.kind
      BY <1>0 DEF Runs, Places
    <2>2. run' = [run EXCEPT ![t] = r] /\ stop' = stop /\ old.pc = "welcomed"
      BY <1>8 DEF Register, RunTypes, Runs
    <2>3. alts' \in [Transients -> SUBSET Substrates]
      BY <1>0, <1>8 DEF Register, buildAltsFromTopology
    <2> HIDE DEF r
    <2> QED BY <2>1, <2>2, <2>3 DEF Moves
  <1>9. CASE InstallHandlers(t)
    <2> DEFINE r == IF old.kind = "initial" THEN Idle ELSE [old EXCEPT !.pc = "installed"]
    <2>1. r \in Runs /\ (r.kind # "loop" \/ r.kind = old.kind)
      BY <1>0 DEF Idle, Runs, Kinds, Places
    <2>2. run' = [run EXCEPT ![t] = r] /\ UNCHANGED <<alts, stop>> /\ old.pc = "registered"
      BY <1>9 DEF InstallHandlers, RunTypes
    <2> HIDE DEF r
    <2> QED BY <1>0, <2>1, <2>2 DEF Moves
  <1>10. CASE Activate(t)
    <2> DEFINE there == IF parent[t] = old.conn /\ old.conn \notin closed THEN "ending" ELSE "try"
               r == [old EXCEPT !.pc = there, !.conn = None]
    <2>0. there \in {"try", "ending"}
      OBVIOUS
    <2>2. run' = [run EXCEPT ![t] = r] /\ UNCHANGED <<alts, stop>>
      BY <1>10 DEF Activate, RunTypes, Runs
    <2> HIDE DEF there
    <2>1. r \in Runs /\ r.pc \in {"try", "ending"}
      BY <1>0, <2>0 DEF Runs, Places
    <2> HIDE DEF r
    <2> QED BY <1>0, <2>1, <2>2 DEF Moves
  <1>11. CASE LoopEnds(t)
    <2>1. run' = [run EXCEPT ![t] = Idle] /\ UNCHANGED <<alts, stop>>
      BY <1>11 DEF LoopEnds
    <2>2. Idle \in Runs /\ Idle.kind # "loop"
      BY DEF Idle, Runs, Kinds, Places
    <2> QED BY <1>0, <2>1, <2>2 DEF Moves
  <1> QED BY <1>1, <1>2, <1>3, <1>4, <1>5, <1>6, <1>7, <1>8, <1>9, <1>10, <1>11 DEF Attaching

\* A loop that a late trigger starts is at its first look at stopping.
LEMMA TriggerMoves ==
  ASSUME TableInv, RunTypes, NEW c \in Conns, triggerReattach(c)
  PROVE  Elsewhere \/ \E t \in Transients : Moves(t)
  <1> DEFINE supplied == IF reader[c] = "goodbye-start" THEN getAlternativeSubstrates(target[c]) ELSE {}
             r == [kind |-> "loop", pc |-> "try", layer |-> "supplied",
                   todo |-> supplied, to |-> None, conn |-> None]
  <1>1. run' = IF InFlight(owner[c]) THEN run ELSE [run EXCEPT ![owner[c]] = r]
    BY DEF triggerReattach
  <1>2. supplied \in SUBSET Substrates /\ UNCHANGED <<alts, stop>>
    BY DEF triggerReattach, getAlternativeSubstrates
  <1> HIDE DEF supplied
  <1>3. r \in Runs /\ r.pc = "try"
    BY <1>2 DEF Runs, Kinds, Places
  <1> HIDE DEF r
  <1>4. CASE owner[c] \notin Transients
    <2>1. run' = run
      BY <1>1, <1>4 DEF RunTypes
    <2> QED BY <1>2, <2>1 DEF Elsewhere
  <1>5. CASE owner[c] \in Transients
    BY <1>1, <1>2, <1>3, <1>5 DEF Elsewhere, Moves, RunTypes
  <1> QED BY <1>4, <1>5

\* The steps of Stop; only its last one matters, and it waits for the loop.
LEMMA StopSteps ==
  ASSUME StopInv, NEW t \in Transients, StopBegins(t) \/ Stopping(t)
  PROVE  StopInv'
  <1>1. PICK w \in {"stopping", "closing", "waiting", "done"} :
          /\ stop' = [stop EXCEPT ![t] = w] /\ UNCHANGED <<run, alts>>
          /\ w = "done" => ~InFlight(t)
    BY DEF StopBegins, Stopping, StopTakes, StopCloses, StopReturns
  <1>2. \A u \in Transients : stop'[u] = IF u = t THEN w ELSE stop[u]
    BY <1>1 DEF StopInv, RunTypes
  <1>3. RunTypes'
    BY <1>1 DEF StopInv, RunTypes
  <1>4. NoAttachAfterStop'
    BY <1>1, <1>2 DEF StopInv, NoAttachAfterStop, InFlight
  <1> QED BY <1>3, <1>4 DEF StopInv

LEMMA StopStepKeeps ==
  ASSUME TableInv, StopInv, [Next]_vars
  PROVE  StopInv'
  <1>1. ASSUME Elsewhere PROVE StopInv'
    BY <1>1 DEF Elsewhere, StopInv, RunTypes, NoAttachAfterStop, InFlight
  <1>2. ASSUME NEW t \in Transients, Moves(t) PROVE StopInv'
    <2>1. stop' = stop /\ alts' \in [Transients -> SUBSET Substrates]
      BY <1>2 DEF Moves
    <2> QED BY <1>2, <2>1, MovesKeep DEF StopInv, RunTypes
  <1>3. ASSUME NEW t \in Transients, Attaching(t) PROVE StopInv'
    BY <1>2, <1>3, AttachingMoves DEF StopInv
  <1>4. ASSUME NEW t \in Transients, StopBegins(t) \/ Stopping(t) PROVE StopInv'
    BY <1>4, StopSteps
  <1>5. ASSUME NEW c \in Conns, Reading(c) PROVE StopInv'
    <2>1. CASE triggerReattach(c)
      BY <1>1, <1>2, <2>1, TriggerMoves DEF StopInv
    <2>2. CASE ClientFrame(c) \/ ClientClose(c) \/ ForgetParent(c)
      BY <1>1, <2>2 DEF Elsewhere, treeVars, ClientFrame, ClientClose, ForgetParent
    <2> QED BY <1>5, <2>1, <2>2 DEF Reading
  <1>6. ASSUME NEW c \in Conns,
               HandleHello(c) \/ SubstrateCloses(c) \/ ServerClose(c) \/ Cut(c) \/ Forgotten(c)
        PROVE  StopInv'
    BY <1>1, <1>6 DEF Elsewhere, treeVars, HandleHello, SubstrateCloses, ServerClose, Cut, Forgotten
  <1>7. ASSUME NEW s \in Substrates, SubstrateStops(s) \/ SubstrateExits(s) PROVE StopInv'
    BY <1>1, <1>7 DEF Elsewhere, treeVars, SubstrateStops, SubstrateExits
  <1>8. CASE UNCHANGED vars
    BY <1>1, <1>8 DEF Elsewhere, treeVars, vars
  <1> QED BY <1>3, <1>4, <1>5, <1>6, <1>7, <1>8 DEF Next

LEMMA StopInit == Init => StopInv
  <1> SUFFICES ASSUME Init PROVE StopInv
    OBVIOUS
  <1> DEFINE r == [Idle EXCEPT !.kind = "initial", !.pc = "try", !.todo = Seeds]
  <1>1. r \in Runs
    BY DEF Idle, Seeds, Runs, Kinds, Places
  <1>2. run = [t \in Transients |-> r] /\ stop = [t \in Transients |-> "running"]
        /\ alts = [t \in Transients |-> {}]
    BY DEF Init
  <1> HIDE DEF r
  <1> QED BY <1>1, <1>2 DEF StopInv, RunTypes, NoAttachAfterStop

\* After Stop has returned, the reattach loop does not dial, shake hands or
\* register a parent: what the loop began before it saw stopping is over when
\* Stop's wait is (Stop, reattachLoop, tryAlternatives and triggerReattach).
THEOREM NeverAttachesAfterStop == Spec => []NoAttachAfterStop
  <1>1. TableInv /\ StopInv /\ [Next]_vars => StopInv'
    BY StopStepKeeps
  <1>2. StopInv => NoAttachAfterStop
    BY DEF StopInv
  <1> QED BY <1>1, <1>2, StopInit, TableAlways, PTL DEF Spec
=============================================================================
