------------------------- MODULE TermSessionProofs -------------------------
(***************************************************************************)
(* The safety properties of TermSession, for every set of session ids,     *)
(* connections and session objects, finite or not, and for all limits; of  *)
(* PaneHost, for every set of panes; and of the two together.              *)
(***************************************************************************)
EXTENDS Terminals, FiniteSetTheorems, TLAPS

\* The sessions that are created or open to panes.
Busy == Creating \cup {"ready", "flagged"}

WithSession == {"creating", "waiting", "opening", "serving"}

\* What a session's stage says of its scratch and its sandbox, and when the linger
\* timer may run.
Staged(s) ==
    /\ scratch[s] => stage[s] \notin {"free", "failed", "gone", "building", "failing"}
    /\ host[s] = "running" => stage[s] \notin {"free", "failed", "building", "starting", "failing"}
    /\ stage[s] \in Creating => linger[s] = "none"

AboutToAttach(s) == \E c \in Conns : Ses(c) = s /\ Pc(c) = "waiting"

Lingers(s) ==
    stage[s] = "ready" =>
        /\ linger[s] = "armed" => panes[s] = 0
        /\ linger[s] = "fired" => s \in due
        /\ panes[s] = 0 => linger[s] = "armed" \/ s \in due \/ AboutToAttach(s)

Counted(s) == IsFiniteSet(Attached(s)) /\ panes[s] = Cardinality(Attached(s))

\* The table lists exactly the sessions that are created or open to panes.
Table ==
    /\ Listed = {s \in Sessions : stage[s] \in Busy}
    /\ IsFiniteSet(Listed) /\ Cardinality(Listed) <= MaxSessions

Refers(c) ==
    /\ Pc(c) \in WithSession => Ses(c) \in Sessions
    /\ Pc(c) \in {"joining", "creating", "waiting"} => conn[c].id \in Ids

Referring == \A c \in Conns : Refers(c)

IInv == TypeOK /\ Referring /\ Table /\ \A s \in Sessions : Staged(s) /\ Lingers(s) /\ Counted(s)

LEMMA InvInit == Init => IInv
<1> SUFFICES ASSUME Init PROVE IInv
  OBVIOUS
<1>1. TypeOK
  BY TermSessionAssumption DEF Init, TypeOK, Stages, Away
<1>2. Referring
  BY DEF Init, Referring, Refers, Away, Pc, WithSession
<1>3. Listed = {}
  BY DEF Init, Listed
<1>4. Table
  BY <1>3, FS_EmptySet, TermSessionAssumption DEF Init, Table, Busy, Creating
<1>5. ASSUME NEW s \in Sessions PROVE Staged(s) /\ Lingers(s)
  BY DEF Init, Staged, Lingers, Creating
<1>6. ASSUME NEW s \in Sessions PROVE Counted(s)
  <2>1. Attached(s) = {}
    BY DEF Init, Attached, Pc, Away
  <2> QED BY <2>1, FS_EmptySet DEF Init, Counted
<1> QED BY <1>1, <1>2, <1>4, <1>5, <1>6 DEF IInv

(***************************************************************************)
(* Types, and what a connection refers to.                                 *)
(***************************************************************************)
LEMMA SpareUnused ==
  ASSUME TypeOK, NEW s \in Spare
  PROVE  /\ s \in Sessions /\ stage[s] \in {"free", "failed", "gone"} /\ host[s] # "running"
         /\ \A c \in Conns : Ses(c) # s
  BY DEF Spare, Over

Connection ==
    [pc : {"away", "joining"} \cup WithSession, id : Ids \cup {None},
     ses : Sessions \cup {None}, attempt : {0, 1}]

\* The creator's record and its entry in the table.
LEMMA NewSessionTyped ==
  ASSUME TypeOK, NEW c \in Conns, NEW s \in Spare, NewSession(c, s)
  PROVE  TypeOK'
<1>1. s \in Sessions
  BY SpareUnused
<1> DEFINE e == [conn[c] EXCEPT !.pc = "creating", !.ses = s]
<1>2. conn \in [Conns -> Connection]
  BY DEF TypeOK, Connection, WithSession
<1>3. e \in Connection
  BY <1>1, <1>2 DEF Connection, WithSession
<1>4. conn' = [conn EXCEPT ![c] = e]
  BY <1>2 DEF NewSession
<1>5. conn' \in [Conns -> Connection]
  BY <1>2, <1>3, <1>4
<1>6. table' \in [Ids -> Sessions \cup {None}]
  BY <1>1 DEF TypeOK, NewSession
<1>7. stage' \in [Sessions -> Stages]
  BY <1>1 DEF TypeOK, NewSession, Stages, Creating
<1>8. panes' \in [Sessions -> 0 .. MaxPanes]
  BY <1>1, TermSessionAssumption DEF TypeOK, NewSession
<1>9. /\ scratch' \in [Sessions -> BOOLEAN]
      /\ host' \in [Sessions -> {"none", "running", "exited"}]
      /\ linger' \in [Sessions -> {"none", "armed", "fired"}] /\ due' \subseteq Sessions
  BY <1>1 DEF TypeOK, NewSession
<1> QED BY <1>5, <1>6, <1>7, <1>8, <1>9 DEF TypeOK, Connection, WithSession

\* panes[s] stays within its bounds: Attach asks for room, and whoever detaches
\* has been counted.
LEMMA PanesTyped ==
  ASSUME IInv, NEW c \in Conns, Attach(c) \/ Detach(c)
  PROVE  panes' \in [Sessions -> 0 .. MaxPanes]
<1>1. Ses(c) \in Sessions
  BY DEF IInv, Referring, Refers, Attach, Detach, WithSession
<1>2. CASE Attach(c)
  <2>1. panes[Ses(c)] + 1 \in 0 .. MaxPanes
    BY <1>1, <1>2, TermSessionAssumption DEF IInv, TypeOK, Attach
  <2> QED BY <1>1, <1>2, <2>1 DEF IInv, TypeOK, Attach
<1>3. CASE Detach(c)
  <2>1. IsFiniteSet(Attached(Ses(c))) /\ panes[Ses(c)] = Cardinality(Attached(Ses(c)))
    BY <1>1 DEF IInv, Counted
  <2>2. c \in Attached(Ses(c))
    BY <1>3 DEF Detach, Attached
  <2>3. panes[Ses(c)] # 0
    BY <2>1, <2>2, FS_EmptySet
  <2>4. panes[Ses(c)] \in 0 .. MaxPanes
    BY <1>1 DEF IInv, TypeOK
  <2>5. panes[Ses(c)] - 1 \in 0 .. MaxPanes
    BY <2>3, <2>4, TermSessionAssumption
  <2> QED BY <1>1, <1>3, <2>5 DEF IInv, TypeOK, Detach
<1> QED BY <1>2, <1>3

\* A connection goes on with its session.
LEMMA MoveTyped ==
  ASSUME TypeOK, NEW c \in Conns, NEW pc \in {"away", "joining"} \cup WithSession,
         NEW s \in Sessions \cup {None},
         conn' = [conn EXCEPT ![c].pc = pc, ![c].ses = s] \/ (MoveTo(c, pc) /\ s = None)
  PROVE  conn' \in [Conns -> Connection]
<1>1. conn \in [Conns -> Connection] /\ conn[c] \in Connection
  BY DEF TypeOK, Connection, WithSession
<1>2. [conn[c] EXCEPT !.pc = pc, !.ses = s] \in Connection /\ [conn[c] EXCEPT !.pc = pc] \in Connection
  BY <1>1 DEF Connection
<1>3. \/ conn' = [conn EXCEPT ![c] = [conn[c] EXCEPT !.pc = pc, !.ses = s]]
      \/ conn' = [conn EXCEPT ![c] = [conn[c] EXCEPT !.pc = pc]]
  BY <1>1 DEF MoveTo
<1> QED BY <1>1, <1>2, <1>3

LEMMA TypeStep == IInv /\ Next => TypeOK'
<1> SUFFICES ASSUME IInv, Next PROVE TypeOK'
  OBVIOUS
<1>1. TypeOK
  BY DEF IInv
<1>2. ASSUME NEW c \in Conns, NEW i \in Ids, Connect(c, i) PROVE TypeOK'
  BY <1>1, <1>2 DEF Connect, TypeOK, Away, sessionVars
<1>3. ASSUME NEW c \in Conns, GetOrCreate(c) PROVE TypeOK'
  <2>1. CASE \E s \in Spare : NewSession(c, s)
    BY <1>1, <2>1, NewSessionTyped
  <2>2. CASE Close(c) /\ UNCHANGED <<table, sessionVars>>
    BY <1>1, <2>2 DEF TypeOK, Close, Away, sessionVars
  <2>3. CASE /\ table[conn[c].id] # None
             /\ conn' = [conn EXCEPT ![c].pc = "waiting", ![c].ses = table[conn[c].id]]
             /\ UNCHANGED <<table, sessionVars>>
    <3>1. table[conn[c].id] \in Sessions
      BY <1>1, <1>3, <2>3 DEF IInv, Referring, Refers, TypeOK, GetOrCreate
    <3>2. conn' \in [Conns -> Connection]
      BY <1>1, <2>3, <3>1, MoveTyped DEF WithSession
    <3> QED BY <1>1, <2>3, <3>2 DEF TypeOK, Connection, WithSession, sessionVars
  <2> QED BY <1>3, <2>1, <2>2, <2>3 DEF GetOrCreate
<1>4. ASSUME NEW c \in Conns, BuildScratch(c) PROVE TypeOK'
  BY <1>1, <1>4 DEF BuildScratch, TypeOK, Stages, Creating, sessionVars
<1>5. ASSUME NEW c \in Conns, StartHost(c) PROVE TypeOK'
  BY <1>1, <1>5 DEF StartHost, TypeOK, Stages, Creating, sessionVars
<1>6. ASSUME NEW c \in Conns, HostReady(c) PROVE TypeOK'
  <2>1. conn' \in [Conns -> Connection]
    BY <1>1, <1>6, MoveTyped DEF HostReady, WithSession
  <2> QED BY <1>1, <1>6, <2>1 DEF HostReady, TypeOK, Connection, WithSession, Stages, sessionVars
<1>7. ASSUME NEW c \in Conns, HostNotReady(c) PROVE TypeOK'
  BY <1>1, <1>7 DEF HostNotReady, TypeOK, Stages, Creating, sessionVars
<1>8. ASSUME NEW c \in Conns, Fail(c) PROVE TypeOK'
  BY <1>1, <1>8 DEF Fail, TypeOK, Stages, Delete, Close, Away, sessionVars
<1>9. ASSUME NEW c \in Conns, Attach(c) PROVE TypeOK'
  BY <1>1, <1>9, PanesTyped, TermSessionAssumption DEF IInv, Referring, Refers, WithSession, Attach, TypeOK, Away, sessionVars
<1>10. ASSUME NEW c \in Conns, Refuse(c) PROVE TypeOK'
  BY <1>1, <1>10 DEF Refuse, TypeOK, Close, Away, sessionVars
<1>11. ASSUME NEW c \in Conns, Retry(c) PROVE TypeOK'
  BY <1>1, <1>11 DEF Retry, TypeOK, sessionVars
<1>12. ASSUME NEW c \in Conns, PaneOpened(c) PROVE TypeOK'
  BY <1>1, <1>12 DEF PaneOpened, TypeOK, MoveTo, sessionVars
<1>13. ASSUME NEW c \in Conns, Detach(c) PROVE TypeOK'
  BY <1>1, <1>13, PanesTyped DEF Detach, TypeOK, Close, Away, sessionVars
<1>14. ASSUME NEW s \in Sessions, HostExits(s) \/ TimerFires(s) \/ LingerFires(s) PROVE TypeOK'
  BY <1>1, <1>14 DEF HostExits, TimerFires, LingerFires, TypeOK, sessionVars
<1>15. ASSUME NEW s \in Sessions, TeardownStep(s) PROVE TypeOK'
  <2>1. CASE FlagClosed(s) \/ Unlist(s)
    BY <1>1, <2>1 DEF FlagClosed, Unlist, TypeOK, Stages, Ending, Delete
  <2>2. CASE EndPanes(s) \/ Kill(s) \/ Reclaim(s)
    BY <1>1, <2>2 DEF EndPanes, Kill, Reclaim, TypeOK, Stages, Ending
  <2> QED BY <1>15, <2>1, <2>2 DEF TeardownStep
<1> QED BY <1>2, <1>3, <1>4, <1>5, <1>6, <1>7, <1>8, <1>9, <1>10, <1>11, <1>12, <1>13, <1>14, <1>15
    DEF Next, JoinStep

LEMMA ReferringStep == IInv /\ Next => Referring'
<1> SUFFICES ASSUME IInv, Next, NEW d \in Conns
             PROVE  Refers(d)'
  BY DEF Referring
<1>1. TypeOK /\ Referring
  BY DEF IInv
<1>2. CASE UNCHANGED conn
  BY <1>1, <1>2 DEF Referring, Refers, Pc, Ses
<1>3. ASSUME NEW c \in Conns, NEW i \in Ids, Connect(c, i) PROVE Refers(d)'
  BY <1>1, <1>3 DEF Connect, Referring, Refers, TypeOK, Pc, Ses, Away, WithSession
<1>4. ASSUME NEW c \in Conns, GetOrCreate(c) PROVE Refers(d)'
  <2>1. conn[c].id \in Ids
    BY <1>1, <1>4 DEF Referring, Refers, GetOrCreate
  <2>2. table[conn[c].id] \in Sessions \cup {None}
    BY <1>1, <2>1 DEF TypeOK
  <2>3. CASE d # c
    BY <1>1, <1>4, <2>3 DEF GetOrCreate, NewSession, Close, Referring, Refers, TypeOK, Pc, Ses
  <2>4. CASE d = c
    BY <1>1, <1>4, <2>1, <2>2, <2>4, SpareUnused
       DEF GetOrCreate, NewSession, Close, Away, TypeOK, Refers, Pc, Ses, WithSession
  <2> QED BY <2>3, <2>4
<1>5. ASSUME NEW c \in Conns, HostReady(c) \/ PaneOpened(c) PROVE Refers(d)'
  BY <1>1, <1>5 DEF HostReady, PaneOpened, MoveTo, Referring, Refers, TypeOK, Pc, Ses, WithSession
<1>6. ASSUME NEW c \in Conns, Fail(c) \/ Refuse(c) \/ Detach(c) PROVE Refers(d)'
  BY <1>1, <1>6 DEF Fail, Refuse, Detach, Close, Away, Referring, Refers, TypeOK, Pc, Ses, WithSession
<1>7. ASSUME NEW c \in Conns, Attach(c) PROVE Refers(d)'
  BY <1>1, <1>7 DEF Attach, Away, Referring, Refers, TypeOK, Pc, Ses, WithSession
<1>8. ASSUME NEW c \in Conns, Retry(c) PROVE Refers(d)'
  BY <1>1, <1>8 DEF Retry, Referring, Refers, TypeOK, Pc, Ses, WithSession
<1>9. \/ UNCHANGED conn
      \/ \E c \in Conns : \/ \E i \in Ids : Connect(c, i)
                          \/ GetOrCreate(c) \/ HostReady(c) \/ PaneOpened(c) \/ Fail(c) \/ Refuse(c)
                          \/ Detach(c) \/ Attach(c) \/ Retry(c)
  BY DEF Next, JoinStep, TeardownStep, BuildScratch, StartHost, HostNotReady, HostExits,
     TimerFires, LingerFires, FlagClosed, Unlist, EndPanes, Kill, Reclaim
<1> QED BY <1>2, <1>3, <1>4, <1>5, <1>6, <1>7, <1>8, <1>9

(***************************************************************************)
(* The table.                                                              *)
(***************************************************************************)
LEMMA Unlisting ==
  ASSUME IInv, NEW s \in Sessions, Delete(s), stage' = [stage EXCEPT ![s] = "failed"]
                                              \/ stage' = [stage EXCEPT ![s] = "unlisted"]
  PROVE  Table'
<1>1. Listed' = Listed \ {s}
  BY TermSessionAssumption DEF IInv, TypeOK, Listed, Delete
<1>2. {q \in Sessions : stage'[q] \in Busy} = {q \in Sessions : stage[q] \in Busy} \ {s}
  BY DEF IInv, TypeOK, Busy, Creating
<1>3. IsFiniteSet(Listed \ {s}) /\ Cardinality(Listed \ {s}) <= Cardinality(Listed)
  BY FS_Subset DEF IInv, Table
<1>4. Cardinality(Listed \ {s}) <= MaxSessions
  BY <1>3, FS_CardinalityType, TermSessionAssumption DEF IInv, Table
<1> QED BY <1>1, <1>2, <1>3, <1>4 DEF IInv, Table

LEMMA Listing ==
  ASSUME IInv, NEW c \in Conns, Pc(c) = "joining", NEW s \in Spare, NewSession(c, s),
         table[conn[c].id] = None, Cardinality(Listed) < MaxSessions
  PROVE  Table'
<1>1. s \in Sessions /\ conn[c].id \in Ids
  BY SpareUnused DEF IInv, Referring, Refers
<1>2. Listed' = Listed \cup {s}
  BY <1>1, TermSessionAssumption DEF IInv, TypeOK, Listed, NewSession
<1>3. {q \in Sessions : stage'[q] \in Busy} = {q \in Sessions : stage[q] \in Busy} \cup {s}
  <2>1. \A q \in Sessions : stage'[q] = IF q = s THEN "building" ELSE stage[q]
    BY <1>1 DEF IInv, TypeOK, NewSession
  <2>2. "building" \in Busy
    BY DEF Busy, Creating
  <2>3. \A q \in Sessions : stage'[q] \in Busy <=> stage[q] \in Busy \/ q = s
    BY <2>1, <2>2
  <2> QED BY <1>1, <2>3
<1>4. IsFiniteSet(Listed \cup {s}) /\ Cardinality(Listed \cup {s}) <= Cardinality(Listed) + 1
  <2>1. IsFiniteSet(Listed)
    BY DEF IInv, Table
  <2>2. /\ IsFiniteSet(Listed \cup {s})
        /\ s \in Listed \/ Cardinality(Listed \cup {s}) = Cardinality(Listed) + 1
    BY <2>1, FS_AddElement
  <2>3. CASE s \in Listed
    <3>1. Listed \cup {s} = Listed
      BY <2>3
    <3>2. Cardinality(Listed) \in Nat
      BY <2>1, FS_CardinalityType
    <3>3. Cardinality(Listed) <= Cardinality(Listed) + 1
      BY <3>2
    <3> QED BY <2>1, <3>1, <3>3
  <2>4. CASE s \notin Listed
    <3>1. Cardinality(Listed \cup {s}) = Cardinality(Listed) + 1
      BY <2>2, <2>4
    <3>2. Cardinality(Listed) \in Nat
      BY <2>1, FS_CardinalityType
    <3>3. Cardinality(Listed \cup {s}) <= Cardinality(Listed) + 1
      BY <3>1, <3>2
    <3> QED BY <2>2, <3>3
  <2> QED BY <2>3, <2>4
<1>5. Cardinality(Listed) \in Nat /\ Cardinality(Listed \cup {s}) \in Nat
  <2>1. IsFiniteSet(Listed)
    BY DEF IInv, Table
  <2> QED BY <1>4, <2>1, FS_CardinalityType
<1>6. Cardinality(Listed \cup {s}) <= MaxSessions
  BY <1>4, <1>5, TermSessionAssumption
<1> QED BY <1>2, <1>3, <1>4, <1>6 DEF IInv, Table

\* Every other step leaves the table alone, and a session busy or not.
LEMMA TableSame ==
  ASSUME IInv, table' = table, \A s \in Sessions : stage'[s] \in Busy <=> stage[s] \in Busy
  PROVE  Table'
<1>1. Listed' = Listed
  BY DEF Listed
<1>2. {q \in Sessions : stage'[q] \in Busy} = {q \in Sessions : stage[q] \in Busy}
  OBVIOUS
<1> QED BY <1>1, <1>2 DEF IInv, Table

LEMMA TableStep == IInv /\ Next => Table'
<1> SUFFICES ASSUME IInv, Next PROVE Table'
  OBVIOUS
<1>1. ASSUME NEW c \in Conns, GetOrCreate(c) PROVE Table'
  <2>1. CASE UNCHANGED <<table, sessionVars>>
    BY <2>1, TableSame DEF sessionVars
  <2> QED BY <1>1, <2>1, Listing DEF GetOrCreate
<1>2. ASSUME NEW c \in Conns, Fail(c) PROVE Table'
  BY <1>2, Unlisting DEF Fail, IInv, Referring, Refers, WithSession
<1>3. ASSUME NEW s \in Sessions, Unlist(s) PROVE Table'
  BY <1>3, Unlisting DEF Unlist
<1>4. ASSUME NEW c \in Conns, BuildScratch(c) \/ StartHost(c) \/ HostReady(c) \/ HostNotReady(c)
      PROVE  Table'
  <2>1. table' = table /\ \A s \in Sessions : stage'[s] \in Busy <=> stage[s] \in Busy
    BY <1>4 DEF BuildScratch, StartHost, HostReady, HostNotReady, Busy, Creating, IInv, TypeOK
  <2> QED BY <2>1, TableSame
<1>5. ASSUME NEW s \in Sessions, FlagClosed(s) \/ EndPanes(s) \/ Kill(s) \/ Reclaim(s)
      PROVE  Table'
  <2>1. table' = table /\ \A q \in Sessions : stage'[q] \in Busy <=> stage[q] \in Busy
    BY <1>5 DEF FlagClosed, EndPanes, Kill, Reclaim, Busy, Creating, IInv, TypeOK
  <2> QED BY <2>1, TableSame
<1>6. CASE UNCHANGED <<table, stage>>
  BY <1>6, TableSame
<1>7. \/ UNCHANGED <<table, stage>>
      \/ \E c \in Conns : GetOrCreate(c) \/ Fail(c) \/ BuildScratch(c) \/ StartHost(c)
                          \/ HostReady(c) \/ HostNotReady(c)
      \/ \E s \in Sessions : Unlist(s) \/ FlagClosed(s) \/ EndPanes(s) \/ Kill(s) \/ Reclaim(s)
  BY DEF Next, JoinStep, TeardownStep, Connect, Attach, Refuse, Retry, PaneOpened, Detach,
     HostExits, TimerFires, LingerFires, sessionVars
<1> QED BY <1>1, <1>2, <1>3, <1>4, <1>5, <1>6, <1>7

(***************************************************************************)
(* The count of panes.                                                     *)
(***************************************************************************)
Attaches(d) == Pc(d) \in {"opening", "serving"}

\* A step that nobody attaches or detaches in.
LEMMA CountSame ==
  ASSUME IInv, NEW s \in Sessions, panes'[s] = panes[s],
         \A d \in Conns : \/ conn'[d] = conn[d] 
                          \/ ~Attaches(d) /\ ~Attaches(d)'
                          \/ Attaches(d) /\ Attaches(d)' /\ Ses(d)' = Ses(d)
  PROVE  Counted(s)'
<1>1. Attached(s)' = Attached(s)
  BY DEF Attached, Attaches, Pc, Ses
<1> QED BY <1>1 DEF IInv, Counted

LEMMA CountNew ==
  ASSUME IInv, NEW c \in Conns, NEW t \in Spare, Pc(c) = "joining", NewSession(c, t),
         NEW s \in Sessions
  PROVE  Counted(s)'
<1>1. t \in Sessions /\ \A d \in Conns : Ses(d) # t
  BY SpareUnused DEF IInv
<1>2. ~Attaches(c) /\ ~Attaches(c)' /\ \A d \in Conns \ {c} : conn'[d] = conn[d]
  BY DEF IInv, TypeOK, NewSession, Attaches, Pc
<1>3. CASE s # t
  BY <1>1, <1>2, <1>3, CountSame DEF IInv, TypeOK, NewSession
<1>4. CASE s = t
  <2>1. Attached(s)' = {}
    BY <1>1, <1>2, <1>4 DEF Attached, Attaches, Pc, Ses
  <2> QED BY <1>1, <1>4, <2>1, FS_EmptySet DEF IInv, TypeOK, NewSession, Counted
<1> QED BY <1>3, <1>4

LEMMA CountAttach ==
  ASSUME IInv, NEW c \in Conns, Attach(c), NEW s \in Sessions
  PROVE  Counted(s)'
<1>1. ~Attaches(c) /\ Ses(c) \in Sessions
  BY DEF Attach, Attaches, IInv, Referring, Refers, WithSession
<1>2. Ses(c)' = Ses(c) /\ Attaches(c)' /\ \A d \in Conns \ {c} : conn'[d] = conn[d]
  BY DEF Attach, IInv, TypeOK, Attaches, Away, Pc, Ses
<1>3. CASE s = Ses(c)
  <2>1. Attached(s)' = Attached(s) \cup {c} /\ c \notin Attached(s)
    BY <1>1, <1>2, <1>3 DEF Attached, Attaches, Pc, Ses
  <2>2. panes'[s] = panes[s] + 1
    BY <1>1, <1>3 DEF Attach, IInv, TypeOK
  <2> QED BY <2>1, <2>2, FS_AddElement DEF IInv, Counted
<1>4. CASE s # Ses(c)
  <2>1. Attached(s)' = Attached(s)
    BY <1>1, <1>2, <1>4 DEF Attached, Attaches, Pc, Ses
  <2>2. panes'[s] = panes[s]
    BY <1>1, <1>4 DEF Attach, IInv, TypeOK
  <2> QED BY <2>1, <2>2 DEF IInv, Counted
<1> QED BY <1>3, <1>4

LEMMA CountDetach ==
  ASSUME IInv, NEW c \in Conns, Detach(c), NEW s \in Sessions
  PROVE  Counted(s)'
<1>1. Attaches(c) /\ Ses(c) \in Sessions
  BY DEF Detach, Attaches, IInv, Referring, Refers, WithSession
<1>2. ~Attaches(c)' /\ \A d \in Conns \ {c} : conn'[d] = conn[d]
  BY DEF Detach, Close, IInv, TypeOK, Attaches, Away, Pc
<1>3. CASE s = Ses(c)
  <2>1. Attached(s)' = Attached(s) \ {c} /\ c \in Attached(s)
    BY <1>1, <1>2, <1>3 DEF Attached, Attaches, Pc, Ses
  <2>2. panes'[s] = panes[s] - 1
    BY <1>1, <1>3 DEF Detach, IInv, TypeOK
  <2> QED BY <2>1, <2>2, FS_RemoveElement DEF IInv, Counted
<1>4. CASE s # Ses(c)
  <2>1. Attached(s)' = Attached(s)
    BY <1>1, <1>2, <1>4 DEF Attached, Attaches, Pc, Ses
  <2>2. panes'[s] = panes[s]
    BY <1>1, <1>4 DEF Detach, IInv, TypeOK
  <2> QED BY <2>1, <2>2 DEF IInv, Counted
<1> QED BY <1>3, <1>4

LEMMA CountStep == ASSUME IInv, Next, NEW s \in Sessions PROVE Counted(s)'
<1>1. CASE UNCHANGED <<panes, conn>>
  BY <1>1, CountSame
<1>2. ASSUME NEW c \in Conns, GetOrCreate(c) PROVE Counted(s)'
  <2>1. CASE UNCHANGED <<table, sessionVars>>
    <3>1. ~Attaches(c) /\ ~Attaches(c)' /\ \A d \in Conns \ {c} : conn'[d] = conn[d]
      BY <1>2 DEF GetOrCreate, NewSession, Close, Away, IInv, TypeOK, Attaches, Pc
    <3> QED BY <2>1, <3>1, CountSame DEF sessionVars
  <2> QED BY <1>2, <2>1, CountNew DEF GetOrCreate
<1>3. ASSUME NEW c \in Conns, NEW i \in Ids, Connect(c, i) PROVE Counted(s)'
  <2>1. ~Attaches(c) /\ ~Attaches(c)' /\ \A d \in Conns \ {c} : conn'[d] = conn[d]
    BY <1>3 DEF Connect, Away, IInv, TypeOK, Attaches, Pc
  <2> QED BY <1>3, <2>1, CountSame DEF Connect, sessionVars
<1>4. ASSUME NEW c \in Conns, HostReady(c) \/ Fail(c) \/ Refuse(c) \/ Retry(c) PROVE Counted(s)'
  <2>1. ~Attaches(c) /\ ~Attaches(c)' /\ \A d \in Conns \ {c} : conn'[d] = conn[d]
    BY <1>4 DEF HostReady, Fail, Refuse, Retry, MoveTo, Close, Away, IInv, TypeOK, Attaches, Pc
  <2> QED BY <1>4, <2>1, CountSame DEF HostReady, Fail, Refuse, Retry, sessionVars
<1>5. ASSUME NEW c \in Conns, PaneOpened(c) PROVE Counted(s)'
  <2>1. Attaches(c) /\ Attaches(c)' /\ Ses(c)' = Ses(c) /\ \A d \in Conns \ {c} : conn'[d] = conn[d]
    BY <1>5 DEF PaneOpened, MoveTo, IInv, TypeOK, Attaches, Pc, Ses
  <2> QED BY <1>5, <2>1, CountSame DEF PaneOpened, sessionVars
<1>6. \/ UNCHANGED <<panes, conn>>
      \/ \E c \in Conns : \/ GetOrCreate(c) \/ HostReady(c) \/ Fail(c) \/ Refuse(c) \/ Retry(c)
                          \/ PaneOpened(c) \/ Attach(c) \/ Detach(c)
                          \/ \E i \in Ids : Connect(c, i)
  BY DEF Next, JoinStep, TeardownStep, BuildScratch, StartHost, HostNotReady, HostExits,
     TimerFires, LingerFires, FlagClosed, Unlist, EndPanes, Kill, Reclaim
<1> QED BY <1>1, <1>2, <1>3, <1>4, <1>5, <1>6, CountAttach, CountDetach

(***************************************************************************)
(* Scratch, sandbox and linger timer.                                      *)
(***************************************************************************)
LEMMA StagedStep == ASSUME IInv, Next, NEW s \in Sessions PROVE Staged(s)'
<1>1. Staged(s) /\ TypeOK
  BY DEF IInv
<1>2. CASE UNCHANGED <<scratch, host, stage, linger>>
  BY <1>1, <1>2 DEF Staged
<1>3. ASSUME NEW c \in Conns, NEW t \in Spare, NewSession(c, t) PROVE Staged(s)'
  <2>1. t \in Sessions /\ stage[t] \in {"free", "failed", "gone"} /\ Staged(t)
    BY SpareUnused DEF IInv
  <2> QED BY <1>1, <1>3, <2>1 DEF NewSession, Staged, TypeOK, Creating
<1>4. ASSUME NEW c \in Conns, BuildScratch(c) PROVE Staged(s)'
  BY <1>1, <1>4 DEF BuildScratch, Staged, TypeOK, Creating
<1>5. ASSUME NEW c \in Conns, StartHost(c) PROVE Staged(s)'
  BY <1>1, <1>5 DEF StartHost, Staged, TypeOK, Creating
<1>6. ASSUME NEW c \in Conns, HostReady(c) \/ HostNotReady(c) PROVE Staged(s)'
  BY <1>1, <1>6 DEF HostReady, HostNotReady, Staged, TypeOK, Creating
<1>7. ASSUME NEW c \in Conns, Fail(c) PROVE Staged(s)'
  BY <1>1, <1>7 DEF Fail, Staged, TypeOK, Creating
<1>8. ASSUME NEW c \in Conns, Attach(c) PROVE Staged(s)'
  BY <1>1, <1>8 DEF Attach, Staged, TypeOK, Creating
<1>9. ASSUME NEW c \in Conns, Detach(c) PROVE Staged(s)'
  BY <1>1, <1>9 DEF Detach, Staged, TypeOK, Creating
<1>10. ASSUME NEW t \in Sessions, HostExits(t) \/ LingerFires(t) PROVE Staged(s)'
  BY <1>1, <1>10 DEF HostExits, LingerFires, Staged, TypeOK, Creating
<1>11. ASSUME NEW t \in Sessions, TeardownStep(t) PROVE Staged(s)'
  BY <1>1, <1>11 DEF TeardownStep, FlagClosed, Unlist, EndPanes, Kill, Reclaim, Staged, TypeOK, Creating
<1>12. \/ UNCHANGED <<scratch, host, stage, linger>>
       \/ \E c \in Conns : \/ \E t \in Spare : NewSession(c, t)
                           \/ BuildScratch(c) \/ StartHost(c) \/ HostReady(c) \/ HostNotReady(c)
                           \/ Fail(c) \/ Attach(c) \/ Detach(c)
       \/ \E t \in Sessions : HostExits(t) \/ LingerFires(t) \/ TeardownStep(t)
  BY DEF Next, JoinStep, Connect, GetOrCreate, Refuse, Retry, PaneOpened, TimerFires, sessionVars
<1> QED BY <1>2, <1>3, <1>4, <1>5, <1>6, <1>7, <1>8, <1>9, <1>10, <1>11, <1>12

\* A step that keeps the session's own variables and all who wait for it.
LEMMA LingersSame ==
  ASSUME IInv, NEW s \in Sessions,
         stage'[s] = "ready" => /\ stage[s] = "ready" /\ linger'[s] = linger[s]
                                /\ panes'[s] = panes[s] /\ (s \in due => s \in due')
                                /\ (panes[s] = 0 /\ AboutToAttach(s) => AboutToAttach(s)')
  PROVE  Lingers(s)'
BY DEF IInv, Lingers

LEMMA LingersStep == ASSUME IInv, Next, NEW s \in Sessions PROVE Lingers(s)'
<1>1. TypeOK /\ Lingers(s) /\ Staged(s)
  BY DEF IInv
<1>2. CASE UNCHANGED <<stage, linger, panes, due, conn>>
  BY <1>2, LingersSame DEF AboutToAttach, Ses, Pc
<1>3. ASSUME NEW c \in Conns, Pc(c) # "waiting", UNCHANGED <<stage, linger, panes, due>>,
             \A d \in Conns \ {c} : conn'[d] = conn[d]
      PROVE  Lingers(s)'
  <2>1. AboutToAttach(s) => AboutToAttach(s)'
    BY <1>3 DEF AboutToAttach, Ses, Pc
  <2> QED BY <1>3, <2>1, LingersSame
<1>4. ASSUME NEW c \in Conns, NEW i \in Ids, Connect(c, i) PROVE Lingers(s)'
  BY <1>1, <1>3, <1>4 DEF Connect, TypeOK, sessionVars
<1>5. ASSUME NEW c \in Conns, GetOrCreate(c) PROVE Lingers(s)'
  <2>1. CASE UNCHANGED sessionVars
    BY <1>1, <1>3, <1>5, <2>1 DEF GetOrCreate, NewSession, Close, TypeOK, sessionVars
  <2>2. ASSUME NEW t \in Spare, NewSession(c, t) PROVE Lingers(s)'
    <3>1. t \in Sessions /\ stage'[t] = "building"
      BY <1>1, <2>2, SpareUnused DEF NewSession, TypeOK
    <3>2. CASE s = t
      BY <3>1, <3>2, LingersSame
    <3>3. CASE s # t
      <4>1. Pc(c) # "waiting" /\ \A d \in Conns \ {c} : conn'[d] = conn[d]
        <5>1. Pc(c) = "joining"
          BY <1>5 DEF GetOrCreate
        <5>2. \A d \in Conns \ {c} : conn'[d] = conn[d]
          BY <1>1, <2>2 DEF NewSession, TypeOK
        <5> QED BY <5>1, <5>2
      <4>2. AboutToAttach(s) => AboutToAttach(s)'
        BY <4>1 DEF AboutToAttach, Ses, Pc
      <4>3. /\ stage'[s] = stage[s] /\ linger'[s] = linger[s] /\ panes'[s] = panes[s]
            /\ s \in due => s \in due'
        BY <1>1, <2>2, <3>1, <3>3 DEF NewSession, TypeOK
      <4> QED BY <4>2, <4>3, LingersSame
    <3> QED BY <3>2, <3>3
  <2> QED BY <1>5, <2>1, <2>2 DEF GetOrCreate, sessionVars
<1>6. ASSUME NEW c \in Conns, BuildScratch(c) \/ StartHost(c) \/ HostNotReady(c) PROVE Lingers(s)'
  <2>1. /\ UNCHANGED <<linger, panes, due, conn>>
        /\ stage'[s] = "ready" => stage[s] = "ready"
    BY <1>1, <1>6 DEF BuildScratch, StartHost, HostNotReady, TypeOK
  <2> QED BY <2>1, LingersSame DEF AboutToAttach, Ses, Pc
<1>7. ASSUME NEW c \in Conns, HostReady(c) PROVE Lingers(s)'
  <2>1. Ses(c)' = Ses(c) /\ Pc(c)' = "waiting" /\ \A d \in Conns \ {c} : conn'[d] = conn[d]
    BY <1>1, <1>7 DEF HostReady, MoveTo, TypeOK, Ses, Pc
  <2>2. CASE s = Ses(c)
    <3>1. linger'[s] = "none"
      BY <1>1, <1>7, <2>2 DEF HostReady, Staged, Creating
    <3>2. AboutToAttach(s)'
      BY <2>1, <2>2 DEF AboutToAttach
    <3> QED BY <3>1, <3>2 DEF Lingers
  <2>3. CASE s # Ses(c)
    <3>1. stage'[s] = stage[s] /\ UNCHANGED <<linger, panes, due>>
      BY <1>1, <1>7, <2>3 DEF HostReady, TypeOK
    <3>2. AboutToAttach(s) => AboutToAttach(s)'
      BY <1>7, <2>1, <2>3 DEF AboutToAttach, HostReady, Ses, Pc
    <3> QED BY <3>1, <3>2, LingersSame
  <2> QED BY <2>2, <2>3
<1>8. ASSUME NEW c \in Conns, Fail(c) PROVE Lingers(s)'
  <2>1. Pc(c) # "waiting" /\ \A d \in Conns \ {c} : conn'[d] = conn[d]
    BY <1>1, <1>8 DEF Fail, Close, TypeOK
  <2>2. /\ UNCHANGED <<linger, panes, due>>
        /\ stage'[s] = "ready" => stage[s] = "ready"
    BY <1>1, <1>8 DEF Fail, TypeOK
  <2>3. AboutToAttach(s) => AboutToAttach(s)'
    BY <2>1 DEF AboutToAttach, Ses, Pc
  <2> QED BY <2>2, <2>3, LingersSame
<1>9. ASSUME NEW c \in Conns, Attach(c) PROVE Lingers(s)'
  <2>1. \A d \in Conns \ {c} : conn'[d] = conn[d]
    BY <1>1, <1>9 DEF Attach, TypeOK
  <2>2. CASE s = Ses(c)
    <3>1. linger'[s] = "none" /\ panes'[s] = panes[s] + 1 /\ panes[s] \in Nat
      BY <1>1, <1>9, <2>2, TermSessionAssumption DEF Attach, TypeOK
    <3> QED BY <3>1 DEF Lingers
  <2>3. CASE s # Ses(c)
    <3>1. UNCHANGED <<stage, due>> /\ linger'[s] = linger[s] /\ panes'[s] = panes[s]
      BY <1>1, <1>9, <2>3 DEF Attach, TypeOK
    <3>2. AboutToAttach(s) => AboutToAttach(s)'
      BY <2>1, <2>3 DEF AboutToAttach, Ses, Pc
    <3> QED BY <3>1, <3>2, LingersSame
  <2> QED BY <2>2, <2>3
\* Whoever is refused by an open session is refused for its panes.
<1>10. ASSUME NEW c \in Conns, Refuse(c) \/ Retry(c) PROVE Lingers(s)'
  <2>1. \A d \in Conns \ {c} : conn'[d] = conn[d]
    BY <1>1, <1>10 DEF Refuse, Retry, Close, TypeOK
  <2>2. s = Ses(c) => stage[s] # "ready" \/ panes[s] # 0
    BY <1>1, <1>10, TermSessionAssumption DEF Refuse, Retry, Ending, TypeOK
  <2>3. stage[s] = "ready" /\ panes[s] = 0 /\ AboutToAttach(s) => AboutToAttach(s)'
    BY <2>1, <2>2 DEF AboutToAttach, Ses, Pc
  <2>4. UNCHANGED sessionVars
    BY <1>10 DEF Refuse, Retry
  <2> QED BY <2>3, <2>4, LingersSame DEF sessionVars
<1>11. ASSUME NEW c \in Conns, PaneOpened(c) PROVE Lingers(s)'
  BY <1>1, <1>3, <1>11 DEF PaneOpened, MoveTo, TypeOK, sessionVars
\* The last one out arms the timer, unless it has fired already.
<1>12. ASSUME NEW c \in Conns, Detach(c) PROVE Lingers(s)'
  <2>1. Pc(c) # "waiting" /\ \A d \in Conns \ {c} : conn'[d] = conn[d]
    BY <1>1, <1>12 DEF Detach, Close, TypeOK
  <2>2. AboutToAttach(s) => AboutToAttach(s)'
    BY <2>1 DEF AboutToAttach, Ses, Pc
  <2>3. CASE s = Ses(c)
    <3>1. panes'[s] = panes[s] - 1 /\ panes[s] \in Nat /\ UNCHANGED <<stage, due>>
      BY <1>1, <1>12, <2>3, TermSessionAssumption DEF Detach, TypeOK
    <3>2. linger'[s] = IF panes[s] = 1 /\ stage[s] = "ready" /\ linger[s] = "none"
                       THEN "armed" ELSE linger[s]
      BY <1>1, <1>12, <2>3 DEF Detach, TypeOK
    <3>3. panes[s] # 0
      <4>1. c \in Attached(s)
        BY <1>12, <2>3 DEF Detach, Attached
      <4> QED BY <4>1, FS_EmptySet DEF IInv, Counted
    <3>4. linger[s] \in {"none", "armed", "fired"}
      BY <1>1 DEF TypeOK
    <3> QED BY <1>1, <3>1, <3>2, <3>3, <3>4 DEF Lingers
  <2>4. CASE s # Ses(c)
    <3>1. UNCHANGED <<stage, due>> /\ linger'[s] = linger[s] /\ panes'[s] = panes[s]
      BY <1>1, <1>12, <2>4 DEF Detach, TypeOK
    <3> QED BY <2>2, <3>1, LingersSame
  <2> QED BY <2>3, <2>4
<1>13. ASSUME NEW t \in Sessions, TimerFires(t) \/ LingerFires(t) PROVE Lingers(s)'
  <2>1. UNCHANGED <<stage, panes, conn>> /\ due' = due \cup {t}
    BY <1>13 DEF TimerFires, LingerFires
  <2>2. linger'[s] = linger[s] \/ (s = t /\ linger'[s] = "fired")
    <3>1. CASE TimerFires(t)
      BY <3>1 DEF TimerFires
    <3>2. CASE LingerFires(t)
      BY <1>1, <3>2 DEF LingerFires, TypeOK
    <3> QED BY <1>13, <3>1, <3>2
  <2>3. AboutToAttach(s)' <=> AboutToAttach(s)
    BY <2>1 DEF AboutToAttach, Ses, Pc
  <2> QED BY <1>1, <2>1, <2>2, <2>3 DEF Lingers
<1>14. ASSUME NEW t \in Sessions, FlagClosed(t) \/ Unlist(t) \/ EndPanes(t) \/ Kill(t) \/ Reclaim(t)
       PROVE  Lingers(s)'
  <2>1. UNCHANGED <<panes, conn>> /\ stage'[t] # "ready"
        /\ (s # t => stage'[s] = stage[s] /\ linger'[s] = linger[s] /\ (s \in due => s \in due'))
    BY <1>1, <1>14 DEF FlagClosed, Unlist, EndPanes, Kill, Reclaim, TypeOK
  <2>2. AboutToAttach(s)' <=> AboutToAttach(s)
    BY <2>1 DEF AboutToAttach, Ses, Pc
  <2> QED BY <2>1, <2>2, LingersSame
<1>15. ASSUME NEW t \in Sessions, HostExits(t) PROVE Lingers(s)'
  BY <1>2, <1>15 DEF HostExits
<1> QED BY <1>2, <1>4, <1>5, <1>6, <1>7, <1>8, <1>9, <1>10, <1>11, <1>12, <1>13, <1>14, <1>15
    DEF Next, JoinStep, TeardownStep

(***************************************************************************)
(* The invariant.                                                          *)
(***************************************************************************)
LEMMA InvNext == IInv /\ [Next]_vars => IInv'
<1> SUFFICES ASSUME IInv, [Next]_vars PROVE IInv'
  OBVIOUS
<1>1. CASE Next
  BY <1>1, TypeStep, ReferringStep, TableStep, StagedStep, LingersStep, CountStep DEF IInv
<1>2. CASE UNCHANGED vars
  <2>1. UNCHANGED <<table, stage, scratch, host, panes, linger, due, conn>>
    BY <1>2 DEF vars
  <2>2. TypeOK' /\ Referring' /\ Table'
    BY <2>1, TableSame DEF IInv, TypeOK, Referring, Refers, Pc, Ses
  <2>3. ASSUME NEW s \in Sessions PROVE Staged(s)' /\ Lingers(s)' /\ Counted(s)'
    <3>1. AboutToAttach(s)' <=> AboutToAttach(s)
      BY <2>1 DEF AboutToAttach, Ses, Pc
    <3> QED BY <2>1, <3>1, LingersSame, CountSame DEF IInv, Staged
  <2> QED BY <2>2, <2>3 DEF IInv
<1> QED BY <1>1, <1>2

LEMMA Invariant == Spec => []IInv
BY InvInit, InvNext, PTL DEF Spec

(***************************************************************************)
(* Creators.                                                               *)
(***************************************************************************)
Creates(c, s) == Pc(c) = "creating" /\ Ses(c) = s

\* A step of one connection that is no creator's; sessions that are not being
\* created stay so, and it may wait only for a session that is not free.
LEMMA CreatorsSame ==
  ASSUME IInv, CreatorAtWork, NEW c \in Conns,
         \A d \in Conns \ {c} : conn'[d] = conn[d],
         Pc(c) # "creating", Pc(c)' # "creating",
         Pc(c)' = "waiting" => stage[Ses(c)'] \in Creating \cup Ending \cup {"ready", "failed"},
         UNCHANGED stage
  PROVE  CreatorAtWork'
<1>1. ASSUME NEW d \in Conns PROVE (Pc(d) = "creating" => Pc(d)' = "creating" /\ Ses(d)' = Ses(d))
                                 /\ (Pc(d)' = "creating" => Pc(d) = "creating" /\ Ses(d)' = Ses(d))
  BY DEF Pc, Ses
<1>2. ASSUME NEW s \in Sessions, stage'[s] \in Creating
      PROVE  \E e \in Conns : /\ Pc(e)' = "creating" /\ Ses(e)' = s
                              /\ \A d \in Conns \ {e} : Pc(d)' = "creating" => Ses(d)' # s
  BY <1>1, <1>2 DEF CreatorAtWork
<1>3. \A d \in Conns : Pc(d)' = "creating" => stage'[Ses(d)'] \in Creating
  BY <1>1 DEF CreatorAtWork
<1>4. ASSUME NEW d \in Conns, Pc(d)' = "waiting"
      PROVE  stage'[Ses(d)'] \in Creating \cup Ending \cup {"ready", "failed"}
  BY <1>4 DEF CreatorAtWork, Pc, Ses
<1> QED BY <1>2, <1>3, <1>4 DEF CreatorAtWork

\* A step of a session that leaves connections alone.
LEMMA CreatorsKept ==
  ASSUME IInv, CreatorAtWork, UNCHANGED conn,
         \A s \in Sessions : \/ stage'[s] = stage[s]
                             \/ stage[s] \in Creating /\ stage'[s] \in Creating
                             \/ stage[s] \in Ending \cup {"ready"} /\ stage'[s] \in Ending
  PROVE  CreatorAtWork'
<1>1. \A d \in Conns : Pc(d)' = Pc(d) /\ Ses(d)' = Ses(d) /\ (Pc(d) \in WithSession => Ses(d) \in Sessions)
  BY DEF Pc, Ses, IInv, Referring, Refers
<1>2. ASSUME NEW s \in Sessions
      PROVE  /\ stage[s] \in Creating <=> stage'[s] \in Creating
             /\ stage[s] \in Creating \cup Ending \cup {"ready", "failed"}
                  => stage'[s] \in Creating \cup Ending \cup {"ready", "failed"}
  BY DEF Creating, Ending
<1> QED BY <1>1, <1>2 DEF CreatorAtWork, WithSession

\* The creator is done: its session is no longer created.
LEMMA CreatorDone ==
  ASSUME IInv, CreatorAtWork, NEW c \in Conns, Pc(c) = "creating",
         \A d \in Conns \ {c} : conn'[d] = conn[d],
         NEW to \in {"ready", "failed"}, stage' = [stage EXCEPT ![Ses(c)] = to],
         \/ Pc(c)' = "waiting" /\ Ses(c)' = Ses(c)
         \/ Pc(c)' = "away"
  PROVE  CreatorAtWork'
<1> DEFINE s == Ses(c)
<1>1. s \in Sessions /\ stage[s] \in Creating
  BY DEF IInv, Referring, Refers, WithSession, CreatorAtWork
<1>2. \A q \in Sessions : stage'[q] = IF q = s THEN to ELSE stage[q]
  BY <1>1 DEF IInv, TypeOK
<1>3. \A d \in Conns \ {c} : Pc(d)' = Pc(d) /\ Ses(d)' = Ses(d)
  BY DEF Pc, Ses
<1>4. \A d \in Conns \ {c} : Pc(d) = "creating" => Ses(d) # s
  BY <1>1 DEF CreatorAtWork
<1>5. \A d \in Conns : Pc(d) \in WithSession => Ses(d) \in Sessions
  BY DEF IInv, Referring, Refers
<1> HIDE DEF s
<1>6. ASSUME NEW q \in Sessions, stage'[q] \in Creating
      PROVE  \E e \in Conns : /\ Pc(e)' = "creating" /\ Ses(e)' = q
                              /\ \A d \in Conns \ {e} : Pc(d)' = "creating" => Ses(d)' # q
  <2>1. q # s /\ stage[q] \in Creating
    BY <1>2, <1>6 DEF Creating
  <2>2. PICK e \in Conns : /\ Pc(e) = "creating" /\ Ses(e) = q
                           /\ \A d \in Conns \ {e} : Pc(d) = "creating" => Ses(d) # q
    BY <2>1 DEF CreatorAtWork
  <2>3. e # c /\ Pc(c)' # "creating"
    BY <2>1, <2>2 DEF s
  <2> QED BY <1>3, <2>2, <2>3
<1>7. ASSUME NEW d \in Conns, Pc(d)' = "creating" PROVE stage'[Ses(d)'] \in Creating
  <2>1. d # c
    BY <1>7
  <2> QED BY <1>2, <1>3, <1>4, <1>5, <1>7, <2>1 DEF CreatorAtWork, WithSession
<1>8. ASSUME NEW d \in Conns, Pc(d)' = "waiting"
      PROVE  stage'[Ses(d)'] \in Creating \cup Ending \cup {"ready", "failed"}
  <2>1. CASE d = c
    BY <1>1, <1>2, <1>8, <2>1 DEF s
  <2>2. CASE d # c
    BY <1>2, <1>3, <1>5, <1>8, <2>2 DEF CreatorAtWork, WithSession
  <2> QED BY <2>1, <2>2
<1> QED BY <1>6, <1>7, <1>8 DEF CreatorAtWork

\* A session that nobody refers to has a creator now.
LEMMA CreatorNew ==
  ASSUME IInv, CreatorAtWork, NEW c \in Conns, Pc(c) = "joining", NEW s \in Spare, NewSession(c, s)
  PROVE  CreatorAtWork'
<1>1. s \in Sessions /\ \A d \in Conns : Ses(d) # s
  BY SpareUnused DEF IInv
<1>2. Pc(c)' = "creating" /\ Ses(c)' = s /\ \A d \in Conns \ {c} : Pc(d)' = Pc(d) /\ Ses(d)' = Ses(d)
  BY DEF NewSession, IInv, TypeOK, Pc, Ses
<1>3. \A q \in Sessions : stage'[q] = IF q = s THEN "building" ELSE stage[q]
  BY <1>1 DEF NewSession, IInv, TypeOK
<1>4. \A d \in Conns : Pc(d) \in WithSession => Ses(d) \in Sessions
  BY DEF IInv, Referring, Refers
<1>5. ASSUME NEW q \in Sessions, stage'[q] \in Creating
      PROVE  \E e \in Conns : /\ Pc(e)' = "creating" /\ Ses(e)' = q
                              /\ \A d \in Conns \ {e} : Pc(d)' = "creating" => Ses(d)' # q
  <2>1. CASE q = s
    BY <1>1, <1>2, <2>1
  <2>2. CASE q # s
    <3>1. PICK e \in Conns : /\ Pc(e) = "creating" /\ Ses(e) = q
                             /\ \A d \in Conns \ {e} : Pc(d) = "creating" => Ses(d) # q
      BY <1>3, <1>5, <2>2 DEF CreatorAtWork
    <3>2. e # c
      BY <3>1
    <3> QED BY <1>2, <2>2, <3>1, <3>2
  <2> QED BY <2>1, <2>2
<1>6. ASSUME NEW d \in Conns, Pc(d)' = "creating" PROVE stage'[Ses(d)'] \in Creating
  <2>1. CASE d = c
    BY <1>1, <1>2, <1>3, <2>1 DEF Creating
  <2>2. CASE d # c
    BY <1>1, <1>2, <1>3, <1>4, <1>6, <2>2 DEF CreatorAtWork, WithSession
  <2> QED BY <2>1, <2>2
<1>7. ASSUME NEW d \in Conns, Pc(d)' = "waiting"
      PROVE  stage'[Ses(d)'] \in Creating \cup Ending \cup {"ready", "failed"}
  <2>1. d # c
    BY <1>2, <1>7
  <2> QED BY <1>1, <1>2, <1>3, <1>4, <1>7, <2>1 DEF CreatorAtWork, WithSession
<1> QED BY <1>5, <1>6, <1>7 DEF CreatorAtWork

LEMMA CreatorStep == IInv /\ CreatorAtWork /\ Next => CreatorAtWork'
<1> SUFFICES ASSUME IInv, CreatorAtWork, Next PROVE CreatorAtWork'
  OBVIOUS
<1>1. TypeOK /\ Referring
  BY DEF IInv
<1>2. ASSUME NEW c \in Conns, NEW i \in Ids, Connect(c, i) PROVE CreatorAtWork'
  <2>1. /\ Pc(c) = "away" /\ Pc(c)' = "joining" /\ UNCHANGED stage
        /\ \A d \in Conns \ {c} : conn'[d] = conn[d]
    BY <1>1, <1>2 DEF Connect, TypeOK, Away, Pc, sessionVars
  <2> QED BY <2>1, CreatorsSame
\* Whoever the table lists is created, made or about to end.
<1>3. ASSUME NEW c \in Conns, GetOrCreate(c) PROVE CreatorAtWork'
  <2>1. Pc(c) = "joining" /\ conn[c].id \in Ids
    BY <1>1, <1>3 DEF GetOrCreate, Referring, Refers
  <2>2. CASE \E s \in Spare : NewSession(c, s)
    BY <2>1, <2>2, CreatorNew
  <2>3. CASE Close(c) /\ UNCHANGED <<table, sessionVars>>
    <3>1. Pc(c)' = "away" /\ UNCHANGED stage /\ \A d \in Conns \ {c} : conn'[d] = conn[d]
      BY <1>1, <2>3 DEF Close, Away, TypeOK, Pc, sessionVars
    <3> QED BY <2>1, <3>1, CreatorsSame
  <2>4. CASE /\ table[conn[c].id] # None
             /\ conn' = [conn EXCEPT ![c].pc = "waiting", ![c].ses = table[conn[c].id]]
             /\ UNCHANGED <<table, sessionVars>>
    <3>1. table[conn[c].id] \in Listed
      BY <2>1, <2>4 DEF Listed
    <3>2. stage[table[conn[c].id]] \in Busy
      BY <3>1 DEF IInv, Table
    <3>3. Pc(c)' = "waiting" /\ Ses(c)' = table[conn[c].id] /\ \A d \in Conns \ {c} : conn'[d] = conn[d]
      BY <1>1, <2>4 DEF TypeOK, Pc, Ses
    <3>4. UNCHANGED stage /\ stage[Ses(c)'] \in Creating \cup Ending \cup {"ready", "failed"}
      BY <2>4, <3>2, <3>3 DEF Busy, Ending, sessionVars
    <3> QED BY <2>1, <3>3, <3>4, CreatorsSame
  <2> QED BY <1>3, <2>2, <2>3, <2>4 DEF GetOrCreate
<1>4. ASSUME NEW c \in Conns, BuildScratch(c) \/ StartHost(c) \/ HostNotReady(c) PROVE CreatorAtWork'
  <2>1. \A s \in Sessions : stage'[s] = stage[s] \/ (stage[s] \in Creating /\ stage'[s] \in Creating)
    BY <1>1, <1>4 DEF BuildScratch, StartHost, HostNotReady, TypeOK, Creating
  <2>2. UNCHANGED conn
    BY <1>4 DEF BuildScratch, StartHost, HostNotReady
  <2> QED BY <2>1, <2>2, CreatorsKept
<1>5. ASSUME NEW c \in Conns, HostReady(c) PROVE CreatorAtWork'
  <2>1. Pc(c)' = "waiting" /\ Ses(c)' = Ses(c) /\ \A d \in Conns \ {c} : conn'[d] = conn[d]
    BY <1>1, <1>5 DEF HostReady, MoveTo, TypeOK, Pc, Ses
  <2>2. Pc(c) = "creating" /\ stage' = [stage EXCEPT ![Ses(c)] = "ready"]
    BY <1>5 DEF HostReady
  <2> QED BY <2>1, <2>2, CreatorDone
<1>6. ASSUME NEW c \in Conns, Fail(c) PROVE CreatorAtWork'
  <2>1. Pc(c)' = "away" /\ \A d \in Conns \ {c} : conn'[d] = conn[d]
    BY <1>1, <1>6 DEF Fail, Close, Away, TypeOK, Pc
  <2>2. Pc(c) = "creating" /\ stage' = [stage EXCEPT ![Ses(c)] = "failed"]
    BY <1>6 DEF Fail
  <2> QED BY <2>1, <2>2, CreatorDone
<1>7. ASSUME NEW c \in Conns, Attach(c) \/ Refuse(c) \/ Retry(c) \/ PaneOpened(c) \/ Detach(c)
      PROVE  CreatorAtWork'
  <2>1. Pc(c) # "creating" /\ UNCHANGED stage
    BY <1>7 DEF Attach, Refuse, Retry, PaneOpened, Detach, sessionVars
  <2>2. Pc(c)' \notin {"creating", "waiting"}
    <3>1. CASE Attach(c)
      BY <1>1, <3>1 DEF Attach, Away, TypeOK, Pc
    <3>3. CASE Retry(c)
      BY <1>1, <3>3 DEF Retry, TypeOK, Pc
    <3>2. CASE Refuse(c) \/ PaneOpened(c) \/ Detach(c)
      BY <1>1, <3>2 DEF Refuse, PaneOpened, Detach, Close, MoveTo, Away, TypeOK, Pc
    <3> QED BY <1>7, <3>1, <3>2, <3>3
  <2>3. \A d \in Conns \ {c} : conn'[d] = conn[d]
    BY <1>1, <1>7 DEF Attach, Refuse, Retry, PaneOpened, Detach, Close, MoveTo, TypeOK
  <2> QED BY <2>1, <2>2, <2>3, CreatorsSame
<1>8. ASSUME NEW s \in Sessions, HostExits(s) \/ TimerFires(s) \/ LingerFires(s) PROVE CreatorAtWork'
  BY <1>8, CreatorsKept DEF HostExits, TimerFires, LingerFires
<1>9. ASSUME NEW s \in Sessions, TeardownStep(s) PROVE CreatorAtWork'
  <2>1. \A q \in Sessions : \/ stage'[q] = stage[q]
                            \/ stage[q] \in Ending \cup {"ready"} /\ stage'[q] \in Ending
    BY <1>1, <1>9 DEF TeardownStep, FlagClosed, Unlist, EndPanes, Kill, Reclaim, TypeOK, Ending
  <2>2. UNCHANGED conn
    BY <1>9 DEF TeardownStep, FlagClosed, Unlist, EndPanes, Kill, Reclaim
  <2> QED BY <2>1, <2>2, CreatorsKept
<1> QED BY <1>2, <1>3, <1>4, <1>5, <1>6, <1>7, <1>8, <1>9 DEF Next, JoinStep

LEMMA CreatorInvariant == Spec => []CreatorAtWork
<1>1. Init => CreatorAtWork
  BY DEF Init, CreatorAtWork, Creating, Away, Pc
<1>2. IInv /\ CreatorAtWork /\ [Next]_vars => CreatorAtWork'
  <2>1. IInv /\ CreatorAtWork /\ UNCHANGED vars => CreatorAtWork'
    BY CreatorsKept DEF vars
  <2> QED BY <2>1, CreatorStep
<1> QED BY <1>1, <1>2, Invariant, PTL DEF Spec

(***************************************************************************)
(* The pane-host.                                                          *)
(***************************************************************************)
\* The goroutine of a pane and its shell.
Served(p) ==
    /\ link[p] = "none" => serve[p] \in {"none", "done"} /\ shell[p] = "none"
    /\ serve[p] \in {"none", "reading"} => shell[p] = "none"
    /\ shell[p] = "running" => /\ serve[p] \notin {"killed", "done"}
                               /\ p \in procs \/ serve[p] = "started"

ShellInv == PaneHostTypeOK /\ \A p \in Panes : Served(p)

LEMMA ShellTyped == PaneHostTypeOK /\ PaneHostNext => PaneHostTypeOK'
<1> SUFFICES ASSUME PaneHostTypeOK, PaneHostNext PROVE PaneHostTypeOK'
  OBVIOUS
<1> USE DEF PaneHostTypeOK
<1>1. ASSUME NEW p \in Panes, Dial(p) \/ Drop(p) PROVE PaneHostTypeOK'
  BY <1>1 DEF Dial, Drop
<1>2. ASSUME NEW p \in Panes, Unserved(p) \/ StartShell(p) \/ AddProcess(p) PROVE PaneHostTypeOK'
  BY <1>2 DEF Unserved, StartShell, AddProcess, Serve
<1>3. ASSUME NEW p \in Panes, Reply(p) \/ ReplyFails(p) \/ TellExit(p) \/ SeeDrop(p)
      PROVE  PaneHostTypeOK'
  BY <1>3 DEF Reply, ReplyFails, TellExit, SeeDrop, Serve
<1>4. ASSUME NEW p \in Panes, HangUp(p) \/ KillPane(p) \/ EndServe(p) PROVE PaneHostTypeOK'
  BY <1>4 DEF HangUp, KillPane, EndServe, Serve
<1>5. ASSUME NEW p \in Panes, Reap(p) \/ CloseExited(p) \/ ShellEnds(p) PROVE PaneHostTypeOK'
  BY <1>5 DEF Reap, CloseExited, ShellEnds
<1>6. CASE Shutdown
  BY <1>6 DEF Shutdown
<1>7. CASE KillAll
  BY <1>7 DEF KillAll
<1>8. CASE HostEnds
  BY <1>8 DEF HostEnds
<1> QED BY <1>1, <1>2, <1>3, <1>4, <1>5, <1>6, <1>7, <1>8 DEF PaneHostNext, ServeStep

LEMMA ServedStep == ASSUME ShellInv, PaneHostNext, NEW q \in Panes PROVE Served(q)'
<1>1. PaneHostTypeOK /\ Served(q)
  BY DEF ShellInv
<1>2. ASSUME NEW p \in Panes, Dial(p) \/ Drop(p) PROVE Served(q)'
  BY <1>1, <1>2 DEF Dial, Drop, Served, PaneHostTypeOK
<1>3. ASSUME NEW p \in Panes, Unserved(p) \/ StartShell(p) \/ AddProcess(p) PROVE Served(q)'
  BY <1>1, <1>3 DEF Unserved, StartShell, AddProcess, Serve, Served, PaneHostTypeOK
<1>4. ASSUME NEW p \in Panes, Reply(p) \/ ReplyFails(p) \/ TellExit(p) \/ SeeDrop(p) PROVE Served(q)'
  BY <1>1, <1>4 DEF Reply, ReplyFails, TellExit, SeeDrop, Serve, Served, Exited, PaneHostTypeOK
<1>5. ASSUME NEW p \in Panes, HangUp(p) \/ KillPane(p) \/ EndServe(p) PROVE Served(q)'
  BY <1>1, <1>5 DEF HangUp, KillPane, EndServe, Serve, Served, Up, Exited, PaneHostTypeOK
<1>6. ASSUME NEW p \in Panes, Reap(p) \/ CloseExited(p) \/ ShellEnds(p) PROVE Served(q)'
  BY <1>1, <1>6 DEF Reap, CloseExited, ShellEnds, Up, Served, PaneHostTypeOK
<1>7. CASE Shutdown
  BY <1>1, <1>7 DEF Shutdown, Served
<1>8. CASE KillAll
  BY <1>1, <1>8 DEF KillAll, Served
<1>9. CASE HostEnds
  BY <1>1, <1>9 DEF HostEnds, Served
<1> QED BY <1>2, <1>3, <1>4, <1>5, <1>6, <1>7, <1>8, <1>9 DEF PaneHostNext, ServeStep

LEMMA ShellInvariant == PaneHostSpec => []ShellInv
<1>1. PaneHostInit => ShellInv
  BY DEF PaneHostInit, ShellInv, PaneHostTypeOK, Served
<1>2. ShellInv /\ [PaneHostNext]_paneVars => ShellInv'
  <2>1. ShellInv /\ UNCHANGED paneVars => ShellInv'
    BY DEF ShellInv, PaneHostTypeOK, Served, paneVars
  <2>2. ShellInv /\ PaneHostNext => ShellInv'
    BY ShellTyped, ServedStep DEF ShellInv
  <2> QED BY <2>1, <2>2
<1> QED BY <1>1, <1>2, PTL DEF PaneHostSpec

(***************************************************************************)
(* The theorems.                                                           *)
(***************************************************************************)
\* ts.panes is the number of the connections between attach and detach, within
\* maxPanes, and the sessions that are open keep within maxSessions.
THEOREM Limits == Spec => []LimitsKept
<1>1. ASSUME IInv PROVE LimitsKept
  <2>1. ASSUME NEW s \in Sessions
        PROVE  panes[s] = Cardinality(Attached(s)) /\ panes[s] <= MaxPanes
    BY <1>1, TermSessionAssumption DEF IInv, Counted, TypeOK
  <2>2. {s \in Sessions : stage[s] \in Creating \cup {"ready", "flagged"}} = Listed
    BY <1>1 DEF IInv, Table, Busy
  <2> QED BY <1>1, <2>1, <2>2 DEF LimitsKept, IInv, Table
<1> QED BY <1>1, Invariant, PTL

\* teardown and a creator's failure leave no scratch directory and no sandbox
\* behind that the table does not lead to.
THEOREM Stray == Spec => []NothingStray
<1>1. ASSUME IInv PROVE NothingStray
  <2> SUFFICES ASSUME NEW s \in Sessions, scratch[s] \/ (host[s] = "running" /\ stage[s] # "gone")
               PROVE  s \in Listed \/ stage[s] \in {"unlisted", "ended", "killed"}
    BY DEF NothingStray
  <2>1. stage[s] \in Stages /\ Staged(s) /\ Listed = {q \in Sessions : stage[q] \in Busy}
    BY <1>1 DEF IInv, TypeOK, Table
  <2> QED BY <2>1 DEF Stages, Ending, Staged, Busy, Creating
<1> QED BY <1>1, Invariant, PTL

\* detach arms the linger timer, attach stops it, and no order of them leaves an
\* empty session without it or a used one with it.
THEOREM Linger == Spec => []LingerIffEmpty
<1>1. IInv => LingerIffEmpty
  BY DEF IInv, LingerIffEmpty, Lingers, AboutToAttach
<1> QED BY <1>1, Invariant, PTL

\* getOrCreate makes one creator per session and create closes ready on every path:
\* whoever waits in Join has a creator at work, or a session whose making is over.
THEOREM Creators == Spec => []CreatorAtWork
BY CreatorInvariant

\* No shell runs on without the goroutine of serve that will end it, and killAll
\* finds all but the one being entered, in every order of replies, exits, timers
\* and connections.
THEOREM PaneHostShells == PaneHostSpec => []ShellsLookedAfter
<1>1. ShellInv => ShellsLookedAfter
  BY DEF ShellInv, Served, ShellsLookedAfter
<1> QED BY <1>1, ShellInvariant, PTL

\* The same of the two together, as the runs have them.
THEOREM BehindTerminal ==
  TerminalsSpec => [](LimitsKept /\ NothingStray /\ LingerIffEmpty /\ Attended)
<1>1. TerminalsInit => Init /\ PaneHostInit
  BY DEF TerminalsInit
<1>2. [TerminalsNext]_<<vars, paneVars, part>> => [Next]_vars /\ [PaneHostNext]_paneVars
  BY DEF TerminalsNext, SessionsMove, ShellsMove
<1>3. TerminalsSpec => Spec /\ PaneHostSpec
  BY <1>1, <1>2, PTL DEF TerminalsSpec, Spec, PaneHostSpec
<1> QED BY <1>3, Limits, Stray, Linger, Creators, PaneHostShells, PTL DEF Attended
=============================================================================
