--------------------------- MODULE IseTransaction ---------------------------
(***************************************************************************)
(* The policy-plane transaction of src/orchestrator/ise.py: IseErsAdapter  *)
(* compares the objects of a manifest with one ISE server, writes what is  *)
(* missing or different, and takes its own writes back when the run fails. *)
(*                                                                         *)
(* ISE has no transactions.  Every HTTP request is a step of its own, and  *)
(* between two requests other adapters and administrators may act.  A      *)
(* request may fail before or after the server carried it out.             *)
(*                                                                         *)
(* Data abstraction.  An object is known by its lookup (a name, or the     *)
(* pair of a cell); its id tells its incarnations apart.  Its value stands *)
(* for the fields that _comparable keeps; a value in Foreign has no        *)
(* ownership marker in its description.                                    *)
(***************************************************************************)
EXTENDS Naturals, SequencesExt

CONSTANTS
  None,
  Admin,           \* anybody who changes ISE by other means
  Txns,            \* the adapters, one for each run
  Objects,         \* what manifests look up
  Manifest,        \* the sorted operations: tags, then ACLs, then cells
  RefsOf,          \* what a cell refers to; {} for a tag or an ACL
  Want,            \* the desired value of an object, for each adapter
  Values,
  Foreign,         \* the values without the ownership marker
  InitialServers,  \* what the server may hold before
  MaxFaults,       \* bound: requests that fail
  MaxEdits         \* bound: changes by Admin

VARIABLES
  server,          \* each object's incarnation and value
  lastId,          \* incarnations each object had
  tx,              \* the state of each adapter
  author,          \* history: who wrote the object last, None once undone
  initial,         \* history: the server as it was before
  faults, edits

Absent == [id |-> 0, value |-> None]
Incarnations == {Absent} \cup [id : Nat \ {0}, value : Values]

\* The manifest names an object once: ise.py checks the names of tags and
\* ACLs, and the operation_id of a cell is a hash of its pair.
ASSUME ManifestAssumption ==
  \A t \in Txns :
    /\ Manifest[t] \in Seq(Objects) /\ Len(Manifest[t]) > 0
    /\ \A i, j \in 1..Len(Manifest[t]) : Manifest[t][i] = Manifest[t][j] => i = j

ASSUME WantAssumption ==
  /\ Want \in [Txns -> [Objects -> Values]]
  /\ RefsOf \in [Objects -> SUBSET Objects]
  /\ InitialServers \subseteq [Objects -> Incarnations]
  /\ None \notin Values /\ None \notin Txns /\ Admin \notin Txns

\* ise.py refuses a manifest with an object that lacks the marker.
ASSUME MarkerAssumption ==
  /\ None \notin Foreign
  /\ \A t \in Txns, o \in Objects : Want[t][o] \notin Foreign

\* What a cell refers to is there as long as the cell is.
Linked(srv) ==
  \A c \in Objects : srv[c] # Absent => \A r \in RefsOf[c] : srv[r] # Absent

ASSUME LinkAssumption == \A srv \in InitialServers : Linked(srv)

bounds == <<faults, edits>>
iseVars == <<server, lastId, tx, author, initial, bounds>>

Owned(object) == object.value \notin Foreign

\* GET by id: an object that was deleted and made again is another one.
ById(o, id) == IF id # 0 /\ server[o].id = id THEN server[o] ELSE Absent

NoAction == [kind |-> "none", id |-> 0, pre |-> None]

IseInit ==
  /\ server \in InitialServers
  /\ initial = server
  /\ lastId = [o \in Objects |-> server[o].id]
  /\ author = [o \in Objects |-> None]
  /\ tx = [t \in Txns |-> [pc |-> "prepare", pos |-> 1, journal |-> <<>>,
                           plan |-> [o \in Objects |-> NoAction],
                           failed |-> FALSE]]
  /\ faults = 0
  /\ edits = 0

-----------------------------------------------------------------------------
(* The server. *)

Referenced(o) == \E c \in Objects : o \in RefsOf[c] /\ server[c] # Absent

\* A name is unique and a cell refers to objects by their ids.
Creatable(o) ==
  server[o] = Absent /\ \A r \in RefsOf[o] : server[r] # Absent

Created(o, v, who) ==
  /\ server' = [server EXCEPT ![o] = [id |-> lastId[o] + 1, value |-> v]]
  /\ lastId' = [lastId EXCEPT ![o] = @ + 1]
  /\ author' = [author EXCEPT ![o] = who]

Replaced(o, v, who) ==
  /\ server' = [server EXCEPT ![o].value = v]
  /\ author' = [author EXCEPT ![o] = who]
  /\ UNCHANGED lastId

Deleted(o, who) ==
  /\ server' = [server EXCEPT ![o] = Absent]
  /\ author' = [author EXCEPT ![o] = who]
  /\ UNCHANGED lastId

ServerSame == UNCHANGED <<server, lastId, author>>

Edit(o) ==
  /\ edits < MaxEdits
  /\ edits' = edits + 1
  /\ \/ Creatable(o) /\ \E v \in Values : Created(o, v, Admin)
     \/ /\ server[o] # Absent
        /\ \E v \in Values \ {server[o].value} : Replaced(o, v, Admin)
     \/ server[o] # Absent /\ ~Referenced(o) /\ Deleted(o, Admin)
  /\ UNCHANGED <<tx, initial, faults>>

-----------------------------------------------------------------------------
(* An adapter.  pos is the operation it is at; plan is self._prepared, and *)
(* an entry of the journal has the id and the post_hash once they are      *)
(* known.                                                                  *)

Object(t) == Manifest[t][tx[t].pos]
Action(t) == tx[t].plan[Object(t)]
Entry(t)  == Last(tx[t].journal)

Goto(t, pc) == tx' = [tx EXCEPT ![t].pc = pc]

LastOne(t) == tx[t].pos = Len(Manifest[t])

NextPos(t)            == IF LastOne(t) THEN 1 ELSE tx[t].pos + 1
NextPc(t, loop, then) == IF LastOne(t) THEN then ELSE loop

NoFault == UNCHANGED faults
Fault   == faults < MaxFaults /\ faults' = faults + 1

\* A GET that fails, one of those before prepare's first lookup included.
\* Nothing is written in prepare, so there is nothing to roll back.
ReadFails(t) ==
  /\ \/ tx[t].pc = "prepare" /\ Goto(t, "refused")
     \/ tx[t].pc \in {"apply", "verify", "recover"} /\ Goto(t, "failed")
  /\ Fault
  /\ ServerSame

\* Fault: any object of that name is taken over.
ManagedAny(object) == TRUE

\* What _classify accepts: an object that is not there, or is ours.
Managed(object) == object = Absent \/ Owned(object)

Classified(t, o) ==
  IF server[o] = Absent THEN [kind |-> "create", id |-> 0, pre |-> None]
  ELSE [kind |-> IF server[o].value = Want[t][o] THEN "noop" ELSE "update",
        id   |-> server[o].id,
        pre  |-> server[o].value]

\* A cell whose tags or ACLs are still to be created has no ids to look up.
Deferred(t, o) == \E r \in RefsOf[o] : tx[t].plan[r].kind = "create"

Planned(t, o, action) == [tx[t].plan EXCEPT ![o] = action]

Prepare(t) ==
  LET o == Object(t)
      with(action) ==
        tx' = [tx EXCEPT ![t].plan = Planned(t, o, action),
                         ![t].pos  = NextPos(t),
                         ![t].pc   = NextPc(t, "prepare", "prepared")]
  IN
  /\ tx[t].pc = "prepare"
  /\ \/ Deferred(t, o) /\ with([NoAction EXCEPT !.kind = "deferred"])
     \/ ~Deferred(t, o) /\ Managed(server[o]) /\ with(Classified(t, o))
     \/ ~Deferred(t, o) /\ ~Managed(server[o]) /\ Goto(t, "refused")
  /\ NoFault
  /\ ServerSame

\* The run goes on with its devices, and reaches the policy plane or fails.
Proceed(t) ==
  /\ tx[t].pc = "prepared"
  /\ Goto(t, "apply") \/ Goto(t, "failed")
  /\ NoFault
  /\ ServerSame

At(t, pc, kind) == tx[t].pc = pc /\ Action(t).kind = kind

Reclassify(t) ==
  /\ At(t, "apply", "deferred")
  /\ \/ /\ Managed(server[Object(t)])
        /\ tx' = [tx EXCEPT ![t].plan =
                    Planned(t, Object(t), Classified(t, Object(t)))]
     \/ ~Managed(server[Object(t)]) /\ Goto(t, "failed")
  /\ NoFault
  /\ ServerSame

\* Whether the object is as it was when it was classified.
Unchanged(t) ==
  LET found == IF Action(t).kind = "create" THEN server[Object(t)]
               ELSE ById(Object(t), Action(t).id)
  IN found.value = Action(t).pre

NewEntry(t) ==
  [object |-> Object(t), action |-> Action(t).kind, id |-> Action(t).id,
   pre |-> Action(t).pre, post |-> None]

Journaled(t) == Append(tx[t].journal, NewEntry(t))

\* The GET before a write.  The journal is written before the request is sent.
Check(t) ==
  /\ tx[t].pc = "apply"
  /\ Action(t).kind # "deferred"
  /\ \/ /\ Unchanged(t) /\ Action(t).kind = "noop"
        /\ tx' = [tx EXCEPT ![t].pos = NextPos(t),
                            ![t].pc  = NextPc(t, "apply", "applied")]
     \/ /\ Unchanged(t) /\ Action(t).kind # "noop"
        /\ tx' = [tx EXCEPT ![t].journal = Journaled(t), ![t].pc = "send"]
     \/ ~Unchanged(t) /\ Goto(t, "failed")
  /\ NoFault
  /\ ServerSame

\* The last entry with what the answer told.
WithLast(t, entry) == [tx[t].journal EXCEPT ![Len(tx[t].journal)] = entry]
WithId(t, id)  == WithLast(t, [Entry(t) EXCEPT !.id = id])
WithPost(t, v) == WithLast(t, [Entry(t) EXCEPT !.post = v])

WriteRefused(t) == Goto(t, "failed") /\ ServerSame

\* The server stores what it is sent, or claims to: verification exists
\* because it may not.
Stores(t, v) == IF v = Want[t][Object(t)] THEN NoFault ELSE Fault

\* 201 with a Location that is trusted, or one that is not, or no answer.
Post(t) ==
  LET o == Object(t) IN
  /\ At(t, "send", "create")
  /\ \/ /\ Creatable(o)
        /\ \/ /\ \E v \in Values : Created(o, v, t) /\ Stores(t, v)
              /\ tx' = [tx EXCEPT ![t].journal = WithId(t, lastId[o] + 1),
                                  ![t].pc = "verify"]
           \/ /\ Created(o, Want[t][o], t) /\ Fault
              /\ Goto(t, "recover") \/ Goto(t, "failed")
     \/ ~Creatable(o) /\ WriteRefused(t) /\ NoFault
     \/ WriteRefused(t) /\ Fault

\* A value that t had found there is not t's.
Mark(t, v) == IF v = Action(t).pre THEN None ELSE t

\* The PUT carries no precondition: whatever the object is now is replaced.
Put(t) ==
  LET o == Object(t)
      there == ById(o, Action(t).id) # Absent
  IN
  /\ At(t, "send", "update")
  /\ \/ /\ there
        /\ \/ /\ \E v \in Values : Replaced(o, v, Mark(t, v)) /\ Stores(t, v)
              /\ Goto(t, "verify")
           \/ /\ Replaced(o, Want[t][o], Mark(t, Want[t][o])) /\ Fault
              /\ Goto(t, "failed")
     \/ ~there /\ WriteRefused(t) /\ NoFault
     \/ WriteRefused(t) /\ Fault

\* Fault: the answer of the write is taken for its effect.
ConfirmedBlind(t, found) == TRUE

Confirmed(t, found) == found.value = Want[t][Object(t)]

\* The post_hash is what the GET after the write returns, right or wrong.
Verify(t) ==
  LET found   == ById(Object(t), Entry(t).id)
      journal == WithPost(t, found.value)
  IN
  /\ tx[t].pc = "verify"
  /\ \/ /\ found # Absent /\ Confirmed(t, found)
        /\ tx' = [tx EXCEPT ![t].journal = journal,
                            ![t].pos = NextPos(t),
                            ![t].pc  = NextPc(t, "apply", "applied")]
     \/ /\ found # Absent /\ ~Confirmed(t, found)
        /\ tx' = [tx EXCEPT ![t].journal = journal, ![t].pc = "failed"]
     \/ found = Absent /\ Goto(t, "failed")
  /\ NoFault
  /\ ServerSame

\* The lookup by name when the Location cannot be used.
Recover(t) ==
  LET found == server[Object(t)] IN
  /\ tx[t].pc = "recover"
  /\ tx' = [tx EXCEPT
       ![t].pc = "failed",
       ![t].journal = IF Owned(found) /\ Confirmed(t, found)
                      THEN WithLast(t, [Entry(t) EXCEPT !.id = found.id,
                                                        !.post = found.value])
                      ELSE @]
  /\ NoFault
  /\ ServerSame

\* The rest of the run succeeds or fails.
Conclude(t) ==
  /\ tx[t].pc = "applied"
  /\ Goto(t, "committed") \/ Goto(t, "failed")
  /\ NoFault
  /\ ServerSame

-----------------------------------------------------------------------------
(* rollback() walks the journal from its end.                              *)

\* Fault: the journal is walked in the order it was written.
UnwindForward(journal) == Reverse(journal)

UnwindOrder(journal) == journal

Leave(t) ==
  /\ tx[t].pc = "failed"
  /\ \/ tx[t].journal = <<>> /\ Goto(t, "clean")   \* has_changes is false
     \/ /\ tx[t].journal # <<>>
        /\ tx' = [tx EXCEPT ![t].journal = UnwindOrder(@), ![t].pc = "unwind"]
  /\ NoFault
  /\ ServerSame

\* Fault: an entry that could not be undone is tried again at once.
DropDone(t, ok) == IF ok THEN Front(tx[t].journal) ELSE tx[t].journal

Drop(t, ok) == Front(tx[t].journal)

\* The entry is dealt with; a failure is collected.
EntryEnds(t, ok) ==
  tx' = [tx EXCEPT ![t].journal = Drop(t, ok), ![t].pc = "unwind",
                   ![t].failed = @ \/ ~ok]

\* A create whose id was never learnt is looked up by name.
Found(e) == IF e.id # 0 THEN ById(e.object, e.id) ELSE server[e.object]

AlreadyUndone(e) ==
  \/ e.action = "create" /\ Found(e) = Absent
  \/ e.action = "update" /\ Found(e) # Absent /\ Found(e).value = e.pre

MayUndo(t, e) ==
  /\ Found(e) # Absent
  /\ \/ /\ e.action = "create"
        /\ e.post \in {None, Found(e).value}
        /\ Owned(Found(e))
        /\ Found(e).value = Want[t][e.object]
     \/ /\ e.action = "update"
        /\ e.post # None /\ Found(e).value = e.post

Unwind(t) ==
  LET e == Entry(t) IN
  /\ tx[t].pc = "unwind"
  /\ tx[t].journal # <<>>
  /\ \/ AlreadyUndone(e) /\ EntryEnds(t, TRUE) /\ NoFault
     \/ /\ ~AlreadyUndone(e) /\ MayUndo(t, e) /\ NoFault
        /\ tx' = [tx EXCEPT ![t].journal = WithId(t, Found(e).id),
                            ![t].pc = "undo"]
     \/ ~AlreadyUndone(e) /\ ~MayUndo(t, e) /\ EntryEnds(t, FALSE) /\ NoFault
     \/ EntryEnds(t, FALSE) /\ Fault
  /\ ServerSame

Undoable(e) ==
  /\ ById(e.object, e.id) # Absent
  /\ e.action = "create" => ~Referenced(e.object)

Undo(t) ==
  LET e == Entry(t) IN
  /\ tx[t].pc = "undo"
  /\ \/ /\ Undoable(e)
        /\ \/ e.action = "create" /\ Deleted(e.object, None)
           \/ e.action = "update" /\ Replaced(e.object, e.pre, None)
        /\ \/ Goto(t, "undone") /\ NoFault
           \/ EntryEnds(t, FALSE) /\ Fault
     \/ ~Undoable(e) /\ EntryEnds(t, FALSE) /\ NoFault /\ ServerSame
     \/ EntryEnds(t, FALSE) /\ Fault /\ ServerSame

\* The GET after the DELETE or PUT.
Undone(t) ==
  LET e == Entry(t)
      found == ById(e.object, e.id)
  IN
  /\ tx[t].pc = "undone"
  /\ \/ EntryEnds(t, found.value = e.pre) /\ NoFault
     \/ EntryEnds(t, FALSE) /\ Fault
  /\ ServerSame

\* Fault: the collected failures are forgotten.
OutcomeOptimistic(t) == "rolled_back"

Outcome(t) == IF tx[t].failed THEN "rollback_failed" ELSE "rolled_back"

EndRollback(t) ==
  /\ tx[t].pc = "unwind"
  /\ tx[t].journal = <<>>
  /\ Goto(t, Outcome(t))
  /\ NoFault
  /\ ServerSame

-----------------------------------------------------------------------------
TxnStep(t) ==
  /\ \/ Prepare(t) \/ Proceed(t)
     \/ Reclassify(t) \/ Check(t) \/ Post(t) \/ Put(t) \/ Verify(t)
     \/ Recover(t) \/ Conclude(t)
     \/ Leave(t) \/ Unwind(t) \/ Undo(t) \/ Undone(t) \/ EndRollback(t)
     \/ ReadFails(t)
  /\ UNCHANGED <<initial, edits>>

IseNext == (\E t \in Txns : TxnStep(t)) \/ (\E o \in Objects : Edit(o))

IseSpec == IseInit /\ [][IseNext]_iseVars

\* Every request has a timeout and the worker process stays alive.
IseFairSpec == IseSpec /\ \A t \in Txns : WF_iseVars(TxnStep(t))

-----------------------------------------------------------------------------
Ended     == {"refused", "clean", "committed", "rolled_back", "rollback_failed"}
Undamaged == {"refused", "clean", "rolled_back"}
PCs == Ended \cup {"prepare", "prepared", "apply", "send", "verify", "recover",
                   "applied", "failed", "unwind", "undo", "undone"}

Actions == [kind : {"none", "create", "noop", "update", "deferred"}, id : Nat,
            pre : Values \cup {None}]

\* A run that reports it changed nothing, or took everything back, left no
\* object as it wrote it: whatever request failed before or after it took
\* effect and whatever others did to the server meanwhile (ise.py rollback).
NothingLeft ==
  \A t \in Txns : tx[t].pc \in Undamaged => \A o \in Objects : author[o] # t

\* Nobody but adapter t has sent anything to the server.
Alone(t) ==
  edits = 0 /\ \A u \in Txns \ {t} : tx[u].pc = "prepare" /\ tx[u].pos = 1

\* An adapter that is alone with the server commits with every object as the
\* manifest wants it, or gives up with every object as it found it.
AllOrNothing ==
  \A t \in Txns : Alone(t) =>
    /\ tx[t].pc = "committed" =>
         \A i \in 1..Len(Manifest[t]) :
           server[Manifest[t][i]].value = Want[t][Manifest[t][i]]
    /\ tx[t].pc \in Undamaged =>
         \A o \in Objects : server[o].value = initial[o].value

\* An object without the ownership marker is never written or deleted
\* (_classify: "collision is not owned by this orchestrator"), by however many
\* adapters, unless somebody else edits the server under them.
ForeignKept ==
  edits = 0 => \A o \in Objects : ~Owned(initial[o]) => server[o] = initial[o]

\* As long as ISE answers every request, an adapter that is alone with it can
\* take back whatever it wrote: dependents go first, so no DELETE meets an
\* object that a cell still refers to.
RollbackWorks ==
  \A t \in Txns : faults = 0 /\ Alone(t) => ~tx[t].failed

\* Every transaction comes to an end, rollback entries that fail included.
TxnEnds == <>(\A t \in Txns : tx[t].pc \in Ended)

-----------------------------------------------------------------------------
(* What a document says and the code does not do.                          *)

\* "A concurrent change therefore fails closed ... rather than being
\* overwritten" (docs/ise-ers-executor.md:68).
ChangesSurviveRollback ==
  [][\A t \in Txns, o \in Objects :
       tx[t].pc = "undo" /\ tx'[t] # tx[t] /\ server[o] # Absent
         /\ server'[o] # Absent /\ server'[o] # server[o]
       => author[o] = t]_iseVars
=============================================================================
