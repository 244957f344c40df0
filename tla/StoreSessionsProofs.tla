------------------------ MODULE StoreSessionsProofs ------------------------
(***************************************************************************)
(* Why RunStore may take a transaction for one atomic action: what a       *)
(* session has checked stays true until its COMMIT, because of BEGIN       *)
(* IMMEDIATE on SQLite and of unique keys, row locks and advisory locks on *)
(* PostgreSQL, with one exception: the status of a run that was only read. *)
(***************************************************************************)
EXTENDS StoreSessions, TLAPS

\* What a session carries at each program counter.
Shaped ==
  \A s \in Sessions :
    /\ ~Active(s) => Call(s) = NoCall
    /\ Active(s) =>
         /\ Call(s).op \in {"move", "complete", "create"}
         /\ Call(s).run \in Runs /\ Call(s).to \in Store!RunStatus
    /\ Call(s).op \in {"move", "complete"} =>
         Call(s).mode = "none" /\ sess[s].pc \notin {"inserted", "fabric"}
    /\ Call(s).op = "complete" => Call(s).to = "apply_succeeded"
    /\ Call(s).op = "create" =>
         /\ Call(s).mode \in Modes
         /\ Call(s).key \in Keys /\ Call(s).fabric \in Fabrics
         /\ Call(s).to = IF Call(s).mode = "apply" THEN "apply_queued"
                                                   ELSE "dry_run_queued"
         /\ sess[s].pc \in {"inserted", "fabric"} => Call(s).mode = "apply"

RowsComplete ==
  \A r \in Runs : rows[r] # NoRow =>
    /\ rows[r].status \in Store!RunStatus
    /\ rows[r].mode \in {"dry_run", "apply"}
    /\ rows[r].key \in Keys /\ rows[r].fabric \in Fabrics

\* Runs that are being created are nobody else's.
CreatesFresh ==
  \A s \in Sessions : Call(s).op = "create" =>
    /\ rows[Call(s).run] = NoRow
    /\ \A x \in Others(s) : Call(x).op = "create" => Call(x).run # Call(s).run

\* The row lock of PostgreSQL.
WritersApart ==
  \A s \in Sessions : \A x \in Others(s) :
    Writes(s) /\ Writes(x) => Call(x).run # Call(s).run

\* What a session read holds until its COMMIT, unless it was marked stale.
ReadsHold ==
  \A s \in Sessions :
    Call(s).op \in {"move", "complete"}
      /\ sess[s].pc \in {"read", "written", "chained"}
    => /\ rows[Call(s).run] # NoRow
       /\ ~sess[s].stale => MoveAllowed(Call(s))

\* The unique index on the idempotency key.
KeysHeld ==
  \A s \in Sessions : Inserted(s) =>
    /\ KeyUnknown(Call(s).key)
    /\ \A x \in Others(s) : Inserted(x) => Call(x).key # Call(s).key

\* The advisory lock of a fabric.
FabricsHeld ==
  \A s \in Sessions : HasFabric(s) =>
    /\ \A x \in Others(s) : HasFabric(x) => Call(x).fabric # Call(s).fabric
    /\ sess[s].pc # "fabric" => held[Call(s).fabric] = None

\* The advisory lock of the audit chain.
ChainHeld ==
  /\ ChainVerifies
  /\ \A s \in Sessions : sess[s].pc = "chained" =>
       /\ sess[s].previous = Len(events)
       /\ \A x \in Others(s) : sess[x].pc # "chained"

\* BEGIN IMMEDIATE.
OneWriter ==
  backend = "sqlite" =>
    /\ \A s, x \in Sessions : Active(s) /\ Active(x) => s = x
    /\ \A s \in Sessions : ~sess[s].stale

SessInv ==
  /\ SessTypeOK /\ Shaped /\ RowsComplete /\ CreatesFresh /\ WritersApart
  /\ ReadsHold /\ KeysHeld /\ FabricsHeld /\ ChainHeld /\ OneWriter

-----------------------------------------------------------------------------
LEMMA StatusFacts ==
  /\ "absent" \notin Store!RunStatus
  /\ {"apply_queued", "dry_run_queued", "apply_running", "apply_succeeded"}
       \subseteq Store!RunStatus
  /\ "apply_succeeded" \in Store!Terminal
  BY DEF Store!RunStatus, Store!ApplyActive, Store!DryRunActive, Store!Terminal

\* At the start nothing is stored and nobody is active.
LEMMA SessInitInv == SessInit => SessInv
<1> SUFFICES ASSUME SessInit PROVE SessInv
  OBVIOUS
<1>1. SessTypeOK
  BY SessionsAssumption DEF SessInit, SessTypeOK, NoRow, Rows, Idle, NoCall, Calls, PCs
<1>2. \A s \in Sessions : sess[s] = Idle
  BY DEF SessInit
<1>3. Shaped /\ CreatesFresh /\ WritersApart /\ ReadsHold /\ KeysHeld /\ FabricsHeld
  BY <1>2 DEF Shaped, CreatesFresh, WritersApart, ReadsHold, KeysHeld,
     FabricsHeld, Inserted, HasFabric, Writes, Active, Call, Idle, NoCall, Others
<1>4. RowsComplete /\ ChainHeld /\ OneWriter
  BY <1>2 DEF SessInit, RowsComplete, ChainHeld, ChainVerifies, OneWriter,
     Active, Idle, Others
<1> QED
  BY <1>1, <1>3, <1>4 DEF SessInv

\* A step of s that leaves the tables and its call alone.
LEMMA GotoType ==
  ASSUME SessInv, NEW s \in Sessions, NEW pc \in PCs, Goto(s, pc), TablesSame
  PROVE  /\ SessTypeOK'
         /\ \A x \in Sessions : sess'[x].call = sess[x].call
         /\ \A x \in Sessions : sess'[x].stale = sess[x].stale
         /\ \A x \in Sessions : sess'[x].previous = sess[x].previous
         /\ \A x \in Others(s) : sess'[x] = sess[x]
         /\ sess'[s].pc = pc
<1>1. \A x \in Sessions : sess'[x] = IF x = s THEN [sess[s] EXCEPT !.pc = pc] ELSE sess[x]
  BY DEF SessInv, SessTypeOK, Goto
<1>2. sess' \in [Sessions -> [pc : PCs, call : Calls, previous : Nat, stale : BOOLEAN]]
  BY <1>1 DEF SessInv, SessTypeOK, Goto
<1>3. SessTypeOK'
  BY <1>2 DEF SessInv, SessTypeOK, TablesSame
<1>4. sess'[s].pc = pc /\ sess'[s].call = sess[s].call
      /\ sess'[s].stale = sess[s].stale /\ sess'[s].previous = sess[s].previous
  BY <1>1 DEF SessInv, SessTypeOK
<1>5. \A x \in Sessions : x # s => sess'[x] = sess[x]
  BY <1>1
<1> QED
  BY <1>3, <1>4, <1>5 DEF Others

LEMMA AbortInv ==
  ASSUME SessInv, NEW s \in Sessions, Abort(s)
  PROVE  SessInv'
<1>1. \A x \in Sessions : sess'[x] = IF x = s THEN Idle ELSE sess[x]
  BY DEF SessInv, SessTypeOK, Abort
<1>2. SessTypeOK'
  <2>1. Idle \in [pc : PCs, call : Calls, previous : Nat, stale : BOOLEAN]
    BY DEF Idle, NoCall, PCs, Calls
  <2> QED
    BY <2>1 DEF SessInv, SessTypeOK, Abort, TablesSame
<1>3. Idle.pc = "idle" /\ Idle.call = NoCall /\ Idle.stale = FALSE /\ NoCall.op = "none"
      /\ NoCall.mode = "none"
  BY DEF Idle, NoCall
<1>4. Shaped' /\ RowsComplete' /\ CreatesFresh' /\ WritersApart'
  BY <1>1, <1>3 DEF SessInv, Shaped, RowsComplete, CreatesFresh, WritersApart,
     Writes, Active, Call, Others, Abort, TablesSame
<1>5. ReadsHold'
  BY <1>1, <1>3 DEF SessInv, ReadsHold, MoveAllowed, Committed, Call, Abort, TablesSame
<1>6. KeysHeld' /\ FabricsHeld'
  BY <1>1, <1>3 DEF SessInv, KeysHeld, FabricsHeld, KeyUnknown, Inserted,
     HasFabric, Call, Others, Abort, TablesSame
<1>7. ChainHeld' /\ OneWriter'
  BY <1>1, <1>3 DEF SessInv, ChainHeld, ChainVerifies, OneWriter, Active,
     Others, Abort, TablesSame
<1> QED
  BY <1>2, <1>4, <1>5, <1>6, <1>7 DEF SessInv

\* A statement that only moves s on keeps the invariant if s has, at its new
\* program counter, what the invariant wants of it there.
LEMMA AdvanceInv ==
  ASSUME SessInv, NEW s \in Sessions, Active(s), TablesSame,
         SessTypeOK',
         \A x \in Others(s) : sess'[x] = sess[x],
         sess'[s].call = sess[s].call,
         sess'[s].stale = sess[s].stale,
         sess'[s].pc # "idle",
         sess'[s].pc \in {"inserted", "fabric"} =>
           Call(s).op = "create" /\ Call(s).mode = "apply",
         sess'[s].pc \in {"written", "chained"} =>
           \A x \in Others(s) : Writes(x) => Call(x).run # Call(s).run,
         Call(s).op # "create" =>
           rows[Call(s).run] # NoRow /\ (sess[s].stale \/ MoveAllowed(Call(s))),
         Call(s).op = "create"
           /\ sess'[s].pc \in {"inserted", "fabric", "written", "chained"} =>
             /\ KeyUnknown(Call(s).key)
             /\ \A x \in Others(s) : Inserted(x) => Call(x).key # Call(s).key,
         Call(s).mode = "apply" /\ sess'[s].pc \in {"fabric", "written", "chained"} =>
           /\ FabricFree(s)
           /\ sess'[s].pc # "fabric" => held[Call(s).fabric] = None,
         sess'[s].pc = "chained" => ChainFree(s) /\ sess'[s].previous = Len(events)
  PROVE  SessInv'
<1>1. \A x \in Sessions : sess'[x].call = sess[x].call /\ sess'[x].stale = sess[x].stale
  BY DEF Others
<1>2. \A x \in Sessions : x # s => sess'[x] = sess[x]
  BY DEF Others
<1>3. RowsComplete' /\ OneWriter'
  BY <1>1, <1>2 DEF SessInv, RowsComplete, OneWriter, Active, TablesSame
<1>4. Shaped'
  BY <1>1, <1>2 DEF SessInv, Shaped, Active, Call
<1>5. CreatesFresh'
  BY <1>1 DEF SessInv, CreatesFresh, Call, Others, TablesSame
<1>6. WritersApart'
  BY <1>1, <1>2 DEF SessInv, WritersApart, Writes, Call, Others
<1>7. ReadsHold'
  BY <1>1, <1>2 DEF SessInv, ReadsHold, MoveAllowed, Committed, Call, TablesSame
<1>8. KeysHeld'
  BY <1>1, <1>2 DEF SessInv, KeysHeld, KeyUnknown, Inserted, Call, Others, TablesSame
<1>9. FabricsHeld'
  BY <1>1, <1>2 DEF SessInv, FabricsHeld, FabricFree, HasFabric, Call, Others, TablesSame
<1>10. ChainHeld'
  BY <1>2 DEF SessInv, ChainHeld, ChainVerifies, ChainFree, Others, TablesSame
<1> QED
  BY <1>3, <1>4, <1>5, <1>6, <1>7, <1>8, <1>9, <1>10 DEF SessInv

\* BEGIN: the session has read nothing and holds nothing.
LEMMA BeginInv ==
  ASSUME SessInv, NEW s \in Sessions,
         NEW call \in MoveCalls \cup CompleteCalls \cup CreateCalls, Begin(s, call)
  PROVE  SessInv'
<1>1. /\ call \in Calls
      /\ call.op \in {"move", "complete", "create"}
      /\ call.run \in Runs /\ call.to \in Store!RunStatus
      /\ call.op \in {"move", "complete"} => call.mode = "none"
      /\ call.op = "complete" => call.to = "apply_succeeded"
      /\ call.op = "create" =>
           /\ call.mode \in Modes /\ call.key \in Keys /\ call.fabric \in Fabrics
           /\ call.to = IF call.mode = "apply" THEN "apply_queued" ELSE "dry_run_queued"
  <2>1. CASE call \in MoveCalls
    <3>1. PICK r \in Runs, t \in Targets : call = OfRun("move", r, t)
      BY <2>1 DEF MoveCalls
    <3>2. t \in Store!RunStatus
      BY SessionsAssumption
    <3> QED
      BY <3>1, <3>2 DEF OfRun, Calls
  <2>2. CASE call \in CompleteCalls
    <3>1. PICK r \in Runs : call = OfRun("complete", r, "apply_succeeded")
      BY <2>2 DEF CompleteCalls
    <3> QED
      BY <3>1, StatusFacts DEF OfRun, Calls
  <2>3. CASE call \in CreateCalls
    BY <2>3, StatusFacts, SessionsAssumption DEF CreateCalls, Calls
  <2> QED
    BY <2>1, <2>2, <2>3
<1>2. \A x \in Sessions : sess'[x] =
        IF x = s THEN [sess[s] EXCEPT !.pc = "begun", !.call = call] ELSE sess[x]
  BY DEF SessInv, SessTypeOK, Begin
<1>3. /\ sess'[s].pc = "begun" /\ sess'[s].call = call /\ sess'[s].stale = sess[s].stale
      /\ sess[s].pc = "idle" /\ sess[s].call = NoCall
  BY <1>2 DEF SessInv, SessTypeOK, Shaped, Begin, Active, Call
<1>4. \A x \in Sessions : x # s => sess'[x] = sess[x]
  BY <1>2
<1>5. SessTypeOK'
  <2>0. [sess[s] EXCEPT !.pc = "begun", !.call = call]
          \in [pc : PCs, call : Calls, previous : Nat, stale : BOOLEAN]
    BY <1>1 DEF SessInv, SessTypeOK, PCs
  <2>1. sess' \in [Sessions -> [pc : PCs, call : Calls, previous : Nat, stale : BOOLEAN]]
    BY <2>0 DEF SessInv, SessTypeOK, Begin
  <2> QED
    BY <2>1 DEF SessInv, SessTypeOK, Begin, TablesSame
<1>t. /\ rows' = rows /\ held' = held /\ ledger' = ledger /\ events' = events
      /\ backend' = backend
  BY DEF Begin, TablesSame
<1>c. \A x \in Sessions : Call(x)' = IF x = s THEN call ELSE Call(x)
  BY <1>3, <1>4 DEF Call
<1>w. /\ \A x \in Sessions : Writes(x)' <=> x # s /\ Writes(x)
      /\ \A x \in Sessions : Inserted(x)' <=> x # s /\ Inserted(x)
      /\ \A x \in Sessions : HasFabric(x)' <=> x # s /\ HasFabric(x)
  BY <1>3, <1>4 DEF Writes, Inserted, HasFabric, Call
<1>6. Shaped' /\ RowsComplete'
  <2>1. RowsComplete'
    BY <1>t DEF SessInv, RowsComplete
  <2>2. \A x \in Sessions : x # s => (Active(x)' <=> Active(x))
    BY <1>4 DEF Active
  <2> QED
    BY <1>1, <1>3, <1>4, <1>c, <2>1, <2>2 DEF SessInv, Shaped, Active
<1>7. CreatesFresh'
  <2>1. \A x \in Sessions : x # s => Call(x)' = Call(x)
    BY <1>4 DEF Call
  <2>2. Call(s)' = call
    BY <1>3 DEF Call
  <2>3. rows' = rows
    BY DEF Begin, TablesSame
  <2> QED
    BY <2>1, <2>2, <2>3 DEF SessInv, CreatesFresh, Others, Begin, Fresh
<1>8. WritersApart' /\ ReadsHold'
  <2>1. WritersApart'
    BY <1>c, <1>w DEF SessInv, WritersApart, Others
  <2>2. ReadsHold'
    BY <1>3, <1>4, <1>c, <1>t DEF SessInv, ReadsHold, MoveAllowed, Committed
  <2> QED
    BY <2>1, <2>2
<1>9. KeysHeld' /\ FabricsHeld' /\ ChainHeld'
  <2>1. KeysHeld'
    BY <1>c, <1>w, <1>t DEF SessInv, KeysHeld, KeyUnknown, Others
  <2>2. FabricsHeld'
    BY <1>c, <1>w, <1>t, <1>4 DEF SessInv, FabricsHeld, Others
  <2>3. ChainHeld'
    BY <1>3, <1>4, <1>t DEF SessInv, ChainHeld, ChainVerifies, Others
  <2> QED
    BY <2>1, <2>2, <2>3
<1>10. OneWriter'
  BY <1>3, <1>4 DEF SessInv, OneWriter, Active, Begin, MayBegin, TablesSame
<1> QED
  BY <1>5, <1>6, <1>7, <1>8, <1>9, <1>10 DEF SessInv

\* Nobody else writes to a run that is being created.
LEMMA CreatorAlone ==
  ASSUME SessInv, NEW s \in Sessions, Call(s).op = "create",
         NEW x \in Others(s), Writes(x)
  PROVE  Call(x).run # Call(s).run
<1>1. x \in Sessions /\ sess[x].pc \in {"written", "chained"} /\ Active(x)
  BY DEF Others, Writes, Active
<1>2. Call(x).op \in {"move", "complete", "create"}
  BY <1>1 DEF SessInv, Shaped
<1>3. CASE Call(x).op = "create"
  BY <1>3 DEF SessInv, CreatesFresh
<1>4. CASE Call(x).op # "create"
  BY <1>1, <1>2, <1>4 DEF SessInv, CreatesFresh, ReadsHold
<1> QED
  BY <1>3, <1>4

\* Each statement before COMMIT.
LEMMA StatementInv ==
  ASSUME SessInv, NEW s \in Sessions,
         Select(s) \/ Update(s) \/ InsertRun(s) \/ LockFabric(s) \/ TakeLock(s)
           \/ AppendAudit(s)
  PROVE  SessInv'
<1>0. /\ Call(s).op \in {"move", "complete", "create"}
      /\ Call(s).op # "create" => Call(s).mode = "none"
      /\ sess[s].pc \in {"inserted", "fabric"} =>
           Call(s).op = "create" /\ Call(s).mode = "apply"
  BY DEF SessInv, Shaped, Select, Update, InsertRun, LockFabric, TakeLock, AppendAudit, Active
<1>a. CASE Abort(s)
  BY <1>a, AbortInv
<1>1. CASE Select(s) /\ ~Abort(s)
  <2>1. Goto(s, "read") /\ TablesSame /\ Active(s)
        /\ (Call(s).op # "create" =>
              MoveAllowed(Call(s)) /\ rows[Call(s).run] # NoRow)
    BY <1>1 DEF Select, Active, MoveAllowed
  <2>2. "read" \in PCs
    BY DEF PCs
  <2> QED
    BY <2>1, <2>2, <1>0, GotoType, AdvanceInv
<1>2. CASE Update(s) /\ ~Abort(s)
  <2>1. /\ Goto(s, "written") /\ TablesSame /\ Active(s)
        /\ Call(s).op # "create" /\ sess[s].pc = "read"
        /\ \A x \in Others(s) : Writes(x) => Call(x).run # Call(s).run
    BY <1>2 DEF Update, RowFree, Active
  <2>2. "written" \in PCs
    BY DEF PCs
  <2>3. rows[Call(s).run] # NoRow /\ (sess[s].stale \/ MoveAllowed(Call(s)))
    BY <2>1, <1>0 DEF SessInv, ReadsHold
  <2> QED
    BY <2>1, <2>2, <2>3, <1>0, GotoType, AdvanceInv
<1>3. CASE InsertRun(s) /\ ~Abort(s)
  <2>1. /\ Goto(s, IF Call(s).mode = "apply" THEN "inserted" ELSE "written")
        /\ TablesSame /\ Active(s)
        /\ Call(s).op = "create"
        /\ KeyUnknown(Call(s).key)
        /\ \A x \in Others(s) : Inserted(x) => Call(x).key # Call(s).key
    BY <1>3 DEF InsertRun, KeyFree, Active
  <2>2. (IF Call(s).mode = "apply" THEN "inserted" ELSE "written") \in PCs
    BY DEF PCs
  <2>3. \A x \in Others(s) : Writes(x) => Call(x).run # Call(s).run
    BY <2>1, CreatorAlone
  <2> QED
    BY <2>1, <2>2, <2>3, <1>0, GotoType, AdvanceInv
<1>4. CASE LockFabric(s)
  <2>1. Goto(s, "fabric") /\ TablesSame /\ Active(s) /\ sess[s].pc = "inserted"
        /\ FabricFree(s)
    BY <1>4 DEF LockFabric, Active
  <2>2. "fabric" \in PCs
    BY DEF PCs
  <2>3. /\ KeyUnknown(Call(s).key)
        /\ \A x \in Others(s) : Inserted(x) => Call(x).key # Call(s).key
    BY <2>1, <1>0 DEF SessInv, KeysHeld, Inserted
  <2> QED
    BY <2>1, <2>2, <2>3, <1>0, GotoType, AdvanceInv
<1>5. CASE TakeLock(s) /\ ~Abort(s)
  <2>1. Goto(s, "written") /\ TablesSame /\ Active(s) /\ sess[s].pc = "fabric"
        /\ held[Call(s).fabric] = None
    BY <1>5 DEF TakeLock, Active
  <2>2. "written" \in PCs
    BY DEF PCs
  <2>3. /\ KeyUnknown(Call(s).key)
        /\ \A x \in Others(s) : Inserted(x) => Call(x).key # Call(s).key
    BY <2>1, <1>0 DEF SessInv, KeysHeld, Inserted
  <2>4. FabricFree(s)
    BY <2>1, <1>0 DEF SessInv, FabricsHeld, HasFabric, FabricFree
  <2>5. \A x \in Others(s) : Writes(x) => Call(x).run # Call(s).run
    BY <1>0, <2>1, CreatorAlone
  <2> QED
    BY <2>1, <2>2, <2>3, <2>4, <2>5, <1>0, GotoType, AdvanceInv
<1>6. CASE AppendAudit(s)
  <2>1. /\ sess[s].pc = "written" /\ ChainFree(s) /\ TablesSame /\ Active(s)
        /\ \A x \in Sessions : sess'[x] =
             IF x = s THEN [sess[s] EXCEPT !.pc = "chained", !.previous = Len(events)]
             ELSE sess[x]
    BY <1>6 DEF AppendAudit, Active, LastEvent, SessInv, SessTypeOK
  <2>2. SessTypeOK'
    <3>1. Len(events) \in Nat
      BY DEF SessInv, SessTypeOK
    <3>2. [sess[s] EXCEPT !.pc = "chained", !.previous = Len(events)]
            \in [pc : PCs, call : Calls, previous : Nat, stale : BOOLEAN]
      BY <3>1 DEF SessInv, SessTypeOK, PCs
    <3>3. sess' \in [Sessions -> [pc : PCs, call : Calls, previous : Nat, stale : BOOLEAN]]
      BY <1>6, <3>2 DEF SessInv, SessTypeOK, AppendAudit, LastEvent
    <3> QED
      BY <2>1, <3>3 DEF SessInv, SessTypeOK, TablesSame
  <2>3. /\ sess'[s].pc = "chained" /\ sess'[s].previous = Len(events)
        /\ sess'[s].call = sess[s].call /\ sess'[s].stale = sess[s].stale
        /\ \A x \in Others(s) : sess'[x] = sess[x]
    BY <2>1 DEF Others, SessInv, SessTypeOK
  <2>4. Call(s).op = "create" =>
          /\ KeyUnknown(Call(s).key)
          /\ \A x \in Others(s) : Inserted(x) => Call(x).key # Call(s).key
    BY <2>1 DEF SessInv, KeysHeld, Inserted
  <2>5. Call(s).mode = "apply" => FabricFree(s) /\ held[Call(s).fabric] = None
    BY <2>1 DEF SessInv, FabricsHeld, HasFabric, FabricFree
  <2>6. \A x \in Others(s) : Writes(x) => Call(x).run # Call(s).run
    BY <2>1 DEF SessInv, WritersApart, Writes
  <2>7. Call(s).op # "create" =>
          rows[Call(s).run] # NoRow /\ (sess[s].stale \/ MoveAllowed(Call(s)))
    BY <2>1, <1>0 DEF SessInv, ReadsHold
  <2> QED
    BY <2>1, <2>2, <2>3, <2>4, <2>5, <2>6, <2>7, <1>0, AdvanceInv
<1> QED
  BY <1>a, <1>1, <1>2, <1>3, <1>4, <1>5, <1>6 DEF LockFabric, AppendAudit

-----------------------------------------------------------------------------
\* COMMIT puts the row, the lock, the manifest and the events of one session
\* into the tables, and marks the sessions that had read the row.
LEMMA CommitInv ==
  ASSUME SessInv, NEW s \in Sessions, Commit(s)
  PROVE  SessInv'
<1> DEFINE c == Call(s)
<1>0. /\ sess[s].pc = "chained" /\ Active(s) /\ Writes(s)
      /\ c.op \in {"move", "complete", "create"}
      /\ c.run \in Runs /\ c.to \in Store!RunStatus /\ c \in Calls
      /\ c.op = "create" => Inserted(s) /\ rows[c.run] = NoRow
      /\ c.op # "create" => c.mode = "none" /\ rows[c.run] # NoRow
  BY DEF SessInv, SessTypeOK, Shaped, CreatesFresh, ReadsHold, Commit, Active,
     Call, Writes, Inserted
<1>1. \A x \in Sessions : sess'[x] =
        IF x = s THEN Idle
        ELSE [sess[x] EXCEPT !.stale = sess[x].stale \/ Stale(s, x)]
  BY DEF Commit
<1>i. /\ Idle.pc = "idle" /\ Idle.call = NoCall /\ Idle.stale = FALSE
      /\ NoCall.op = "none" /\ NoCall.mode = "none"
  BY DEF Idle, NoCall
<1>2. /\ sess'[s].pc = "idle" /\ sess'[s].call = NoCall /\ sess'[s].stale = FALSE
      /\ NoCall.op = "none" /\ NoCall.mode = "none"
  BY <1>1, <1>i
<1>3. \A x \in Sessions : x # s =>
        /\ sess'[x].pc = sess[x].pc /\ sess'[x].call = sess[x].call
        /\ sess'[x].previous = sess[x].previous
        /\ sess'[x].stale <=> sess[x].stale \/ Stale(s, x)
  <2>1. ASSUME NEW x \in Sessions, x # s
        PROVE  /\ sess'[x] = [sess[x] EXCEPT !.stale = sess[x].stale \/ Stale(s, x)]
               /\ sess[x] \in [pc : PCs, call : Calls, previous : Nat, stale : BOOLEAN]
    BY <1>1, <2>1 DEF SessInv, SessTypeOK
  <2>2. ASSUME NEW x \in Sessions, x # s
        PROVE  /\ sess'[x].pc = sess[x].pc /\ sess'[x].call = sess[x].call
               /\ sess'[x].previous = sess[x].previous
               /\ sess'[x].stale = (sess[x].stale \/ Stale(s, x))
    BY <2>1, <2>2
  <2> QED BY <2>2
<1>c. \A x \in Sessions : Call(x)' = IF x = s THEN NoCall ELSE Call(x)
  BY <1>2, <1>3 DEF Call
<1>w. /\ \A x \in Sessions : Writes(x)' <=> x # s /\ Writes(x)
      /\ \A x \in Sessions : Inserted(x)' <=> x # s /\ Inserted(x)
      /\ \A x \in Sessions : HasFabric(x)' <=> x # s /\ HasFabric(x)
      /\ \A x \in Sessions : Active(x)' <=> x # s /\ Active(x)
  BY <1>2, <1>3 DEF Writes, Inserted, HasFabric, Active, Call
<1>r. /\ \A r \in Runs : r # c.run => rows'[r] = rows[r]
      /\ rows'[c.run] = NewRow(s)
      /\ backend' = backend
  BY <1>0 DEF SessInv, SessTypeOK, Commit
<1>n. /\ NewRow(s).status = c.to /\ NewRow(s) # NoRow /\ NewRow(s) \in Rows
      /\ NewRow(s).mode \in {"dry_run", "apply"}
      /\ NewRow(s).key \in Keys /\ NewRow(s).fabric \in Fabrics
      /\ c.op # "create" => NewRow(s).key = rows[c.run].key
      /\ c.op = "create" => NewRow(s).key = c.key
  <2>1. CASE c.op = "create"
    <3>1. c.mode \in {"dry_run", "apply"} /\ c.key \in Keys /\ c.fabric \in Fabrics
      BY <2>1, SessionsAssumption DEF SessInv, Shaped
    <3>2. NewRow(s) = [status |-> c.to, mode |-> c.mode, key |-> c.key,
                       fabric |-> c.fabric]
      BY <2>1 DEF NewRow
    <3> QED
      BY <1>0, <2>1, <3>1, <3>2, StatusFacts DEF NoRow, Rows
  <2>2. CASE c.op # "create"
    <3>1. /\ rows[c.run] \in Rows
          /\ rows[c.run].mode \in {"dry_run", "apply"}
          /\ rows[c.run].key \in Keys /\ rows[c.run].fabric \in Fabrics
      BY <1>0, <2>2 DEF SessInv, SessTypeOK, RowsComplete
    <3>2. NewRow(s) = [rows[c.run] EXCEPT !.status = c.to]
      BY <2>2 DEF NewRow
    <3> QED
      BY <1>0, <2>2, <3>1, <3>2, StatusFacts DEF NoRow, Rows
  <2> QED
    BY <2>1, <2>2
<1>e. events' \in Seq(Nat) /\ ChainVerifies'
  <2>1. sess[s].previous = Len(events) /\ events \in Seq(Nat) /\ Len(events) \in Nat
        /\ \A i \in 1..Len(events) : events[i] = i - 1
    BY <1>0 DEF SessInv, SessTypeOK, ChainHeld, ChainVerifies
  <2>2. CASE c.op = "complete"
    <3>1. events' = events \o <<Len(events), Len(events) + 1>>
      BY <2>1, <2>2 DEF Commit, NewEvents
    <3> QED
      BY <2>1, <3>1 DEF ChainVerifies
  <2>3. CASE c.op # "complete"
    <3>1. events' = events \o <<Len(events)>>
      BY <2>1, <2>3 DEF Commit, NewEvents
    <3> QED
      BY <2>1, <3>1 DEF ChainVerifies
  <2> QED
    BY <2>2, <2>3
<1>4. SessTypeOK'
  <2>1. rows' \in [Runs -> Rows]
    BY <1>0, <1>n DEF SessInv, SessTypeOK, Commit
  <2>2. held' \in [Fabrics -> Runs \cup {None}]
    <3>1. \A f \in Fabrics : NewLock(s, f) \in Runs \cup {None}
      BY <1>0 DEF SessInv, SessTypeOK, NewLock
    <3> QED
      BY <3>1 DEF Commit
  <2>3. ledger' \in Seq(Store!ManifestType)
    <3>1. CASE c.op = "complete"
      <4>1. Manifest(s) \in Store!ManifestType
        BY <1>0, <3>1, <1>n DEF Manifest, Store!ManifestType, NewRow, SessInv,
           RowsComplete
      <4>2. ledger' = Append(ledger, Manifest(s))
        BY <3>1 DEF Commit
      <4> QED
        BY <4>1, <4>2 DEF SessInv, SessTypeOK
    <3>2. CASE c.op # "complete"
      BY <3>2 DEF SessInv, SessTypeOK, Commit
    <3> QED
      BY <3>1, <3>2
  <2>4. sess' \in [Sessions -> [pc : PCs, call : Calls, previous : Nat, stale : BOOLEAN]]
    <3>1. Idle \in [pc : PCs, call : Calls, previous : Nat, stale : BOOLEAN]
      BY DEF Idle, NoCall, PCs, Calls
    <3>2. \A x \in Sessions :
            [sess[x] EXCEPT !.stale = sess[x].stale \/ Stale(s, x)]
              \in [pc : PCs, call : Calls, previous : Nat, stale : BOOLEAN]
      BY DEF SessInv, SessTypeOK, Stale
    <3> QED
      BY <3>1, <3>2 DEF Commit
  <2> QED
    BY <2>1, <2>2, <2>3, <2>4, <1>e DEF SessInv, SessTypeOK, Commit
<1>5. Shaped'
  BY <1>2, <1>3, <1>c, <1>w DEF SessInv, Shaped
<1>6. RowsComplete'
  BY <1>0, <1>r, <1>n DEF SessInv, RowsComplete
<1>7. CreatesFresh'
  <2>1. \A x \in Sessions : x # s /\ Call(x).op = "create" => Call(x).run # c.run
    <3> SUFFICES ASSUME NEW x \in Sessions, x # s, Call(x).op = "create"
                 PROVE  Call(x).run # c.run
      OBVIOUS
    <3>1. CASE c.op = "create"
      BY <3>1 DEF SessInv, CreatesFresh, Others
    <3>2. CASE c.op # "create"
      BY <1>0, <3>2 DEF SessInv, CreatesFresh
    <3> QED
      BY <3>1, <3>2
  <2>2. \A x \in Sessions : x # s /\ Call(x).op = "create" => Call(x).run \in Runs
    BY DEF SessInv, Shaped, Active, NoCall
  <2> QED
    BY <2>1, <2>2, <1>2, <1>c, <1>r DEF SessInv, CreatesFresh, Others
<1>8. WritersApart'
  BY <1>c, <1>w DEF SessInv, WritersApart, Others
<1>9. ReadsHold'
  <2> SUFFICES ASSUME NEW x \in Sessions, x # s,
                      Call(x).op \in {"move", "complete"},
                      sess[x].pc \in {"read", "written", "chained"}
               PROVE  /\ rows'[Call(x).run] # NoRow
                      /\ ~sess'[x].stale => MoveAllowed(Call(x))'
    BY <1>2, <1>3, <1>c DEF ReadsHold
  <2>1. Call(x).run \in Runs /\ rows[Call(x).run] # NoRow /\ Active(x)
    BY DEF SessInv, Shaped, ReadsHold, Active
  <2>2. rows'[Call(x).run] # NoRow
    BY <2>1, <1>r, <1>n
  <2>3. ASSUME ~sess'[x].stale PROVE MoveAllowed(Call(x))'
    <3>1. ~sess[x].stale /\ ~Stale(s, x) /\ MoveAllowed(Call(x))
      BY <2>3, <1>3 DEF SessInv, ReadsHold
    <3>2. Call(x).run # c.run
      <4>1. CASE sess[x].pc = "read"
        BY <4>1, <3>1 DEF Stale
      <4>2. CASE sess[x].pc # "read"
        BY <4>2, <1>0 DEF SessInv, WritersApart, Writes, Others
      <4> QED
        BY <4>1, <4>2
    <3>3. rows'[Call(x).run] = rows[Call(x).run]
      BY <3>2, <2>1, <1>r
    <3>4. \A r \in Runs : r # c.run /\ ~Committed(r) => ~Committed(r)'
      <4>1. CASE c.op = "complete"
        <5>1. /\ ledger' = Append(ledger, Manifest(s))
              /\ Manifest(s).source_reference = c.run
          BY <4>1 DEF Commit, Manifest
        <5>2. ledger \in Seq(Store!ManifestType)
          BY DEF SessInv, SessTypeOK
        <5>3. \A i \in 1..Len(ledger') :
                \/ i \in 1..Len(ledger) /\ ledger'[i] = ledger[i]
                \/ ledger'[i] = Manifest(s)
          BY <5>1, <5>2
        <5> QED
          BY <5>1, <5>3 DEF Committed
      <4>2. CASE c.op # "complete"
        BY <4>2 DEF Commit, Committed
      <4> QED
        BY <4>1, <4>2
    <3> QED
      BY <3>1, <3>2, <3>3, <3>4, <1>c, <2>1 DEF MoveAllowed
  <2> QED
    BY <2>2, <2>3
<1>10. KeysHeld'
  <2> SUFFICES ASSUME NEW x \in Sessions, x # s, Inserted(x)
               PROVE  /\ KeyUnknown(Call(x).key)'
                      /\ \A y \in Others(x) : Inserted(y)' => Call(y)'.key # Call(x).key
    BY <1>c, <1>w DEF KeysHeld, KeyUnknown
  <2>1. KeyUnknown(Call(x).key)
        /\ \A y \in Others(x) : Inserted(y) => Call(y).key # Call(x).key
    BY DEF SessInv, KeysHeld
  <2>2. NewRow(s).key # Call(x).key
    <3>1. CASE c.op = "create"
      BY <3>1, <1>0, <1>n, <2>1 DEF Others
    <3>2. CASE c.op # "create"
      BY <3>2, <1>0, <1>n, <2>1 DEF KeyUnknown
    <3> QED
      BY <3>1, <3>2
  <2>3. \A r \in Runs : rows'[r].key # Call(x).key
    BY <1>r, <2>1, <2>2 DEF KeyUnknown
  <2>4. Call(x)' = Call(x)
    BY <1>c
  <2> QED
    BY <2>1, <2>3, <2>4, <1>c, <1>w DEF KeyUnknown, Others
<1>11. FabricsHeld'
  <2> SUFFICES ASSUME NEW x \in Sessions, x # s, HasFabric(x)
               PROVE  /\ \A y \in Others(x) : HasFabric(y)' => Call(y)'.fabric # Call(x).fabric
                      /\ sess[x].pc # "fabric" => held'[Call(x).fabric] = None
    BY <1>c, <1>w, <1>3 DEF FabricsHeld
  <2>1. \A y \in Others(x) : HasFabric(y) => Call(y).fabric # Call(x).fabric
    BY DEF SessInv, FabricsHeld
  <2>2. ASSUME sess[x].pc # "fabric" PROVE held'[Call(x).fabric] = None
    <3>1. held[Call(x).fabric] = None
      BY <2>2 DEF SessInv, FabricsHeld
    <3>2. Call(x).fabric \in Fabrics
      BY DEF SessInv, Shaped, HasFabric, Active
    <3>3. held'[Call(x).fabric] = NewLock(s, Call(x).fabric)
      BY <3>2 DEF Commit
    <3>4. CASE c.op = "create" /\ c.mode = "apply"
      <4>1. HasFabric(s) /\ s \in Others(x)
        BY <3>4, <1>0 DEF HasFabric, Others
      <4>2. c.fabric # Call(x).fabric
        BY <4>1, <2>1
      <4> QED
        BY <3>1, <3>3, <4>2 DEF NewLock
    <3>5. CASE ~(c.op = "create" /\ c.mode = "apply")
      BY <3>1, <3>3, <3>5 DEF NewLock
    <3> QED
      BY <3>4, <3>5
  <2> QED
    BY <2>1, <2>2, <1>c, <1>w DEF Others
<1>12. ChainHeld'
  <2>1. \A x \in Sessions : x # s => sess[x].pc # "chained"
    BY <1>0 DEF SessInv, ChainHeld, Others
  <2> QED
    BY <2>1, <1>2, <1>3, <1>e DEF ChainHeld
<1>13. OneWriter'
  <2> SUFFICES ASSUME backend = "sqlite"
               PROVE  /\ \A x, y \in Sessions : Active(x)' /\ Active(y)' => x = y
                      /\ \A x \in Sessions : ~sess'[x].stale
    BY <1>r DEF OneWriter
  <2>1. \A x \in Sessions : x # s => ~Active(x) /\ ~sess[x].stale
    BY <1>0 DEF SessInv, OneWriter
  <2> QED
    BY <2>1, <1>2, <1>3, <1>w DEF Stale, Active
<1> QED
  BY <1>4, <1>5, <1>6, <1>7, <1>8, <1>9, <1>10, <1>11, <1>12, <1>13 DEF SessInv

\* Every step of a session keeps the invariant.
LEMMA SessStepInv ==
  ASSUME SessInv, [SessNext]_sessVars
  PROVE  SessInv'
<1>1. CASE SessNext
  <2>1. PICK s \in Sessions :
          \/ \E call \in MoveCalls \cup CompleteCalls \cup CreateCalls : Begin(s, call)
          \/ Statement(s)
          \/ Abort(s)
    BY <1>1 DEF SessNext
  <2> QED
    BY <2>1, BeginInv, StatementInv, CommitInv, AbortInv DEF Statement
<1>2. CASE UNCHANGED sessVars
  <2>1. /\ backend' = backend /\ rows' = rows /\ held' = held /\ ledger' = ledger
        /\ events' = events /\ sess' = sess
    BY <1>2 DEF sessVars
  <2>2. SessTypeOK' /\ Shaped' /\ RowsComplete' /\ CreatesFresh' /\ WritersApart'
    BY <2>1 DEF SessInv, SessTypeOK, Shaped, RowsComplete, CreatesFresh,
       WritersApart, Writes, Active, Call
  <2>3. ReadsHold' /\ KeysHeld' /\ FabricsHeld' /\ ChainHeld' /\ OneWriter'
    BY <2>1 DEF SessInv, ReadsHold, MoveAllowed, Committed, KeysHeld, KeyUnknown,
       FabricsHeld, ChainHeld, ChainVerifies, OneWriter, Inserted, HasFabric,
       Active, Call
  <2> QED
    BY <2>2, <2>3 DEF SessInv
<1> QED
  BY <1>1, <1>2

\* Sessions keep what they checked until they commit (store.py, transaction;
\* postgres_store.py, _lock_fabric_transaction and _lock_audit_transaction).
THEOREM SessionInvariant == SessSpec => []SessInv
<1>1. SessInit => SessInv
  BY SessInitInv
<1>2. SessInv /\ [SessNext]_sessVars => SessInv'
  BY SessStepInv
<1> QED
  BY <1>1, <1>2, PTL DEF SessSpec

\* The audit chain verifies at every instant, on both stores, for any number
\* of concurrent sessions (store.py, _append_audit and verify_audit_chain).
THEOREM AuditChainHolds == SessSpec => []ChainVerifies
<1>1. SessInv => ChainVerifies
  BY DEF SessInv, ChainHeld
<1> QED
  BY <1>1, SessionInvariant, PTL

\* On SQLite nothing that a transaction has read changes before its COMMIT
\* (store.py, transaction).
THEOREM SqliteSerial ==
  SessSpec => [](backend = "sqlite" => \A s \in Sessions : ~sess[s].stale)
<1>1. SessInv => (backend = "sqlite" => \A s \in Sessions : ~sess[s].stale)
  BY DEF SessInv, OneWriter
<1> QED
  BY <1>1, SessionInvariant, PTL

\* A session never waits for one that is not further than itself: who waits
\* for a row, a key, a fabric or the chain waits for a session that has taken
\* all that comes before it.  So those that are furthest do not wait at all.
LEMMA FurthestFree ==
  ASSUME SessInv, \A s \in Sessions : Active(s) => Waits(s)
  PROVE  \A s \in Sessions : ~Active(s)
<1>1. \A s \in Sessions : sess[s].pc \in PCs
  BY DEF SessInv, SessTypeOK
<1>2. \A s \in Sessions : sess[s].pc # "chained"
  BY DEF Active, Waits
<1>3. \A s \in Sessions : sess[s].pc # "written"
  BY <1>2 DEF Active, Waits, ChainFree, Others
<1>4. \A s \in Sessions : sess[s].pc # "fabric"
  BY DEF Active, Waits
<1>5. \A s \in Sessions : ~HasFabric(s) /\ ~Writes(s)
  BY <1>2, <1>3, <1>4 DEF HasFabric, Writes
<1>6. \A s \in Sessions : sess[s].pc # "inserted"
  BY <1>5 DEF Active, Waits, FabricFree, Others
<1>7. \A s \in Sessions : ~Inserted(s)
  BY <1>2, <1>3, <1>4, <1>6 DEF Inserted
<1>8. \A s \in Sessions : RowFree(s) /\ KeyFree(s)
  BY <1>5, <1>7 DEF RowFree, KeyFree, Others
<1>9. \A s \in Sessions : sess[s].pc # "read" /\ sess[s].pc # "begun"
  BY <1>8 DEF Active, Waits
<1> QED
  BY <1>1, <1>2, <1>3, <1>4, <1>6, <1>9 DEF PCs, Active

\* However many sessions there are, they never all wait for each other: the
\* statements of every transaction take row, key, fabric and chain in one
\* order (store.py, create_run, transition_run and complete_apply, with
\* _lock_fabric_transaction and _lock_audit_transaction of postgres_store.py).
THEOREM SessionsNeverDeadlock == SessSpec => []NoDeadlock
<1>1. SessInv => NoDeadlock
  BY FurthestFree DEF NoDeadlock
<1> QED
  BY <1>1, SessionInvariant, PTL

-----------------------------------------------------------------------------
\* A step that leaves the tables alone is no step of RunStore.
LEMMA TablesSameStep ==
  ASSUME TablesSame PROVE UNCHANGED Store!storeVars
<1>1. rows' = rows /\ held' = held /\ ledger' = ledger
  BY DEF TablesSame
<1> QED
  BY <1>1 DEF Store!storeVars, StoredRun, StoredLock

\* The row of the run after COMMIT, as RunStore has it.
LEMMA CommittedTables ==
  ASSUME SessInv, NEW s \in Sessions, Commit(s)
  PROVE  /\ Call(s).run \in Runs
         /\ \A r \in Runs : r # Call(s).run => StoredRun(r)' = StoredRun(r)
         /\ rows'[Call(s).run] = NewRow(s)
         /\ \A f \in Fabrics : held'[f] = NewLock(s, f)
<1>1. Call(s).run \in Runs
  BY DEF SessInv, Shaped, Commit, Active
<1>2. rows' = [rows EXCEPT ![Call(s).run] = NewRow(s)] /\ rows \in [Runs -> Rows]
  BY DEF SessInv, SessTypeOK, Commit
<1>3. \A r \in Runs : rows'[r] = IF r = Call(s).run THEN NewRow(s) ELSE rows[r]
  BY <1>1, <1>2
<1> QED
  BY <1>1, <1>3 DEF StoredRun, Commit

\* COMMIT of create_run.
LEMMA CreateCommits ==
  ASSUME SessInv, NEW s \in Sessions, Commit(s), Call(s).op = "create"
  PROVE  Store!CreateRun(Call(s).run, Call(s).fabric, Call(s).mode, Call(s).key, 0, 1)
<1> DEFINE c == Call(s)
<1>1. /\ sess[s].pc = "chained" /\ Active(s) /\ Inserted(s)
      /\ c.run \in Runs /\ c.fabric \in Fabrics /\ c.key \in Keys
      /\ c.mode \in {"dry_run", "apply"}
      /\ c.to = IF c.mode = "apply" THEN "apply_queued" ELSE "dry_run_queued"
  BY SessionsAssumption DEF SessInv, Shaped, Commit, Active, Inserted
<1>2. rows[c.run] = NoRow
  BY DEF SessInv, CreatesFresh
<1>3. ~Store!Created(c.run)
  BY <1>1, <1>2 DEF Store!Created, StoredRun, NoRow
<1>4. Store!Saved(c.fabric) /\ Store!ApprovedNow(c.fabric)
      /\ Store!PlanFabric(c.fabric) = c.fabric
  BY <1>1, SessionsAssumption DEF Store!Saved, Store!ApprovedNow, Store!PlanFabric
<1>5. Store!KeyFree(c.key)
  BY <1>1 DEF SessInv, KeysHeld, KeyUnknown, Store!KeyFree, StoredRun
<1>6. c.mode = "apply" => held[c.fabric] = None
  BY <1>1 DEF SessInv, FabricsHeld, HasFabric
<1>7. c.mode = "apply" => Store!LockFree(c.fabric)
  BY <1>1, <1>6 DEF Store!LockFree, StoredLock
<1>8. NewRow(s) = [status |-> c.to, mode |-> c.mode, key |-> c.key, fabric |-> c.fabric]
  BY DEF NewRow
<1>9. NewRow(s) # NoRow
  BY <1>1, <1>8, StatusFacts DEF NoRow
<1>10. \A r \in Runs : r = c.run => StoredRun(r)' =
         [status |-> IF c.mode = "apply" THEN "apply_queued" ELSE "dry_run_queued",
          mode |-> c.mode, plan |-> c.fabric, artifact |-> "artifact",
          fabric |-> c.fabric, key |-> c.key,
          window_end |-> IF c.mode = "apply" THEN 1 ELSE 0]
  BY <1>1, <1>8, <1>9, CommittedTables, SessionsAssumption DEF StoredRun
<1>11. [r \in Runs |-> StoredRun(r)]' =
         [[r \in Runs |-> StoredRun(r)] EXCEPT ![c.run] =
           [status |-> IF c.mode = "apply" THEN "apply_queued" ELSE "dry_run_queued",
            mode |-> c.mode, plan |-> c.fabric, artifact |-> "artifact",
            fabric |-> c.fabric, key |-> c.key,
            window_end |-> IF c.mode = "apply" THEN 1 ELSE 0]]
  BY <1>1, <1>10, CommittedTables
<1>12. \A f \in Fabrics : StoredLock(f)' =
         IF c.mode = "apply" /\ f = c.fabric THEN [run |-> c.run, expires_at |-> 1]
         ELSE StoredLock(f)
  BY <1>1, CommittedTables, SessionsAssumption DEF StoredLock, NewLock
<1>13. [f \in Fabrics |-> StoredLock(f)]' =
         IF c.mode = "apply"
         THEN [[f \in Fabrics |-> StoredLock(f)] EXCEPT ![c.fabric] =
                 [run |-> c.run, expires_at |-> 0 + 1]]
         ELSE [f \in Fabrics |-> StoredLock(f)]
  BY <1>12, <1>1
<1>14. ledger' = ledger
  BY DEF Commit
<1>15. /\ [p \in Fabrics |-> [decision |-> "approved", approver |-> "approver",
                             artifact |-> "artifact", expires_at |-> 1]][c.fabric].artifact
          = "artifact"
       /\ [p \in Fabrics |-> [artifact |-> "artifact", reservation |-> None,
                             created_by |-> "planner"]][c.fabric].artifact = "artifact"
  BY <1>1
<1> HIDE DEF c
<1>16. c.mode = "apply" => 0 < 1 /\ 0 <= 0 /\ 0 <= 1
  OBVIOUS
<1>17. Store!CreateRun(c.run, c.fabric, c.mode, c.key, 0, 1)
  BY <1>3, <1>4, <1>5, <1>7, <1>11, <1>13, <1>14, <1>15, <1>16 DEF Store!CreateRun
<1> QED
  BY <1>17 DEF c

\* COMMIT of a move: the rows and locks that all moves change alike.
LEMMA MoveCommits ==
  ASSUME SessInv, NEW s \in Sessions, Commit(s), Call(s).op # "create"
  PROVE  /\ Store!Created(Call(s).run)
         /\ Call(s).run \in Runs /\ Call(s).to \in Store!RunStatus
         /\ [r \in Runs |-> StoredRun(r)]' =
              [[r \in Runs |-> StoredRun(r)] EXCEPT ![Call(s).run].status = Call(s).to]
         /\ Call(s).to \in Store!Terminal =>
              [f \in Fabrics |-> StoredLock(f)]' = Store!DropLocks(Call(s).run)
         /\ Call(s).to \notin Store!Terminal =>
              [f \in Fabrics |-> StoredLock(f)]' = [f \in Fabrics |-> StoredLock(f)]
<1> DEFINE c == Call(s)
<1>1. /\ c.run \in Runs /\ c.to \in Store!RunStatus /\ rows[c.run] # NoRow
      /\ rows[c.run] \in Rows /\ rows[c.run].status \in Store!RunStatus
  BY DEF SessInv, SessTypeOK, Shaped, ReadsHold, RowsComplete, Commit, Active
<1>2. NewRow(s) = [rows[c.run] EXCEPT !.status = c.to]
  BY DEF NewRow
<1>3. /\ NewRow(s).status = c.to /\ NewRow(s).mode = rows[c.run].mode
      /\ NewRow(s).key = rows[c.run].key /\ NewRow(s).fabric = rows[c.run].fabric
      /\ NewRow(s) # NoRow
  BY <1>1, <1>2, StatusFacts DEF Rows, NoRow
<1>4. \A r \in Runs :
        r = c.run => StoredRun(r)' = [StoredRun(r) EXCEPT !.status = c.to]
  BY <1>1, <1>3, CommittedTables DEF StoredRun
<1>5. [r \in Runs |-> StoredRun(r)]' =
        [[r \in Runs |-> StoredRun(r)] EXCEPT ![c.run].status = c.to]
  BY <1>1, <1>4, CommittedTables
<1>6. Store!Created(c.run)
  BY <1>1, StatusFacts DEF Store!Created, StoredRun
<1>7. \A f \in Fabrics : StoredLock(f)' =
        IF c.to \in Store!Terminal /\ StoredLock(f).run = c.run
        THEN Store!NoLock ELSE StoredLock(f)
  BY CommittedTables DEF StoredLock, NewLock, Store!NoLock
<1>8. c.to \in Store!Terminal =>
        [f \in Fabrics |-> StoredLock(f)]' = Store!DropLocks(c.run)
  BY <1>7 DEF Store!DropLocks
<1>9. c.to \notin Store!Terminal =>
        [f \in Fabrics |-> StoredLock(f)]' = [f \in Fabrics |-> StoredLock(f)]
  BY <1>7
<1> QED
  BY <1>1, <1>5, <1>6, <1>8, <1>9

\* A COMMIT whose run did not change since it was read is one operation.
LEMMA CommitImplements ==
  ASSUME SessInv, NEW s \in Sessions, Commit(s), ~sess[s].stale
  PROVE  StoreStep
<1> DEFINE c == Call(s)
<1>0. c.op \in {"move", "complete", "create"} /\ sess[s].pc = "chained"
  BY DEF SessInv, Shaped, Commit, Active
<1>1. CASE c.op = "create"
  <2>1. c.run \in Runs /\ c.fabric \in Fabrics /\ c.mode \in Modes /\ c.key \in Keys
    BY <1>0, <1>1 DEF SessInv, Shaped, Active
  <2>2. Store!CreateRun(c.run, c.fabric, c.mode, c.key, 0, 1)
    BY <1>1, CreateCommits
  <2> QED
    BY <2>1, <2>2 DEF StoreStep
<1>2. CASE c.op = "move"
  <2>1. MoveAllowed(c)
    BY <1>0, <1>2 DEF SessInv, ReadsHold
  <2>2. c.to \in Store!RunMoves[StoredRun(c.run).status]
    BY <1>2, <2>1 DEF MoveAllowed, StoredRun
  <2>3. ledger' = ledger
    BY <1>2 DEF Commit
  <2>4. Store!TransitionRun(c.run, c.to)
    BY <1>2, <2>2, <2>3, MoveCommits DEF Store!TransitionRun
  <2> QED
    BY <1>2, <2>4, MoveCommits DEF StoreStep
<1>3. CASE c.op = "complete"
  <2>1. MoveAllowed(c) /\ c.to = "apply_succeeded"
    BY <1>0, <1>3 DEF SessInv, Shaped, ReadsHold
  <2>2. rows[c.run].status = "apply_running" /\ rows[c.run] # NoRow
        /\ ~Committed(c.run)
    BY <1>3, <2>1 DEF MoveAllowed
  <2>3. StoredRun(c.run).status = "apply_running"
        /\ StoredRun(c.run).artifact = "artifact"
        /\ StoredRun(c.run).fabric = rows[c.run].fabric
    BY <2>2 DEF StoredRun
  <2>4. c.run \notin Store!References
    BY <2>2 DEF Store!References, Committed
  <2>5. ledger' = Append(ledger, [fabric |-> rows[c.run].fabric,
                                  source_type |-> "successful_apply",
                                  source_reference |-> c.run])
    BY <1>3 DEF Commit, Manifest
  <2>6. Store!CompleteApply(c.run, "artifact")
    BY <1>3, <2>1, <2>3, <2>4, <2>5, StatusFacts, MoveCommits DEF Store!CompleteApply
  <2> QED
    BY <1>3, <2>6, MoveCommits DEF StoreStep
<1> QED
  BY <1>0, <1>1, <1>2, <1>3

\* The transactions of both stores implement the atomic operations of
\* RunStore; on PostgreSQL a transition whose run changed between its SELECT
\* and its UPDATE is the exception (store.py, transition_run, complete_apply).
THEOREM SessionsImplementStore == SessSpec => ImplementsStore
<1> DEFINE StaleStep == \E s \in Sessions :
                          backend = "postgresql" /\ sess[s].stale /\ Commit(s)
<1>1. SessInv /\ [SessNext]_sessVars => [StoreStep \/ StaleStep]_sessVars
  <2> SUFFICES ASSUME SessInv, SessNext
               PROVE  StoreStep \/ StaleStep
    OBVIOUS
  <2>1. PICK s \in Sessions : TablesSame \/ Commit(s)
    BY DEF SessNext, Statement, Begin, Abort, Select, Update, InsertRun,
       LockFabric, TakeLock, AppendAudit
  <2>2. CASE TablesSame
    BY <2>2, TablesSameStep DEF StoreStep
  <2>3. CASE Commit(s)
    <3>1. sess[s].stale => backend = "postgresql"
      BY SessionsAssumption DEF SessInv, SessTypeOK, OneWriter
    <3> QED
      BY <2>3, <3>1, CommitImplements
  <2> QED
    BY <2>1, <2>2, <2>3
<1> QED
  BY <1>1, SessionInvariant, PTL DEF SessSpec, ImplementsStore
=============================================================================
