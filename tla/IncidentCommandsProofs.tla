---------------------- MODULE IncidentCommandsProofs ----------------------
(***************************************************************************)
(* Machine-checked proofs about IncidentCommands, for any commands,        *)
(* bindings, threads and processes, and any number of crashes.             *)
(***************************************************************************)
EXTENDS IncidentCommands, TLAPS

\* A thread past its admission works for an admitted command; only one thread
\* ever created the admission.
Admitted ==
  /\ \A p \in Procs : pc[p] # "idle" => cmd[p] \in Commands /\ bind[p] \in Bindings
  /\ \A p \in Procs : fresh[p] =>
       pc[p] \notin {"idle", "admit"} /\ admission[cmd[p]] # None
  /\ \A p, q \in Procs : fresh[p] /\ fresh[q] /\ cmd[p] = cmd[q] => p = q
  /\ \A c \in Commands : terminal[c] # "NONE" \/ c \in begun => admission[c] # None

\* The program points between a successful first claim and the receipt.
Open == {"work", "reject", "unsure"} \cup Effects

\* Only the thread that created the admission evaluates, writes or seals.
ServedByFresh ==
  \A p \in Procs : pc[p] \in Open \cup {"close", "seal"} => fresh[p]

\* Until that thread has passed the claim nothing of its command exists.
Untouched ==
  \A p \in Procs : fresh[p] /\ pc[p] \in {"read", "claim", "seal"} =>
    terminal[cmd[p]] = "NONE" /\ cmd[p] \notin begun

\* While it serves, its row is executing and there is no receipt.
ServedRow ==
  /\ \A p \in Procs : pc[p] \in Open =>
       row[cmd[p]] = "EXECUTING" /\ terminal[cmd[p]] = "NONE"
  /\ \A p \in Procs : pc[p] \in {"work", "reject", "effect"} => cmd[p] \notin begun
  /\ \A p \in Procs : pc[p] \in {"effect_last", "complete"} => cmd[p] \in begun
  /\ \A p \in Procs : pc[p] = "complete" => cmd[p] \in done
  /\ \A p \in Procs : pc[p] = "close" =>
       terminal[cmd[p]] # "NONE" /\ row[cmd[p]] \in {"EXECUTING", terminal[cmd[p]]}

\* What a retry knows: the receipt it saw, or that nobody serves the command.
RetryKnows ==
  /\ \A p \in Procs : saw[p] # "NONE" => pc[p] # "idle" /\ saw[p] = terminal[cmd[p]]
  /\ \A p \in Procs : pc[p] = "sync" => saw[p] # "NONE" /\ row[cmd[p]] # "NONE"
  /\ \A p \in Procs : pc[p] = "mark" =>
       /\ row[cmd[p]] # "NONE" /\ cmd[p] \notin begun
       /\ terminal[cmd[p]] # "COMPLETED"
       /\ \A q \in Procs : pc[q] \in Open \cup {"close"} => cmd[q] # cmd[p]

\* Two commands of one scope never hold it together.
ScopeHeldOnce ==
  \A c, d \in Commands :
    c # d /\ d \in Scope(c) => ~(row[c] \in Occupying /\ row[d] \in Occupying)

\* What is on disk agrees with the row.
FilesAgree ==
  /\ done \subseteq begun
  /\ \A c \in begun : row[c] \in Occupying
  /\ \A c \in Commands : terminal[c] = "COMPLETED" =>
       c \in done /\ row[c] \in {"EXECUTING", "COMPLETED"}
  /\ \A c \in Commands : row[c] \in Outcomes => terminal[c] = row[c]
  /\ \A c \in Commands : terminal[c] = "REJECTED" => c \notin begun

\* A resumption is served, or done, only after a decision.
DecidedFirst ==
  /\ \A p \in Procs : pc[p] \in Effects /\ cmd[p] \in Resumes => Decided
  /\ done \cap Resumes # {} => Decided

Inv == /\ Admitted /\ ServedByFresh /\ Untouched /\ ServedRow /\ RetryKnows
       /\ ScopeHeldOnce /\ FilesAgree /\ DecidedFirst

IInv == TypeOK /\ Inv

-----------------------------------------------------------------------------
\* Being in each other's effect scope is symmetric.
LEMMA ScopeSymmetric ==
  \A c, d \in Commands : c # d /\ d \in Scope(c) => c \in Scope(d)
BY CommandsAssumption DEF Scope, Commands

\* Every step preserves the types.
LEMMA TypeOKStep == IInv /\ [Next]_vars => TypeOK'
<1> SUFFICES ASSUME IInv, [Next]_vars PROVE TypeOK'
  OBVIOUS
<1>0. TypeOK /\ Admitted
  BY DEF IInv, Inv
<1> USE DEF files, mine
<1>1. ASSUME NEW p \in Procs, Admit(p) PROVE TypeOK'
  BY <1>0, <1>1, CommandsAssumption
     DEF Admit, Answer, Goto, PCs, Effects, Outcomes, RowStates, TypeOK,
     Admitted
<1>2. ASSUME NEW p \in Procs, ReadTerminal(p) PROVE TypeOK'
  BY <1>0, <1>2, CommandsAssumption
     DEF ReadTerminal, Goto, PCs, Effects, Outcomes, RowStates, TypeOK,
     Admitted
<1>3. ASSUME NEW p \in Procs, Claim(p) PROVE TypeOK'
  <2>1. CASE row[cmd[p]] # "NONE"
    BY <1>0, <1>3, <2>1
       DEF Claim, AfterClaim, Answer, Goto, PCs, Effects, Outcomes,
       RowStates, TypeOK, Admitted
  <2>2. CASE row[cmd[p]] = "NONE" /\ ~ScopeOccupied(cmd[p])
    BY <1>0, <1>3, <2>2
       DEF Claim, AfterClaim, Answer, Goto, PCs, Effects, Outcomes,
       RowStates, TypeOK, Admitted
  <2>3. CASE row[cmd[p]] = "NONE" /\ ScopeOccupied(cmd[p])
    <3>1. CASE fresh[p] /\ saw[p] = "NONE"
      BY <1>0, <1>3, <2>3, <3>1
         DEF Claim, AfterClaim, Answer, Goto, PCs, Effects, Outcomes,
         RowStates, TypeOK, Admitted
    <3>2. CASE ~(fresh[p] /\ saw[p] = "NONE")
      <4>1. Answer(p) /\ UNCHANGED <<row, files>>
        BY <1>3, <2>3, <3>2 DEF Claim
      <4> QED
        BY <1>0, <4>1 DEF Answer, Goto, PCs, TypeOK
    <3> QED BY <3>1, <3>2
  <2> QED BY <2>1, <2>2, <2>3
<1>4. ASSUME NEW p \in Procs, SealRejected(p) PROVE TypeOK'
  BY <1>0, <1>4, CommandsAssumption
     DEF SealRejected, Answer, Goto, PCs, Effects, Outcomes, RowStates,
     TypeOK, Admitted
<1>5. ASSUME NEW p \in Procs, SyncRow(p) PROVE TypeOK'
  BY <1>0, <1>5, CommandsAssumption
     DEF SyncRow, FinishRow, Answer, Goto, PCs, Effects, Outcomes, RowStates,
     TypeOK, Admitted
<1>6. ASSUME NEW p \in Procs, MarkOrphan(p) PROVE TypeOK'
  BY <1>0, <1>6, CommandsAssumption
     DEF MarkOrphan, MarkUncertain, FinishRow, Answer, Goto, PCs, Effects,
     Outcomes, RowStates, TypeOK, Admitted
<1>7. ASSUME NEW p \in Procs, Refuse(p) PROVE TypeOK'
  BY <1>0, <1>7, CommandsAssumption
     DEF Refuse, Goto, PCs, Effects, Outcomes, RowStates, TypeOK, Admitted
<1>8. ASSUME NEW p \in Procs, Proceed(p) PROVE TypeOK'
  BY <1>0, <1>8, CommandsAssumption
     DEF Proceed, Goto, Admissible, PCs, Effects, Outcomes, RowStates,
     TypeOK, Admitted
<1>9. ASSUME NEW p \in Procs, WriteRejected(p) PROVE TypeOK'
  BY <1>0, <1>9, CommandsAssumption
     DEF WriteRejected, Goto, PCs, Effects, Outcomes, RowStates, TypeOK,
     Admitted
<1>10. ASSUME NEW p \in Procs, FirstEffect(p) PROVE TypeOK'
  BY <1>0, <1>10, CommandsAssumption
     DEF FirstEffect, Goto, PCs, Effects, Outcomes, RowStates, TypeOK,
     Admitted
<1>11. ASSUME NEW p \in Procs, LastEffect(p) PROVE TypeOK'
  BY <1>0, <1>11, CommandsAssumption
     DEF LastEffect, Goto, PCs, Effects, Outcomes, RowStates, TypeOK,
     Admitted
<1>12. ASSUME NEW p \in Procs, WriteCompleted(p) PROVE TypeOK'
  BY <1>0, <1>12, CommandsAssumption
     DEF WriteCompleted, Goto, PCs, Effects, Outcomes, RowStates, TypeOK,
     Admitted
<1>13. ASSUME NEW p \in Procs, CloseRow(p) PROVE TypeOK'
  BY <1>0, <1>13, CommandsAssumption
     DEF CloseRow, FinishRow, Answer, Goto, PCs, Effects, Outcomes,
     RowStates, TypeOK, Admitted
<1>14. ASSUME NEW p \in Procs, EffectFails(p) PROVE TypeOK'
  BY <1>0, <1>14, CommandsAssumption
     DEF EffectFails, Goto, PCs, Effects, Outcomes, RowStates, TypeOK,
     Admitted
<1>15. ASSUME NEW p \in Procs, MarkUnsure(p) PROVE TypeOK'
  BY <1>0, <1>15, CommandsAssumption
     DEF MarkUnsure, MarkUncertain, FinishRow, Answer, Goto, PCs, Effects,
     Outcomes, RowStates, TypeOK, Admitted
<1>16. ASSUME NEW p \in Procs, StoreFails(p) PROVE TypeOK'
  BY <1>0, <1>16, CommandsAssumption
     DEF StoreFails, Answer, Goto, PCs, Effects, Outcomes, RowStates, TypeOK,
     Admitted
<1>17. ASSUME NEW p \in Procs, NEW c \in Commands, NEW b \in Bindings, Request(p, c, b) PROVE TypeOK'
  BY <1>0, <1>17, CommandsAssumption
     DEF Request, Goto, PCs, Effects, Outcomes, RowStates, TypeOK, Admitted
<1>18. ASSUME NEW h \in Hosts, Crash(h) PROVE TypeOK'
  BY <1>0, <1>18, CommandsAssumption
     DEF Crash, PCs, Effects, Outcomes, RowStates, TypeOK, Admitted
<1>19. CASE UNCHANGED vars
  BY <1>0, <1>19
     DEF vars, PCs, Effects, Outcomes, RowStates, TypeOK, Admitted
<1> QED
  BY <1>1, <1>2, <1>3, <1>4, <1>5, <1>6, <1>7, <1>8, <1>9, <1>10, <1>11,
  <1>12, <1>13, <1>14, <1>15, <1>16, <1>17, <1>18, <1>19
     DEF Next, Step

\* admission.json is created once, by one thread.
LEMMA AdmittedStep == IInv /\ [Next]_vars => Admitted'
<1> SUFFICES ASSUME IInv, [Next]_vars PROVE Admitted'
  OBVIOUS
<1>0. TypeOK /\ Admitted /\ ServedByFresh
  BY DEF IInv, Inv
<1> USE DEF files, mine
<1>1. ASSUME NEW p \in Procs, Admit(p) PROVE Admitted'
  BY <1>0, <1>1, CommandsAssumption
     DEF Admit, Answer, Goto, Open, Effects, TypeOK, Admitted, ServedByFresh
<1>2. ASSUME NEW p \in Procs, ReadTerminal(p) PROVE Admitted'
  BY <1>0, <1>2, CommandsAssumption
     DEF ReadTerminal, Goto, Open, Effects, TypeOK, Admitted, ServedByFresh
<1>3. ASSUME NEW p \in Procs, Claim(p) PROVE Admitted'
  BY <1>0, <1>3, CommandsAssumption
     DEF Claim, AfterClaim, Answer, Goto, ScopeOccupied, Open, Effects,
     TypeOK, Admitted, ServedByFresh
<1>4. ASSUME NEW p \in Procs, SealRejected(p) PROVE Admitted'
  BY <1>0, <1>4, CommandsAssumption
     DEF SealRejected, Answer, Goto, Open, Effects, TypeOK, Admitted,
     ServedByFresh
<1>5. ASSUME NEW p \in Procs, SyncRow(p) PROVE Admitted'
  BY <1>0, <1>5, CommandsAssumption
     DEF SyncRow, FinishRow, Answer, Goto, Open, Effects, TypeOK, Admitted,
     ServedByFresh
<1>6. ASSUME NEW p \in Procs, MarkOrphan(p) PROVE Admitted'
  BY <1>0, <1>6, CommandsAssumption
     DEF MarkOrphan, MarkUncertain, FinishRow, Answer, Goto, Open, Effects,
     TypeOK, Admitted, ServedByFresh
<1>7. ASSUME NEW p \in Procs, Refuse(p) PROVE Admitted'
  BY <1>0, <1>7, CommandsAssumption
     DEF Refuse, Goto, Open, Effects, TypeOK, Admitted, ServedByFresh
<1>8. ASSUME NEW p \in Procs, Proceed(p) PROVE Admitted'
  BY <1>0, <1>8, CommandsAssumption
     DEF Proceed, Goto, Admissible, Open, Effects, TypeOK, Admitted,
     ServedByFresh
<1>9. ASSUME NEW p \in Procs, WriteRejected(p) PROVE Admitted'
  BY <1>0, <1>9, CommandsAssumption
     DEF WriteRejected, Goto, Open, Effects, TypeOK, Admitted, ServedByFresh
<1>10. ASSUME NEW p \in Procs, FirstEffect(p) PROVE Admitted'
  BY <1>0, <1>10, CommandsAssumption
     DEF FirstEffect, Goto, Open, Effects, TypeOK, Admitted, ServedByFresh
<1>11. ASSUME NEW p \in Procs, LastEffect(p) PROVE Admitted'
  BY <1>0, <1>11, CommandsAssumption
     DEF LastEffect, Goto, Open, Effects, TypeOK, Admitted, ServedByFresh
<1>12. ASSUME NEW p \in Procs, WriteCompleted(p) PROVE Admitted'
  BY <1>0, <1>12, CommandsAssumption
     DEF WriteCompleted, Goto, Open, Effects, TypeOK, Admitted, ServedByFresh
<1>13. ASSUME NEW p \in Procs, CloseRow(p) PROVE Admitted'
  BY <1>0, <1>13, CommandsAssumption
     DEF CloseRow, FinishRow, Answer, Goto, Open, Effects, TypeOK, Admitted,
     ServedByFresh
<1>14. ASSUME NEW p \in Procs, EffectFails(p) PROVE Admitted'
  BY <1>0, <1>14, CommandsAssumption
     DEF EffectFails, Goto, Open, Effects, TypeOK, Admitted, ServedByFresh
<1>15. ASSUME NEW p \in Procs, MarkUnsure(p) PROVE Admitted'
  BY <1>0, <1>15, CommandsAssumption
     DEF MarkUnsure, MarkUncertain, FinishRow, Answer, Goto, Open, Effects,
     TypeOK, Admitted, ServedByFresh
<1>16. ASSUME NEW p \in Procs, StoreFails(p) PROVE Admitted'
  BY <1>0, <1>16, CommandsAssumption
     DEF StoreFails, Answer, Goto, Open, Effects, TypeOK, Admitted,
     ServedByFresh
<1>17. ASSUME NEW p \in Procs, NEW c \in Commands, NEW b \in Bindings, Request(p, c, b) PROVE Admitted'
  BY <1>0, <1>17, CommandsAssumption
     DEF Request, Goto, Open, Effects, TypeOK, Admitted, ServedByFresh
<1>18. ASSUME NEW h \in Hosts, Crash(h) PROVE Admitted'
  BY <1>0, <1>18, CommandsAssumption
     DEF Crash, Open, Effects, TypeOK, Admitted, ServedByFresh
<1>19. CASE UNCHANGED vars
  BY <1>0, <1>19
     DEF vars, Open, Effects, TypeOK, Admitted, ServedByFresh
<1> QED
  BY <1>1, <1>2, <1>3, <1>4, <1>5, <1>6, <1>7, <1>8, <1>9, <1>10, <1>11,
  <1>12, <1>13, <1>14, <1>15, <1>16, <1>17, <1>18, <1>19
     DEF Next, Step

\* A retry never evaluates, writes or seals.
LEMMA ServedByFreshStep == IInv /\ [Next]_vars => ServedByFresh'
<1> SUFFICES ASSUME IInv, [Next]_vars PROVE ServedByFresh'
  OBVIOUS
<1>0. TypeOK /\ ServedByFresh
  BY DEF IInv, Inv
<1> USE DEF files, mine
<1>1. ASSUME NEW p \in Procs, Admit(p) PROVE ServedByFresh'
  BY <1>0, <1>1
     DEF Admit, Answer, Goto, Open, Effects, TypeOK, ServedByFresh
<1>2. ASSUME NEW p \in Procs, ReadTerminal(p) PROVE ServedByFresh'
  BY <1>0, <1>2
     DEF ReadTerminal, Goto, Open, Effects, TypeOK, ServedByFresh
<1>3. ASSUME NEW p \in Procs, Claim(p) PROVE ServedByFresh'
  BY <1>0, <1>3
     DEF Claim, AfterClaim, Answer, Goto, ScopeOccupied, Open, Effects,
     TypeOK, ServedByFresh
<1>4. ASSUME NEW p \in Procs, SealRejected(p) PROVE ServedByFresh'
  BY <1>0, <1>4
     DEF SealRejected, Answer, Goto, Open, Effects, TypeOK, ServedByFresh
<1>5. ASSUME NEW p \in Procs, SyncRow(p) PROVE ServedByFresh'
  BY <1>0, <1>5
     DEF SyncRow, FinishRow, Answer, Goto, Open, Effects, TypeOK,
     ServedByFresh
<1>6. ASSUME NEW p \in Procs, MarkOrphan(p) PROVE ServedByFresh'
  BY <1>0, <1>6
     DEF MarkOrphan, MarkUncertain, FinishRow, Answer, Goto, Open, Effects,
     TypeOK, ServedByFresh
<1>7. ASSUME NEW p \in Procs, Refuse(p) PROVE ServedByFresh'
  BY <1>0, <1>7
     DEF Refuse, Goto, Open, Effects, TypeOK, ServedByFresh
<1>8. ASSUME NEW p \in Procs, Proceed(p) PROVE ServedByFresh'
  BY <1>0, <1>8
     DEF Proceed, Goto, Admissible, Open, Effects, TypeOK, ServedByFresh
<1>9. ASSUME NEW p \in Procs, WriteRejected(p) PROVE ServedByFresh'
  BY <1>0, <1>9
     DEF WriteRejected, Goto, Open, Effects, TypeOK, ServedByFresh
<1>10. ASSUME NEW p \in Procs, FirstEffect(p) PROVE ServedByFresh'
  BY <1>0, <1>10
     DEF FirstEffect, Goto, Open, Effects, TypeOK, ServedByFresh
<1>11. ASSUME NEW p \in Procs, LastEffect(p) PROVE ServedByFresh'
  BY <1>0, <1>11
     DEF LastEffect, Goto, Open, Effects, TypeOK, ServedByFresh
<1>12. ASSUME NEW p \in Procs, WriteCompleted(p) PROVE ServedByFresh'
  BY <1>0, <1>12
     DEF WriteCompleted, Goto, Open, Effects, TypeOK, ServedByFresh
<1>13. ASSUME NEW p \in Procs, CloseRow(p) PROVE ServedByFresh'
  BY <1>0, <1>13
     DEF CloseRow, FinishRow, Answer, Goto, Open, Effects, TypeOK,
     ServedByFresh
<1>14. ASSUME NEW p \in Procs, EffectFails(p) PROVE ServedByFresh'
  BY <1>0, <1>14
     DEF EffectFails, Goto, Open, Effects, TypeOK, ServedByFresh
<1>15. ASSUME NEW p \in Procs, MarkUnsure(p) PROVE ServedByFresh'
  BY <1>0, <1>15
     DEF MarkUnsure, MarkUncertain, FinishRow, Answer, Goto, Open, Effects,
     TypeOK, ServedByFresh
<1>16. ASSUME NEW p \in Procs, StoreFails(p) PROVE ServedByFresh'
  BY <1>0, <1>16
     DEF StoreFails, Answer, Goto, Open, Effects, TypeOK, ServedByFresh
<1>17. ASSUME NEW p \in Procs, NEW c \in Commands, NEW b \in Bindings, Request(p, c, b) PROVE ServedByFresh'
  BY <1>0, <1>17
     DEF Request, Goto, Open, Effects, TypeOK, ServedByFresh
<1>18. ASSUME NEW h \in Hosts, Crash(h) PROVE ServedByFresh'
  BY <1>0, <1>18
     DEF Crash, Open, Effects, TypeOK, ServedByFresh
<1>19. CASE UNCHANGED vars
  BY <1>0, <1>19
     DEF vars, Open, Effects, TypeOK, ServedByFresh
<1> QED
  BY <1>1, <1>2, <1>3, <1>4, <1>5, <1>6, <1>7, <1>8, <1>9, <1>10, <1>11,
  <1>12, <1>13, <1>14, <1>15, <1>16, <1>17, <1>18, <1>19
     DEF Next, Step

\* Nothing of a command exists before its admitting thread claims it.
LEMMA UntouchedStep == IInv /\ [Next]_vars => Untouched'
<1> SUFFICES ASSUME IInv, [Next]_vars PROVE Untouched'
  OBVIOUS
<1>0. TypeOK /\ Admitted /\ ServedByFresh /\ Untouched
  BY DEF IInv, Inv
<1> USE DEF files, mine
<1>1. ASSUME NEW p \in Procs, Admit(p) PROVE Untouched'
  BY <1>0, <1>1
     DEF Admit, Answer, Goto, Open, Effects, TypeOK, Admitted, ServedByFresh,
     Untouched
<1>2. ASSUME NEW p \in Procs, ReadTerminal(p) PROVE Untouched'
  BY <1>0, <1>2
     DEF ReadTerminal, Goto, Open, Effects, TypeOK, Admitted, ServedByFresh,
     Untouched
<1>3. ASSUME NEW p \in Procs, Claim(p) PROVE Untouched'
  BY <1>0, <1>3
     DEF Claim, AfterClaim, Answer, Goto, ScopeOccupied, Open, Effects,
     TypeOK, Admitted, ServedByFresh, Untouched
<1>4. ASSUME NEW p \in Procs, SealRejected(p) PROVE Untouched'
  BY <1>0, <1>4
     DEF SealRejected, Answer, Goto, Open, Effects, TypeOK, Admitted,
     ServedByFresh, Untouched
<1>5. ASSUME NEW p \in Procs, SyncRow(p) PROVE Untouched'
  BY <1>0, <1>5
     DEF SyncRow, FinishRow, Answer, Goto, Open, Effects, TypeOK, Admitted,
     ServedByFresh, Untouched
<1>6. ASSUME NEW p \in Procs, MarkOrphan(p) PROVE Untouched'
  BY <1>0, <1>6
     DEF MarkOrphan, MarkUncertain, FinishRow, Answer, Goto, Open, Effects,
     TypeOK, Admitted, ServedByFresh, Untouched
<1>7. ASSUME NEW p \in Procs, Refuse(p) PROVE Untouched'
  BY <1>0, <1>7
     DEF Refuse, Goto, Open, Effects, TypeOK, Admitted, ServedByFresh,
     Untouched
<1>8. ASSUME NEW p \in Procs, Proceed(p) PROVE Untouched'
  BY <1>0, <1>8
     DEF Proceed, Goto, Admissible, Open, Effects, TypeOK, Admitted,
     ServedByFresh, Untouched
<1>9. ASSUME NEW p \in Procs, WriteRejected(p) PROVE Untouched'
  BY <1>0, <1>9
     DEF WriteRejected, Goto, Open, Effects, TypeOK, Admitted, ServedByFresh,
     Untouched
<1>10. ASSUME NEW p \in Procs, FirstEffect(p) PROVE Untouched'
  BY <1>0, <1>10
     DEF FirstEffect, Goto, Open, Effects, TypeOK, Admitted, ServedByFresh,
     Untouched
<1>11. ASSUME NEW p \in Procs, LastEffect(p) PROVE Untouched'
  BY <1>0, <1>11
     DEF LastEffect, Goto, Open, Effects, TypeOK, Admitted, ServedByFresh,
     Untouched
<1>12. ASSUME NEW p \in Procs, WriteCompleted(p) PROVE Untouched'
  BY <1>0, <1>12
     DEF WriteCompleted, Goto, Open, Effects, TypeOK, Admitted,
     ServedByFresh, Untouched
<1>13. ASSUME NEW p \in Procs, CloseRow(p) PROVE Untouched'
  BY <1>0, <1>13
     DEF CloseRow, FinishRow, Answer, Goto, Open, Effects, TypeOK, Admitted,
     ServedByFresh, Untouched
<1>14. ASSUME NEW p \in Procs, EffectFails(p) PROVE Untouched'
  BY <1>0, <1>14
     DEF EffectFails, Goto, Open, Effects, TypeOK, Admitted, ServedByFresh,
     Untouched
<1>15. ASSUME NEW p \in Procs, MarkUnsure(p) PROVE Untouched'
  BY <1>0, <1>15
     DEF MarkUnsure, MarkUncertain, FinishRow, Answer, Goto, Open, Effects,
     TypeOK, Admitted, ServedByFresh, Untouched
<1>16. ASSUME NEW p \in Procs, StoreFails(p) PROVE Untouched'
  BY <1>0, <1>16
     DEF StoreFails, Answer, Goto, Open, Effects, TypeOK, Admitted,
     ServedByFresh, Untouched
<1>17. ASSUME NEW p \in Procs, NEW c \in Commands, NEW b \in Bindings, Request(p, c, b) PROVE Untouched'
  BY <1>0, <1>17
     DEF Request, Goto, Open, Effects, TypeOK, Admitted, ServedByFresh,
     Untouched
<1>18. ASSUME NEW h \in Hosts, Crash(h) PROVE Untouched'
  BY <1>0, <1>18
     DEF Crash, Open, Effects, TypeOK, Admitted, ServedByFresh, Untouched
<1>19. CASE UNCHANGED vars
  BY <1>0, <1>19
     DEF vars, Open, Effects, TypeOK, Admitted, ServedByFresh, Untouched
<1> QED
  BY <1>1, <1>2, <1>3, <1>4, <1>5, <1>6, <1>7, <1>8, <1>9, <1>10, <1>11,
  <1>12, <1>13, <1>14, <1>15, <1>16, <1>17, <1>18, <1>19
     DEF Next, Step

\* Nobody closes a row under the thread that serves it.
LEMMA ServedRowStep == IInv /\ [Next]_vars => ServedRow'
<1> SUFFICES ASSUME IInv, [Next]_vars PROVE ServedRow'
  OBVIOUS
<1>0. TypeOK /\ Admitted /\ ServedByFresh /\ Untouched /\ ServedRow /\ RetryKnows /\ FilesAgree
  BY DEF IInv, Inv
<1> USE DEF files, mine
<1>1. ASSUME NEW p \in Procs, Admit(p) PROVE ServedRow'
  BY <1>0, <1>1
     DEF Admit, Answer, Goto, Open, Effects, Outcomes, TypeOK, Admitted,
     ServedByFresh, Untouched, ServedRow, RetryKnows, FilesAgree
<1>2. ASSUME NEW p \in Procs, ReadTerminal(p) PROVE ServedRow'
  BY <1>0, <1>2
     DEF ReadTerminal, Goto, Open, Effects, Outcomes, TypeOK, Admitted,
     ServedByFresh, Untouched, ServedRow, RetryKnows, FilesAgree
<1>3. ASSUME NEW p \in Procs, Claim(p) PROVE ServedRow'
  BY <1>0, <1>3
     DEF Claim, AfterClaim, Answer, Goto, ScopeOccupied, Open, Effects,
     Outcomes, TypeOK, Admitted, ServedByFresh, Untouched, ServedRow,
     RetryKnows, FilesAgree
<1>4. ASSUME NEW p \in Procs, SealRejected(p) PROVE ServedRow'
  BY <1>0, <1>4
     DEF SealRejected, Answer, Goto, Open, Effects, Outcomes, TypeOK,
     Admitted, ServedByFresh, Untouched, ServedRow, RetryKnows, FilesAgree
<1>5. ASSUME NEW p \in Procs, SyncRow(p) PROVE ServedRow'
  BY <1>0, <1>5
     DEF SyncRow, FinishRow, Answer, Goto, Open, Effects, Outcomes, TypeOK,
     Admitted, ServedByFresh, Untouched, ServedRow, RetryKnows, FilesAgree
<1>6. ASSUME NEW p \in Procs, MarkOrphan(p) PROVE ServedRow'
  BY <1>0, <1>6
     DEF MarkOrphan, MarkUncertain, FinishRow, Answer, Goto, Open, Effects,
     Outcomes, TypeOK, Admitted, ServedByFresh, Untouched, ServedRow,
     RetryKnows, FilesAgree
<1>7. ASSUME NEW p \in Procs, Refuse(p) PROVE ServedRow'
  BY <1>0, <1>7
     DEF Refuse, Goto, Open, Effects, Outcomes, TypeOK, Admitted,
     ServedByFresh, Untouched, ServedRow, RetryKnows, FilesAgree
<1>8. ASSUME NEW p \in Procs, Proceed(p) PROVE ServedRow'
  BY <1>0, <1>8
     DEF Proceed, Goto, Admissible, Open, Effects, Outcomes, TypeOK,
     Admitted, ServedByFresh, Untouched, ServedRow, RetryKnows, FilesAgree
<1>9. ASSUME NEW p \in Procs, WriteRejected(p) PROVE ServedRow'
  BY <1>0, <1>9
     DEF WriteRejected, Goto, Open, Effects, Outcomes, TypeOK, Admitted,
     ServedByFresh, Untouched, ServedRow, RetryKnows, FilesAgree
<1>10. ASSUME NEW p \in Procs, FirstEffect(p) PROVE ServedRow'
  BY <1>0, <1>10
     DEF FirstEffect, Goto, Open, Effects, Outcomes, TypeOK, Admitted,
     ServedByFresh, Untouched, ServedRow, RetryKnows, FilesAgree
<1>11. ASSUME NEW p \in Procs, LastEffect(p) PROVE ServedRow'
  BY <1>0, <1>11
     DEF LastEffect, Goto, Open, Effects, Outcomes, TypeOK, Admitted,
     ServedByFresh, Untouched, ServedRow, RetryKnows, FilesAgree
<1>12. ASSUME NEW p \in Procs, WriteCompleted(p) PROVE ServedRow'
  BY <1>0, <1>12
     DEF WriteCompleted, Goto, Open, Effects, Outcomes, TypeOK, Admitted,
     ServedByFresh, Untouched, ServedRow, RetryKnows, FilesAgree
<1>13. ASSUME NEW p \in Procs, CloseRow(p) PROVE ServedRow'
  BY <1>0, <1>13
     DEF CloseRow, FinishRow, Answer, Goto, Open, Effects, Outcomes, TypeOK,
     Admitted, ServedByFresh, Untouched, ServedRow, RetryKnows, FilesAgree
<1>14. ASSUME NEW p \in Procs, EffectFails(p) PROVE ServedRow'
  BY <1>0, <1>14
     DEF EffectFails, Goto, Open, Effects, Outcomes, TypeOK, Admitted,
     ServedByFresh, Untouched, ServedRow, RetryKnows, FilesAgree
<1>15. ASSUME NEW p \in Procs, MarkUnsure(p) PROVE ServedRow'
  BY <1>0, <1>15
     DEF MarkUnsure, MarkUncertain, FinishRow, Answer, Goto, Open, Effects,
     Outcomes, TypeOK, Admitted, ServedByFresh, Untouched, ServedRow,
     RetryKnows, FilesAgree
<1>16. ASSUME NEW p \in Procs, StoreFails(p) PROVE ServedRow'
  BY <1>0, <1>16
     DEF StoreFails, Answer, Goto, Open, Effects, Outcomes, TypeOK, Admitted,
     ServedByFresh, Untouched, ServedRow, RetryKnows, FilesAgree
<1>17. ASSUME NEW p \in Procs, NEW c \in Commands, NEW b \in Bindings, Request(p, c, b) PROVE ServedRow'
  BY <1>0, <1>17
     DEF Request, Goto, Open, Effects, Outcomes, TypeOK, Admitted,
     ServedByFresh, Untouched, ServedRow, RetryKnows, FilesAgree
<1>18. ASSUME NEW h \in Hosts, Crash(h) PROVE ServedRow'
  BY <1>0, <1>18
     DEF Crash, Open, Effects, Outcomes, TypeOK, Admitted, ServedByFresh,
     Untouched, ServedRow, RetryKnows, FilesAgree
<1>19. CASE UNCHANGED vars
  BY <1>0, <1>19
     DEF vars, Open, Effects, Outcomes, TypeOK, Admitted, ServedByFresh,
     Untouched, ServedRow, RetryKnows, FilesAgree
<1> QED
  BY <1>1, <1>2, <1>3, <1>4, <1>5, <1>6, <1>7, <1>8, <1>9, <1>10, <1>11,
  <1>12, <1>13, <1>14, <1>15, <1>16, <1>17, <1>18, <1>19
     DEF Next, Step

\* A retry only repeats what it saw, or marks what nobody serves.
LEMMA RetryKnowsStep == IInv /\ [Next]_vars => RetryKnows'
<1> SUFFICES ASSUME IInv, [Next]_vars PROVE RetryKnows'
  OBVIOUS
<1>0. TypeOK /\ Admitted /\ ServedByFresh /\ Untouched /\ ServedRow /\ RetryKnows /\ FilesAgree
  BY DEF IInv, Inv
<1> USE DEF files, mine
<1>1. ASSUME NEW p \in Procs, Admit(p) PROVE RetryKnows'
  BY <1>0, <1>1
     DEF Admit, Answer, Goto, Open, Effects, Outcomes, Occupying, TypeOK,
     Admitted, ServedByFresh, Untouched, ServedRow, RetryKnows, FilesAgree
<1>2. ASSUME NEW p \in Procs, ReadTerminal(p) PROVE RetryKnows'
  BY <1>0, <1>2
     DEF ReadTerminal, Goto, Open, Effects, Outcomes, Occupying, TypeOK,
     Admitted, ServedByFresh, Untouched, ServedRow, RetryKnows, FilesAgree
<1>3. ASSUME NEW p \in Procs, Claim(p) PROVE RetryKnows'
  <2>1. CASE row[cmd[p]] # "NONE"
    BY <1>0, <1>3, <2>1
       DEF Claim, AfterClaim, Answer, Goto, Open, Effects, Outcomes,
       Occupying, TypeOK, Admitted, ServedByFresh, Untouched, ServedRow,
       RetryKnows, FilesAgree
  <2>2. CASE row[cmd[p]] = "NONE" /\ ~ScopeOccupied(cmd[p])
    BY <1>0, <1>3, <2>2
       DEF Claim, AfterClaim, Answer, Goto, Open, Effects, Outcomes,
       Occupying, TypeOK, Admitted, ServedByFresh, Untouched, ServedRow,
       RetryKnows, FilesAgree
  <2>3. CASE row[cmd[p]] = "NONE" /\ ScopeOccupied(cmd[p])
    BY <1>0, <1>3, <2>3
       DEF Claim, AfterClaim, Answer, Goto, Open, Effects, Outcomes,
       Occupying, TypeOK, Admitted, ServedByFresh, Untouched, ServedRow,
       RetryKnows, FilesAgree
  <2> QED BY <2>1, <2>2, <2>3
<1>4. ASSUME NEW p \in Procs, SealRejected(p) PROVE RetryKnows'
  BY <1>0, <1>4
     DEF SealRejected, Answer, Goto, Open, Effects, Outcomes, Occupying,
     TypeOK, Admitted, ServedByFresh, Untouched, ServedRow, RetryKnows,
     FilesAgree
<1>5. ASSUME NEW p \in Procs, SyncRow(p) PROVE RetryKnows'
  BY <1>0, <1>5
     DEF SyncRow, FinishRow, Answer, Goto, Open, Effects, Outcomes,
     Occupying, TypeOK, Admitted, ServedByFresh, Untouched, ServedRow,
     RetryKnows, FilesAgree
<1>6. ASSUME NEW p \in Procs, MarkOrphan(p) PROVE RetryKnows'
  BY <1>0, <1>6
     DEF MarkOrphan, MarkUncertain, FinishRow, Answer, Goto, Open, Effects,
     Outcomes, Occupying, TypeOK, Admitted, ServedByFresh, Untouched,
     ServedRow, RetryKnows, FilesAgree
<1>7. ASSUME NEW p \in Procs, Refuse(p) PROVE RetryKnows'
  BY <1>0, <1>7
     DEF Refuse, Goto, Open, Effects, Outcomes, Occupying, TypeOK, Admitted,
     ServedByFresh, Untouched, ServedRow, RetryKnows, FilesAgree
<1>8. ASSUME NEW p \in Procs, Proceed(p) PROVE RetryKnows'
  BY <1>0, <1>8
     DEF Proceed, Goto, Admissible, Open, Effects, Outcomes, Occupying,
     TypeOK, Admitted, ServedByFresh, Untouched, ServedRow, RetryKnows,
     FilesAgree
<1>9. ASSUME NEW p \in Procs, WriteRejected(p) PROVE RetryKnows'
  BY <1>0, <1>9
     DEF WriteRejected, Goto, Open, Effects, Outcomes, Occupying, TypeOK,
     Admitted, ServedByFresh, Untouched, ServedRow, RetryKnows, FilesAgree
<1>10. ASSUME NEW p \in Procs, FirstEffect(p) PROVE RetryKnows'
  BY <1>0, <1>10
     DEF FirstEffect, Goto, Open, Effects, Outcomes, Occupying, TypeOK,
     Admitted, ServedByFresh, Untouched, ServedRow, RetryKnows, FilesAgree
<1>11. ASSUME NEW p \in Procs, LastEffect(p) PROVE RetryKnows'
  BY <1>0, <1>11
     DEF LastEffect, Goto, Open, Effects, Outcomes, Occupying, TypeOK,
     Admitted, ServedByFresh, Untouched, ServedRow, RetryKnows, FilesAgree
<1>12. ASSUME NEW p \in Procs, WriteCompleted(p) PROVE RetryKnows'
  BY <1>0, <1>12
     DEF WriteCompleted, Goto, Open, Effects, Outcomes, Occupying, TypeOK,
     Admitted, ServedByFresh, Untouched, ServedRow, RetryKnows, FilesAgree
<1>13. ASSUME NEW p \in Procs, CloseRow(p) PROVE RetryKnows'
  BY <1>0, <1>13
     DEF CloseRow, FinishRow, Answer, Goto, Open, Effects, Outcomes,
     Occupying, TypeOK, Admitted, ServedByFresh, Untouched, ServedRow,
     RetryKnows, FilesAgree
<1>14. ASSUME NEW p \in Procs, EffectFails(p) PROVE RetryKnows'
  BY <1>0, <1>14
     DEF EffectFails, Goto, Open, Effects, Outcomes, Occupying, TypeOK,
     Admitted, ServedByFresh, Untouched, ServedRow, RetryKnows, FilesAgree
<1>15. ASSUME NEW p \in Procs, MarkUnsure(p) PROVE RetryKnows'
  BY <1>0, <1>15
     DEF MarkUnsure, MarkUncertain, FinishRow, Answer, Goto, Open, Effects,
     Outcomes, Occupying, TypeOK, Admitted, ServedByFresh, Untouched,
     ServedRow, RetryKnows, FilesAgree
<1>16. ASSUME NEW p \in Procs, StoreFails(p) PROVE RetryKnows'
  BY <1>0, <1>16
     DEF StoreFails, Answer, Goto, Open, Effects, Outcomes, Occupying,
     TypeOK, Admitted, ServedByFresh, Untouched, ServedRow, RetryKnows,
     FilesAgree
<1>17. ASSUME NEW p \in Procs, NEW c \in Commands, NEW b \in Bindings, Request(p, c, b) PROVE RetryKnows'
  BY <1>0, <1>17
     DEF Request, Goto, Open, Effects, Outcomes, Occupying, TypeOK, Admitted,
     ServedByFresh, Untouched, ServedRow, RetryKnows, FilesAgree
<1>18. ASSUME NEW h \in Hosts, Crash(h) PROVE RetryKnows'
  BY <1>0, <1>18
     DEF Crash, Open, Effects, Outcomes, Occupying, TypeOK, Admitted,
     ServedByFresh, Untouched, ServedRow, RetryKnows, FilesAgree
<1>19. CASE UNCHANGED vars
  BY <1>0, <1>19
     DEF vars, Open, Effects, Outcomes, Occupying, TypeOK, Admitted,
     ServedByFresh, Untouched, ServedRow, RetryKnows, FilesAgree
<1> QED
  BY <1>1, <1>2, <1>3, <1>4, <1>5, <1>6, <1>7, <1>8, <1>9, <1>10, <1>11,
  <1>12, <1>13, <1>14, <1>15, <1>16, <1>17, <1>18, <1>19
     DEF Next, Step

\* claim_incident_command gives a scope to one command at a time.
LEMMA ScopeHeldOnceStep == IInv /\ [Next]_vars => ScopeHeldOnce'
<1> SUFFICES ASSUME IInv, [Next]_vars PROVE ScopeHeldOnce'
  OBVIOUS
<1>0. TypeOK /\ Admitted /\ ServedRow /\ RetryKnows /\ ScopeHeldOnce /\ FilesAgree
  BY DEF IInv, Inv
<1> USE DEF files, mine
<1>1. ASSUME NEW p \in Procs, Admit(p) PROVE ScopeHeldOnce'
  BY <1>0, <1>1
     DEF Admit, Answer, Goto, Open, Effects, Occupying, TypeOK, Admitted,
     ServedRow, RetryKnows, ScopeHeldOnce, FilesAgree
<1>2. ASSUME NEW p \in Procs, ReadTerminal(p) PROVE ScopeHeldOnce'
  BY <1>0, <1>2
     DEF ReadTerminal, Goto, Open, Effects, Occupying, TypeOK, Admitted,
     ServedRow, RetryKnows, ScopeHeldOnce, FilesAgree
<1>3. ASSUME NEW p \in Procs, Claim(p) PROVE ScopeHeldOnce'
  <2>1. CASE row[cmd[p]] # "NONE"
    BY <1>0, <1>3, <2>1, ScopeSymmetric
       DEF Claim, AfterClaim, Answer, Goto, ScopeOccupied, Open, Effects,
       Occupying, TypeOK, Admitted, ServedRow, RetryKnows, ScopeHeldOnce,
       FilesAgree
  <2>2. CASE row[cmd[p]] = "NONE" /\ ~ScopeOccupied(cmd[p])
    BY <1>0, <1>3, <2>2, ScopeSymmetric
       DEF Claim, AfterClaim, Answer, Goto, ScopeOccupied, Open, Effects,
       Occupying, TypeOK, Admitted, ServedRow, RetryKnows, ScopeHeldOnce,
       FilesAgree
  <2>3. CASE row[cmd[p]] = "NONE" /\ ScopeOccupied(cmd[p])
    BY <1>0, <1>3, <2>3, ScopeSymmetric
       DEF Claim, AfterClaim, Answer, Goto, ScopeOccupied, Open, Effects,
       Occupying, TypeOK, Admitted, ServedRow, RetryKnows, ScopeHeldOnce,
       FilesAgree
  <2> QED BY <2>1, <2>2, <2>3
<1>4. ASSUME NEW p \in Procs, SealRejected(p) PROVE ScopeHeldOnce'
  BY <1>0, <1>4
     DEF SealRejected, Answer, Goto, Open, Effects, Occupying, TypeOK,
     Admitted, ServedRow, RetryKnows, ScopeHeldOnce, FilesAgree
<1>5. ASSUME NEW p \in Procs, SyncRow(p) PROVE ScopeHeldOnce'
  BY <1>0, <1>5
     DEF SyncRow, FinishRow, Answer, Goto, Open, Effects, Occupying, TypeOK,
     Admitted, ServedRow, RetryKnows, ScopeHeldOnce, FilesAgree
<1>6. ASSUME NEW p \in Procs, MarkOrphan(p) PROVE ScopeHeldOnce'
  BY <1>0, <1>6
     DEF MarkOrphan, MarkUncertain, FinishRow, Answer, Goto, Open, Effects,
     Occupying, TypeOK, Admitted, ServedRow, RetryKnows, ScopeHeldOnce,
     FilesAgree
<1>7. ASSUME NEW p \in Procs, Refuse(p) PROVE ScopeHeldOnce'
  BY <1>0, <1>7
     DEF Refuse, Goto, Open, Effects, Occupying, TypeOK, Admitted, ServedRow,
     RetryKnows, ScopeHeldOnce, FilesAgree
<1>8. ASSUME NEW p \in Procs, Proceed(p) PROVE ScopeHeldOnce'
  BY <1>0, <1>8
     DEF Proceed, Goto, Admissible, Open, Effects, Occupying, TypeOK,
     Admitted, ServedRow, RetryKnows, ScopeHeldOnce, FilesAgree
<1>9. ASSUME NEW p \in Procs, WriteRejected(p) PROVE ScopeHeldOnce'
  BY <1>0, <1>9
     DEF WriteRejected, Goto, Open, Effects, Occupying, TypeOK, Admitted,
     ServedRow, RetryKnows, ScopeHeldOnce, FilesAgree
<1>10. ASSUME NEW p \in Procs, FirstEffect(p) PROVE ScopeHeldOnce'
  BY <1>0, <1>10
     DEF FirstEffect, Goto, Open, Effects, Occupying, TypeOK, Admitted,
     ServedRow, RetryKnows, ScopeHeldOnce, FilesAgree
<1>11. ASSUME NEW p \in Procs, LastEffect(p) PROVE ScopeHeldOnce'
  BY <1>0, <1>11
     DEF LastEffect, Goto, Open, Effects, Occupying, TypeOK, Admitted,
     ServedRow, RetryKnows, ScopeHeldOnce, FilesAgree
<1>12. ASSUME NEW p \in Procs, WriteCompleted(p) PROVE ScopeHeldOnce'
  BY <1>0, <1>12
     DEF WriteCompleted, Goto, Open, Effects, Occupying, TypeOK, Admitted,
     ServedRow, RetryKnows, ScopeHeldOnce, FilesAgree
<1>13. ASSUME NEW p \in Procs, CloseRow(p) PROVE ScopeHeldOnce'
  BY <1>0, <1>13
     DEF CloseRow, FinishRow, Answer, Goto, Open, Effects, Occupying, TypeOK,
     Admitted, ServedRow, RetryKnows, ScopeHeldOnce, FilesAgree
<1>14. ASSUME NEW p \in Procs, EffectFails(p) PROVE ScopeHeldOnce'
  BY <1>0, <1>14
     DEF EffectFails, Goto, Open, Effects, Occupying, TypeOK, Admitted,
     ServedRow, RetryKnows, ScopeHeldOnce, FilesAgree
<1>15. ASSUME NEW p \in Procs, MarkUnsure(p) PROVE ScopeHeldOnce'
  BY <1>0, <1>15
     DEF MarkUnsure, MarkUncertain, FinishRow, Answer, Goto, Open, Effects,
     Occupying, TypeOK, Admitted, ServedRow, RetryKnows, ScopeHeldOnce,
     FilesAgree
<1>16. ASSUME NEW p \in Procs, StoreFails(p) PROVE ScopeHeldOnce'
  BY <1>0, <1>16
     DEF StoreFails, Answer, Goto, Open, Effects, Occupying, TypeOK,
     Admitted, ServedRow, RetryKnows, ScopeHeldOnce, FilesAgree
<1>17. ASSUME NEW p \in Procs, NEW c \in Commands, NEW b \in Bindings, Request(p, c, b) PROVE ScopeHeldOnce'
  BY <1>0, <1>17
     DEF Request, Goto, Open, Effects, Occupying, TypeOK, Admitted,
     ServedRow, RetryKnows, ScopeHeldOnce, FilesAgree
<1>18. ASSUME NEW h \in Hosts, Crash(h) PROVE ScopeHeldOnce'
  BY <1>0, <1>18
     DEF Crash, Open, Effects, Occupying, TypeOK, Admitted, ServedRow,
     RetryKnows, ScopeHeldOnce, FilesAgree
<1>19. CASE UNCHANGED vars
  BY <1>0, <1>19
     DEF vars, Open, Effects, Occupying, TypeOK, Admitted, ServedRow,
     RetryKnows, ScopeHeldOnce, FilesAgree
<1> QED
  BY <1>1, <1>2, <1>3, <1>4, <1>5, <1>6, <1>7, <1>8, <1>9, <1>10, <1>11,
  <1>12, <1>13, <1>14, <1>15, <1>16, <1>17, <1>18, <1>19
     DEF Next, Step

\* Files and rows stay in agreement.
LEMMA FilesAgreeStep == IInv /\ [Next]_vars => FilesAgree'
<1> SUFFICES ASSUME IInv, [Next]_vars PROVE FilesAgree'
  OBVIOUS
<1>0. TypeOK /\ Admitted /\ ServedByFresh /\ Untouched /\ ServedRow /\ RetryKnows /\ FilesAgree
  BY DEF IInv, Inv
<1> USE DEF files, mine
<1>1. ASSUME NEW p \in Procs, Admit(p) PROVE FilesAgree'
  BY <1>0, <1>1
     DEF Admit, Answer, Goto, Open, Effects, Outcomes, Occupying, TypeOK,
     Admitted, ServedByFresh, Untouched, ServedRow, RetryKnows, FilesAgree
<1>2. ASSUME NEW p \in Procs, ReadTerminal(p) PROVE FilesAgree'
  BY <1>0, <1>2
     DEF ReadTerminal, Goto, Open, Effects, Outcomes, Occupying, TypeOK,
     Admitted, ServedByFresh, Untouched, ServedRow, RetryKnows, FilesAgree
<1>3. ASSUME NEW p \in Procs, Claim(p) PROVE FilesAgree'
  BY <1>0, <1>3
     DEF Claim, AfterClaim, Answer, Goto, ScopeOccupied, Open, Effects,
     Outcomes, Occupying, TypeOK, Admitted, ServedByFresh, Untouched,
     ServedRow, RetryKnows, FilesAgree
<1>4. ASSUME NEW p \in Procs, SealRejected(p) PROVE FilesAgree'
  BY <1>0, <1>4
     DEF SealRejected, Answer, Goto, Open, Effects, Outcomes, Occupying,
     TypeOK, Admitted, ServedByFresh, Untouched, ServedRow, RetryKnows,
     FilesAgree
<1>5. ASSUME NEW p \in Procs, SyncRow(p) PROVE FilesAgree'
  BY <1>0, <1>5
     DEF SyncRow, FinishRow, Answer, Goto, Open, Effects, Outcomes,
     Occupying, TypeOK, Admitted, ServedByFresh, Untouched, ServedRow,
     RetryKnows, FilesAgree
<1>6. ASSUME NEW p \in Procs, MarkOrphan(p) PROVE FilesAgree'
  BY <1>0, <1>6
     DEF MarkOrphan, MarkUncertain, FinishRow, Answer, Goto, Open, Effects,
     Outcomes, Occupying, TypeOK, Admitted, ServedByFresh, Untouched,
     ServedRow, RetryKnows, FilesAgree
<1>7. ASSUME NEW p \in Procs, Refuse(p) PROVE FilesAgree'
  BY <1>0, <1>7
     DEF Refuse, Goto, Open, Effects, Outcomes, Occupying, TypeOK, Admitted,
     ServedByFresh, Untouched, ServedRow, RetryKnows, FilesAgree
<1>8. ASSUME NEW p \in Procs, Proceed(p) PROVE FilesAgree'
  BY <1>0, <1>8
     DEF Proceed, Goto, Admissible, Open, Effects, Outcomes, Occupying,
     TypeOK, Admitted, ServedByFresh, Untouched, ServedRow, RetryKnows,
     FilesAgree
<1>9. ASSUME NEW p \in Procs, WriteRejected(p) PROVE FilesAgree'
  BY <1>0, <1>9
     DEF WriteRejected, Goto, Open, Effects, Outcomes, Occupying, TypeOK,
     Admitted, ServedByFresh, Untouched, ServedRow, RetryKnows, FilesAgree
<1>10. ASSUME NEW p \in Procs, FirstEffect(p) PROVE FilesAgree'
  BY <1>0, <1>10
     DEF FirstEffect, Goto, Open, Effects, Outcomes, Occupying, TypeOK,
     Admitted, ServedByFresh, Untouched, ServedRow, RetryKnows, FilesAgree
<1>11. ASSUME NEW p \in Procs, LastEffect(p) PROVE FilesAgree'
  BY <1>0, <1>11
     DEF LastEffect, Goto, Open, Effects, Outcomes, Occupying, TypeOK,
     Admitted, ServedByFresh, Untouched, ServedRow, RetryKnows, FilesAgree
<1>12. ASSUME NEW p \in Procs, WriteCompleted(p) PROVE FilesAgree'
  BY <1>0, <1>12
     DEF WriteCompleted, Goto, Open, Effects, Outcomes, Occupying, TypeOK,
     Admitted, ServedByFresh, Untouched, ServedRow, RetryKnows, FilesAgree
<1>13. ASSUME NEW p \in Procs, CloseRow(p) PROVE FilesAgree'
  BY <1>0, <1>13
     DEF CloseRow, FinishRow, Answer, Goto, Open, Effects, Outcomes,
     Occupying, TypeOK, Admitted, ServedByFresh, Untouched, ServedRow,
     RetryKnows, FilesAgree
<1>14. ASSUME NEW p \in Procs, EffectFails(p) PROVE FilesAgree'
  BY <1>0, <1>14
     DEF EffectFails, Goto, Open, Effects, Outcomes, Occupying, TypeOK,
     Admitted, ServedByFresh, Untouched, ServedRow, RetryKnows, FilesAgree
<1>15. ASSUME NEW p \in Procs, MarkUnsure(p) PROVE FilesAgree'
  BY <1>0, <1>15
     DEF MarkUnsure, MarkUncertain, FinishRow, Answer, Goto, Open, Effects,
     Outcomes, Occupying, TypeOK, Admitted, ServedByFresh, Untouched,
     ServedRow, RetryKnows, FilesAgree
<1>16. ASSUME NEW p \in Procs, StoreFails(p) PROVE FilesAgree'
  BY <1>0, <1>16
     DEF StoreFails, Answer, Goto, Open, Effects, Outcomes, Occupying,
     TypeOK, Admitted, ServedByFresh, Untouched, ServedRow, RetryKnows,
     FilesAgree
<1>17. ASSUME NEW p \in Procs, NEW c \in Commands, NEW b \in Bindings, Request(p, c, b) PROVE FilesAgree'
  BY <1>0, <1>17
     DEF Request, Goto, Open, Effects, Outcomes, Occupying, TypeOK, Admitted,
     ServedByFresh, Untouched, ServedRow, RetryKnows, FilesAgree
<1>18. ASSUME NEW h \in Hosts, Crash(h) PROVE FilesAgree'
  BY <1>0, <1>18
     DEF Crash, Open, Effects, Outcomes, Occupying, TypeOK, Admitted,
     ServedByFresh, Untouched, ServedRow, RetryKnows, FilesAgree
<1>19. CASE UNCHANGED vars
  BY <1>0, <1>19
     DEF vars, Open, Effects, Outcomes, Occupying, TypeOK, Admitted,
     ServedByFresh, Untouched, ServedRow, RetryKnows, FilesAgree
<1> QED
  BY <1>1, <1>2, <1>3, <1>4, <1>5, <1>6, <1>7, <1>8, <1>9, <1>10, <1>11,
  <1>12, <1>13, <1>14, <1>15, <1>16, <1>17, <1>18, <1>19
     DEF Next, Step

\* Decisions come before resumptions.
LEMMA DecidedFirstStep == IInv /\ [Next]_vars => DecidedFirst'
<1> SUFFICES ASSUME IInv, [Next]_vars PROVE DecidedFirst'
  OBVIOUS
<1>0. TypeOK /\ Admitted /\ DecidedFirst /\ FilesAgree
  BY DEF IInv, Inv
<1> USE DEF files, mine
<1>1. ASSUME NEW p \in Procs, Admit(p) PROVE DecidedFirst'
  BY <1>0, <1>1
     DEF Admit, Answer, Goto, Open, Effects, Decided, TypeOK, Admitted,
     DecidedFirst, FilesAgree
<1>2. ASSUME NEW p \in Procs, ReadTerminal(p) PROVE DecidedFirst'
  BY <1>0, <1>2
     DEF ReadTerminal, Goto, Open, Effects, Decided, TypeOK, Admitted,
     DecidedFirst, FilesAgree
<1>3. ASSUME NEW p \in Procs, Claim(p) PROVE DecidedFirst'
  BY <1>0, <1>3
     DEF Claim, AfterClaim, Answer, Goto, ScopeOccupied, Open, Effects,
     Decided, TypeOK, Admitted, DecidedFirst, FilesAgree
<1>4. ASSUME NEW p \in Procs, SealRejected(p) PROVE DecidedFirst'
  BY <1>0, <1>4
     DEF SealRejected, Answer, Goto, Open, Effects, Decided, TypeOK,
     Admitted, DecidedFirst, FilesAgree
<1>5. ASSUME NEW p \in Procs, SyncRow(p) PROVE DecidedFirst'
  BY <1>0, <1>5
     DEF SyncRow, FinishRow, Answer, Goto, Open, Effects, Decided, TypeOK,
     Admitted, DecidedFirst, FilesAgree
<1>6. ASSUME NEW p \in Procs, MarkOrphan(p) PROVE DecidedFirst'
  BY <1>0, <1>6
     DEF MarkOrphan, MarkUncertain, FinishRow, Answer, Goto, Open, Effects,
     Decided, TypeOK, Admitted, DecidedFirst, FilesAgree
<1>7. ASSUME NEW p \in Procs, Refuse(p) PROVE DecidedFirst'
  BY <1>0, <1>7
     DEF Refuse, Goto, Open, Effects, Decided, TypeOK, Admitted,
     DecidedFirst, FilesAgree
<1>8. ASSUME NEW p \in Procs, Proceed(p) PROVE DecidedFirst'
  BY <1>0, <1>8
     DEF Proceed, Goto, Admissible, Open, Effects, Decided, TypeOK, Admitted,
     DecidedFirst, FilesAgree
<1>9. ASSUME NEW p \in Procs, WriteRejected(p) PROVE DecidedFirst'
  BY <1>0, <1>9
     DEF WriteRejected, Goto, Open, Effects, Decided, TypeOK, Admitted,
     DecidedFirst, FilesAgree
<1>10. ASSUME NEW p \in Procs, FirstEffect(p) PROVE DecidedFirst'
  BY <1>0, <1>10
     DEF FirstEffect, Goto, Open, Effects, Decided, TypeOK, Admitted,
     DecidedFirst, FilesAgree
<1>11. ASSUME NEW p \in Procs, LastEffect(p) PROVE DecidedFirst'
  BY <1>0, <1>11
     DEF LastEffect, Goto, Open, Effects, Decided, TypeOK, Admitted,
     DecidedFirst, FilesAgree
<1>12. ASSUME NEW p \in Procs, WriteCompleted(p) PROVE DecidedFirst'
  BY <1>0, <1>12
     DEF WriteCompleted, Goto, Open, Effects, Decided, TypeOK, Admitted,
     DecidedFirst, FilesAgree
<1>13. ASSUME NEW p \in Procs, CloseRow(p) PROVE DecidedFirst'
  BY <1>0, <1>13
     DEF CloseRow, FinishRow, Answer, Goto, Open, Effects, Decided, TypeOK,
     Admitted, DecidedFirst, FilesAgree
<1>14. ASSUME NEW p \in Procs, EffectFails(p) PROVE DecidedFirst'
  BY <1>0, <1>14
     DEF EffectFails, Goto, Open, Effects, Decided, TypeOK, Admitted,
     DecidedFirst, FilesAgree
<1>15. ASSUME NEW p \in Procs, MarkUnsure(p) PROVE DecidedFirst'
  BY <1>0, <1>15
     DEF MarkUnsure, MarkUncertain, FinishRow, Answer, Goto, Open, Effects,
     Decided, TypeOK, Admitted, DecidedFirst, FilesAgree
<1>16. ASSUME NEW p \in Procs, StoreFails(p) PROVE DecidedFirst'
  BY <1>0, <1>16
     DEF StoreFails, Answer, Goto, Open, Effects, Decided, TypeOK, Admitted,
     DecidedFirst, FilesAgree
<1>17. ASSUME NEW p \in Procs, NEW c \in Commands, NEW b \in Bindings, Request(p, c, b) PROVE DecidedFirst'
  BY <1>0, <1>17
     DEF Request, Goto, Open, Effects, Decided, TypeOK, Admitted,
     DecidedFirst, FilesAgree
<1>18. ASSUME NEW h \in Hosts, Crash(h) PROVE DecidedFirst'
  BY <1>0, <1>18
     DEF Crash, Open, Effects, Decided, TypeOK, Admitted, DecidedFirst,
     FilesAgree
<1>19. CASE UNCHANGED vars
  BY <1>0, <1>19
     DEF vars, Open, Effects, Decided, TypeOK, Admitted, DecidedFirst,
     FilesAgree
<1> QED
  BY <1>1, <1>2, <1>3, <1>4, <1>5, <1>6, <1>7, <1>8, <1>9, <1>10, <1>11,
  <1>12, <1>13, <1>14, <1>15, <1>16, <1>17, <1>18, <1>19
     DEF Next, Step

-----------------------------------------------------------------------------
\* A product root without commands satisfies the inductive invariant.
LEMMA InitInv == Init => IInv
BY CommandsAssumption
   DEF Init, IInv, Inv, TypeOK, Admitted, ServedByFresh, Untouched, ServedRow,
       RetryKnows, ScopeHeldOnce, FilesAgree, DecidedFirst, Open, Effects,
       PCs, Outcomes, RowStates, Occupying, Decided

\* Every reachable state satisfies the inductive invariant.
THEOREM Invariance == Spec => []IInv
<1>1. IInv /\ [Next]_vars => IInv'
  BY TypeOKStep, AdmittedStep, ServedByFreshStep, UntouchedStep,
     ServedRowStep, RetryKnowsStep, ScopeHeldOnceStep, FilesAgreeStep,
     DecidedFirstStep
     DEF IInv, Inv
<1> QED BY <1>1, InitInv, PTL DEF Spec

\* The files, the rows and the threads keep their types.
THEOREM TypeCorrect == Spec => []TypeOK
<1>1. IInv => TypeOK BY DEF IInv
<1> QED BY <1>1, Invariance, PTL

\* A command whose effect has begun keeps its scope, no rival writes, one thread
\* serves a command, and resumptions follow decisions (claim_incident_command
\* and _admit_incident_command).
THEOREM WritersAreUnique == Spec => []OneWriter
<1>1. ASSUME IInv PROVE OneWriter
  <2>0. /\ TypeOK /\ Admitted /\ ServedByFresh /\ ScopeHeldOnce /\ FilesAgree
        /\ DecidedFirst
    BY <1>1 DEF IInv, Inv
  <2>1. ASSUME NEW c \in begun
        PROVE row[c] \in Occupying /\ \A d \in Scope(c) \ {c} : d \notin begun
    <3>1. c \in Commands /\ row[c] \in Occupying
      BY <2>0 DEF TypeOK, FilesAgree
    <3>2. ASSUME NEW d \in Scope(c) \ {c}, d \in begun PROVE FALSE
      BY <2>0, <3>1, <3>2 DEF TypeOK, FilesAgree, ScopeHeldOnce
    <3> QED BY <3>1, <3>2
  <2>2. ASSUME NEW p \in Procs, NEW q \in Procs,
               Serving(p), Serving(q), cmd[p] = cmd[q]
        PROVE p = q
    BY <2>0, <2>2 DEF Serving, Admitted, ServedByFresh, Open
  <2> QED BY <2>0, <2>1, <2>2 DEF OneWriter, DecidedFirst
<1> QED BY <1>1, Invariance, PTL

\* While a command is evaluated or writes, no other command of its scope has
\* written anything (the scope test of claim_incident_command).
THEOREM RivalsAreExcluded == Spec => []NoRival
<1>1. ASSUME IInv PROVE NoRival
  <2>0. TypeOK /\ Admitted /\ ServedRow /\ ScopeHeldOnce /\ FilesAgree
    BY <1>1 DEF IInv, Inv
  <2> SUFFICES ASSUME NEW p \in Procs, pc[p] \in {"work"} \cup Effects,
                      NEW d \in Scope(cmd[p]) \ {cmd[p]}, d \in begun
               PROVE FALSE
    BY DEF NoRival
  <2>1. cmd[p] \in Commands /\ row[cmd[p]] = "EXECUTING"
    BY <2>0 DEF Admitted, ServedRow, Open, Effects
  <2>2. d \in Commands /\ row[d] \in Occupying
    BY <2>0 DEF TypeOK, FilesAgree
  <2> QED BY <2>0, <2>1, <2>2 DEF ScopeHeldOnce, Occupying
<1> QED BY <1>1, Invariance, PTL

\* Receipts and rows agree (_persist_incident_command_terminal, the replay of
\* a terminal receipt and _mark_incident_command_uncertain).
THEOREM ReceiptsAndRows == Spec => []ReceiptsAgree
<1>1. IInv => ReceiptsAgree
  BY DEF IInv, Inv, FilesAgree, ReceiptsAgree
<1> QED BY <1>1, Invariance, PTL

\* No thread starts to write for a command whose first file exists: "automatic
\* replay is prohibited".
THEOREM EffectsAreNotReplayed == Spec => NoReplayedEffect
<1> DEFINE Quiet == \A p \in Procs : pc[p] # "effect" /\ pc'[p] = "effect"
                       => cmd[p] \notin begun
<1>1. ASSUME IInv, [Next]_vars PROVE Quiet
  <2>0. TypeOK /\ ServedRow
    BY <1>1 DEF IInv, Inv
  <2> USE DEF Effects
  <2>1. ASSUME NEW x \in Procs, Admit(x) PROVE Quiet
    BY <2>0, <2>1
       DEF Admit, Answer, Goto, TypeOK, ServedRow
  <2>2. ASSUME NEW x \in Procs, ReadTerminal(x) PROVE Quiet
    BY <2>0, <2>2
       DEF ReadTerminal, Goto, TypeOK, ServedRow
  <2>3. ASSUME NEW x \in Procs, Claim(x) PROVE Quiet
    BY <2>0, <2>3
       DEF Claim, AfterClaim, Answer, Goto, ScopeOccupied, TypeOK, ServedRow
  <2>4. ASSUME NEW x \in Procs, SealRejected(x) PROVE Quiet
    BY <2>0, <2>4
       DEF SealRejected, Answer, Goto, TypeOK, ServedRow
  <2>5. ASSUME NEW x \in Procs, SyncRow(x) PROVE Quiet
    BY <2>0, <2>5
       DEF SyncRow, FinishRow, Answer, Goto, TypeOK, ServedRow
  <2>6. ASSUME NEW x \in Procs, MarkOrphan(x) PROVE Quiet
    BY <2>0, <2>6
       DEF MarkOrphan, MarkUncertain, FinishRow, Answer, Goto, TypeOK,
       ServedRow
  <2>7. ASSUME NEW x \in Procs, Refuse(x) PROVE Quiet
    BY <2>0, <2>7
       DEF Refuse, Goto, TypeOK, ServedRow
  <2>8. ASSUME NEW x \in Procs, Proceed(x) PROVE Quiet
    BY <2>0, <2>8
       DEF Proceed, Goto, Admissible, TypeOK, ServedRow
  <2>9. ASSUME NEW x \in Procs, WriteRejected(x) PROVE Quiet
    BY <2>0, <2>9
       DEF WriteRejected, Goto, TypeOK, ServedRow
  <2>10. ASSUME NEW x \in Procs, FirstEffect(x) PROVE Quiet
    BY <2>0, <2>10
       DEF FirstEffect, Goto, TypeOK, ServedRow
  <2>11. ASSUME NEW x \in Procs, LastEffect(x) PROVE Quiet
    BY <2>0, <2>11
       DEF LastEffect, Goto, TypeOK, ServedRow
  <2>12. ASSUME NEW x \in Procs, WriteCompleted(x) PROVE Quiet
    BY <2>0, <2>12
       DEF WriteCompleted, Goto, TypeOK, ServedRow
  <2>13. ASSUME NEW x \in Procs, CloseRow(x) PROVE Quiet
    BY <2>0, <2>13
       DEF CloseRow, FinishRow, Answer, Goto, TypeOK, ServedRow
  <2>14. ASSUME NEW x \in Procs, EffectFails(x) PROVE Quiet
    BY <2>0, <2>14
       DEF EffectFails, Goto, TypeOK, ServedRow
  <2>15. ASSUME NEW x \in Procs, MarkUnsure(x) PROVE Quiet
    BY <2>0, <2>15
       DEF MarkUnsure, MarkUncertain, FinishRow, Answer, Goto, TypeOK,
       ServedRow
  <2>16. ASSUME NEW x \in Procs, StoreFails(x) PROVE Quiet
    BY <2>0, <2>16
       DEF StoreFails, Answer, Goto, TypeOK, ServedRow
  <2>17. ASSUME NEW x \in Procs, NEW c \in Commands, NEW b \in Bindings, Request(x, c, b) PROVE Quiet
    BY <2>0, <2>17
       DEF Request, Goto, TypeOK, ServedRow
  <2>18. ASSUME NEW h \in Hosts, Crash(h) PROVE Quiet
    BY <2>0, <2>18
       DEF Crash, TypeOK, ServedRow
  <2>19. CASE UNCHANGED vars
    BY <2>19 DEF vars
  <2> QED
    BY <1>1, <2>1, <2>2, <2>3, <2>4, <2>5, <2>6, <2>7, <2>8, <2>9, <2>10,
    <2>11, <2>12, <2>13, <2>14, <2>15, <2>16, <2>17, <2>18, <2>19
       DEF Next, Step
<1>2. IInv /\ [Next]_vars => [Quiet]_vars
  BY <1>1
<1> QED BY <1>2, Invariance, PTL DEF Spec, NoReplayedEffect
-----------------------------------------------------------------------------
(***************************************************************************)
(* The refinement: the decisions that bind the case's digest implement one *)
(* EffectScope.                                                            *)
(***************************************************************************)
Held == {c \in CurrentDecides : row[c] \in Occupying}
Written == begun \cap CurrentDecides

\* The step is one of the abstract scope, or changes none of it.
ScopeMapped == [DecisionScope!Next]_<<TheOne(Held), TheOne(Written)>>

\* The one member of a set of at most one.
LEMMA TheOneIs == TheOne({}) = None /\ \A x : TheOne({x}) = x
<1>1. ASSUME NEW x PROVE (CHOOSE c \in {x} : TRUE) = x
  OBVIOUS
<1> QED BY <1>1 DEF TheOne

\* At most one decision holds the scope, and who has written holds it.
LEMMA HeldByOne ==
  ASSUME IInv
  PROVE  /\ \A c, d \in Held : c = d
         /\ Written \subseteq Held
         /\ Held \subseteq Commands /\ None \notin Held
<1>1. \A c, d \in CurrentDecides :
        c \in Commands /\ d \in Commands /\ d \in Scope(c)
  BY CommandsAssumption DEF CurrentDecides, Scope, Commands
<1> QED BY <1>1, CommandsAssumption
        DEF IInv, Inv, ScopeHeldOnce, FilesAgree, TypeOK, Held, Written

\* What leaves the rows and the first files alone maps to a stutter.
LEMMA ScopeStutters == UNCHANGED <<row, begun>> => ScopeMapped
BY DEF ScopeMapped, Held, Written

\* Closing a row keeps the scope, or gives it back when nothing was written.
LEMMA FinishMaps ==
  ASSUME IInv, NEW c \in Commands, NEW out \in {"UNCERTAIN"} \cup Outcomes,
         FinishRow(c, out), out = "REJECTED" => c \notin begun,
         UNCHANGED begun
  PROVE  ScopeMapped
<1>1. row \in [Commands -> RowStates]
  BY DEF IInv, TypeOK
<1>2. CASE c \in CurrentDecides /\ row[c] = "EXECUTING" /\ out = "REJECTED"
  <2>1. Held = {c} /\ Written = {}
    BY <1>2, HeldByOne DEF Held, Written, Occupying
  <2>2. Held' = {} /\ Written' = {}
    BY <1>1, <1>2, <2>1 DEF Held, Written, FinishRow, Occupying
  <2>3. c # None
    BY CommandsAssumption
  <2>4. /\ TheOne(Held) = c /\ TheOne(Written) = None
        /\ TheOne(Held') = None /\ TheOne(Written') = None
    BY <2>1, <2>2, TheOneIs
  <2>5. DecisionScope!Release
    BY <2>3, <2>4 DEF DecisionScope!Release, Held, Written
  <2> QED BY <2>5 DEF ScopeMapped, DecisionScope!Next
<1>3. CASE ~(c \in CurrentDecides /\ row[c] = "EXECUTING" /\ out = "REJECTED")
  <2>1. Held' = Held /\ Written' = Written
    BY <1>1, <1>3 DEF Held, Written, FinishRow, Occupying, Outcomes, CurrentDecides
  <2> QED BY <2>1 DEF ScopeMapped
<1> QED BY <1>2, <1>3

\* Every step of the protocol is a step of the scope or a stutter.
LEMMA ScopeStep == IInv /\ [Next]_vars => ScopeMapped
<1> SUFFICES ASSUME IInv, [Next]_vars PROVE ScopeMapped
  OBVIOUS
<1>0. /\ TypeOK /\ Admitted /\ ServedRow /\ RetryKnows /\ FilesAgree
      /\ ServedByFresh
  BY DEF IInv, Inv
<1>1. ASSUME NEW p \in Procs, Claim(p) PROVE ScopeMapped
  <2>1. CASE row[cmd[p]] = "NONE" /\ ~ScopeOccupied(cmd[p]) /\ cmd[p] \in CurrentDecides
    <3>1. /\ row' = [row EXCEPT ![cmd[p]] = "EXECUTING"] /\ UNCHANGED begun
      BY <1>1, <2>1 DEF Claim, files
    <3>2. \A d \in CurrentDecides \ {cmd[p]} : d \in Scope(cmd[p]) \ {cmd[p]}
      BY <2>1, CommandsAssumption DEF CurrentDecides, Scope, Commands
    <3>3. Held = {} /\ Written = {}
      BY <2>1, <3>2, HeldByOne DEF Held, ScopeOccupied, Occupying
    <3>4. Held' = {cmd[p]} /\ Written' = {}
      BY <1>0, <2>1, <3>1, <3>3 DEF Held, Written, Occupying, TypeOK, CurrentDecides, Commands
    <3>5. /\ TheOne(Held) = None /\ TheOne(Written) = None
          /\ TheOne(Held') = cmd[p] /\ TheOne(Written') = None
      BY <3>3, <3>4, TheOneIs
    <3>6. DecisionScope!Acquire(cmd[p])
      BY <3>5 DEF DecisionScope!Acquire, Held, Written
    <3> QED BY <2>1, <3>6 DEF ScopeMapped, DecisionScope!Next
  <2>2. CASE row[cmd[p]] = "NONE" /\ ~ScopeOccupied(cmd[p]) /\ cmd[p] \notin CurrentDecides
    <3>1. /\ row' = [row EXCEPT ![cmd[p]] = "EXECUTING"] /\ UNCHANGED begun
      BY <1>1, <2>2 DEF Claim, files
    <3>2. Held' = Held /\ Written' = Written
      BY <1>0, <2>2, <3>1 DEF Held, Written, TypeOK, CurrentDecides, Commands
    <3> QED BY <3>2 DEF ScopeMapped
  <2>3. CASE ~(row[cmd[p]] = "NONE" /\ ~ScopeOccupied(cmd[p]))
    BY <1>1, <2>3, ScopeStutters DEF Claim, files
  <2> QED BY <2>1, <2>2, <2>3
<1>2. ASSUME NEW p \in Procs, FirstEffect(p) PROVE ScopeMapped
  <2>1. /\ cmd[p] \in Commands /\ row[cmd[p]] = "EXECUTING"
        /\ cmd[p] \notin begun /\ begun' = begun \cup {cmd[p]} /\ UNCHANGED row
    BY <1>0, <1>2 DEF FirstEffect, Admitted, ServedRow, Open, Effects
  <2>2. CASE cmd[p] \in CurrentDecides
    <3>1. Held = {cmd[p]} /\ Written = {}
      BY <2>1, <2>2, HeldByOne DEF Held, Written, Occupying
    <3>2. Held' = {cmd[p]} /\ Written' = {cmd[p]}
      BY <2>1, <2>2, <3>1 DEF Held, Written
    <3>3. cmd[p] # None
      BY <2>1, CommandsAssumption
    <3>4. /\ TheOne(Held) = cmd[p] /\ TheOne(Written) = None
          /\ TheOne(Held') = cmd[p] /\ TheOne(Written') = cmd[p]
      BY <3>1, <3>2, TheOneIs
    <3>5. DecisionScope!Write
      BY <3>3, <3>4 DEF DecisionScope!Write, Held, Written
    <3> QED BY <3>5 DEF ScopeMapped, DecisionScope!Next
  <2>3. CASE cmd[p] \notin CurrentDecides
    <3>1. Held' = Held /\ Written' = Written
      BY <2>1, <2>3 DEF Held, Written
    <3> QED BY <3>1 DEF ScopeMapped
  <2> QED BY <2>2, <2>3
<1>3. ASSUME NEW p \in Procs, SyncRow(p) PROVE ScopeMapped
  <2>1. /\ cmd[p] \in Commands /\ saw[p] \in Outcomes /\ saw[p] = terminal[cmd[p]]
        /\ FinishRow(cmd[p], saw[p]) /\ UNCHANGED begun
    BY <1>0, <1>3 DEF SyncRow, RetryKnows, Admitted, TypeOK, files
  <2> QED BY <1>0, <2>1, FinishMaps DEF FilesAgree
<1>4. ASSUME NEW p \in Procs, MarkOrphan(p) \/ MarkUnsure(p) PROVE ScopeMapped
  <2>1. /\ cmd[p] \in Commands /\ FinishRow(cmd[p], "UNCERTAIN")
        /\ UNCHANGED begun
    BY <1>0, <1>4 DEF MarkOrphan, MarkUnsure, MarkUncertain, Admitted, files
  <2> QED BY <2>1, FinishMaps
<1>5. ASSUME NEW p \in Procs, CloseRow(p) PROVE ScopeMapped
  <2>1. /\ cmd[p] \in Commands /\ terminal[cmd[p]] \in Outcomes
        /\ FinishRow(cmd[p], terminal[cmd[p]]) /\ UNCHANGED begun
    BY <1>0, <1>5 DEF CloseRow, ServedRow, Admitted, TypeOK, files
  <2> QED BY <1>0, <2>1, FinishMaps DEF FilesAgree
<1>6. ASSUME NEW p \in Procs,
             \/ Admit(p) \/ ReadTerminal(p) \/ SealRejected(p) \/ Refuse(p)
             \/ Proceed(p) \/ WriteRejected(p) \/ LastEffect(p)
             \/ WriteCompleted(p) \/ EffectFails(p) \/ StoreFails(p)
      PROVE  ScopeMapped
  BY <1>6, ScopeStutters
     DEF Admit, ReadTerminal, SealRejected, Refuse, Proceed, WriteRejected,
         LastEffect, WriteCompleted, EffectFails, StoreFails, files
<1>7. ASSUME NEW p \in Procs, NEW c \in Commands, NEW b \in Bindings,
             Request(p, c, b)
      PROVE  ScopeMapped
  BY <1>7, ScopeStutters DEF Request, files
<1>8. ASSUME NEW h \in Hosts, Crash(h) PROVE ScopeMapped
  BY <1>8, ScopeStutters DEF Crash, files
<1>9. CASE UNCHANGED vars
  BY <1>9, ScopeStutters DEF vars, files
<1> QED BY <1>1, <1>2, <1>3, <1>4, <1>5, <1>6, <1>7, <1>8, <1>9 DEF Next, Step

\* The files and rows of all commands together implement one effect scope of
\* the decisions: one holder, one writer, and no release once it has written
\* (claim_incident_command, finish_incident_command and the write-once files).
THEOREM ScopeImplemented == Spec => ImplementsScope
<1>1. Init => DecisionScope!Init
  BY TheOneIs DEF Init, DecisionScope!Init, Occupying, CurrentDecides, Commands, TheOne
<1>2. IInv /\ [Next]_vars
        => [DecisionScope!Next]_<<TheOne({c \in CurrentDecides : row[c] \in Occupying}),
                                  TheOne(begun \cap CurrentDecides)>>
  BY ScopeStep DEF ScopeMapped, Held, Written
<1> QED BY <1>1, <1>2, Invariance, PTL DEF Spec, ImplementsScope, DecisionScope!Spec
=============================================================================
