----------------------- MODULE ControlLifecycleProofs -----------------------
(***************************************************************************)
(* Proofs about ControlLifecycle, for any number of commits by others and  *)
(* of failures: that it implements LifecycleRecord, and that the control   *)
(* worktree loses nothing but the service's own unpublished commit.        *)
(***************************************************************************)
EXTENDS ControlLifecycle, SequenceTheorems, TLAPS

-----------------------------------------------------------------------------
\* Histories.

\* A history that grows by a commit.
LEMMA AppendEnds ==
  ASSUME NEW S, NEW s \in Seq(S), NEW x \in S
  PROVE  /\ Append(s, x) \in Seq(S) /\ Append(s, x) # <<>>
         /\ Front(Append(s, x)) = s /\ Last(Append(s, x)) = x
         /\ DOMAIN Append(s, x) = 1..(Len(s) + 1) /\ DOMAIN s = 1..Len(s)
         /\ \A i \in DOMAIN s : Append(s, x)[i] = s[i]
<1> DEFINE a == Append(s, x)
<1>1. /\ a \in Seq(S) /\ a # <<>> /\ Len(a) = Len(s) + 1
      /\ \A i \in 1..Len(s) : a[i] = s[i]
      /\ a[Len(s) + 1] = x
  BY AppendProperties
<1>2. Len(s) \in Nat /\ DOMAIN s = 1..Len(s)
  OBVIOUS
<1> HIDE DEF a
<1>3. DOMAIN a = 1..(Len(s) + 1) /\ Len(a) - 1 = Len(s)
  BY <1>1, <1>2
<1>4. /\ SubSeq(a, 1, Len(s)) \in Seq(S) /\ Len(SubSeq(a, 1, Len(s))) = Len(s)
      /\ \A i \in 1..Len(s) : SubSeq(a, 1, Len(s))[i] = s[i]
  BY <1>1, <1>2
<1>5. SubSeq(a, 1, Len(s)) = s
  BY <1>4, SeqEqual
<1> QED BY <1>1, <1>2, <1>3, <1>5 DEF a, Front, Last

\* A history is its front and its last commit.
LEMMA FrontAndLast ==
  ASSUME NEW S, NEW s \in Seq(S), s # <<>>
  PROVE  /\ Front(s) \in Seq(S) /\ Last(s) \in S /\ s = Append(Front(s), Last(s))
         /\ \A i \in DOMAIN s : i \in DOMAIN Front(s) \/ s[i] = Last(s)
         /\ \A i \in DOMAIN Front(s) : i \in DOMAIN s /\ s[i] = Front(s)[i]
<1>1. PICK f \in Seq(S), e \in S : s = Append(f, e)
  BY SequenceEmptyOrAppend
<1>2. /\ Front(s) = f /\ Last(s) = e /\ DOMAIN s = 1..(Len(f) + 1)
      /\ DOMAIN f = 1..Len(f) /\ \A i \in DOMAIN f : s[i] = f[i]
  BY <1>1, AppendEnds
<1>3. Len(f) \in Nat /\ s[Len(f) + 1] = e
  BY <1>1, AppendProperties
<1>4. \A i \in DOMAIN s : i \in DOMAIN f \/ i = Len(f) + 1
  BY <1>2, <1>3
<1>5. \A i \in DOMAIN f : i \in DOMAIN s
  BY <1>2, <1>3
<1> QED BY <1>1, <1>2, <1>3, <1>4, <1>5

\* An ancestor's commits are commits of the descendant.
LEMMA AncestorKeeps ==
  ASSUME NEW S, NEW s \in Seq(S), NEW t \in Seq(S), Ancestor(s, t),
         NEW i \in DOMAIN s
  PROVE  s[i] \in Range(t)
<1>1. /\ Len(s) \in Nat /\ Len(t) \in Nat /\ DOMAIN s = 1..Len(s)
      /\ DOMAIN t = 1..Len(t) /\ Len(s) <= Len(t)
      /\ SubSeq(s, 1, Len(s)) = SubSeq(t, 1, Len(s))
  BY DEF Ancestor, IsPrefix
<1>2. SubSeq(s, 1, Len(s))[i] = s[i]
  BY <1>1
<1>3. SubSeq(t, 1, Len(s))[i] = t[i]
  BY <1>1
<1>4. i \in DOMAIN t /\ s[i] = t[i]
  BY <1>1, <1>2, <1>3
<1> QED BY <1>4 DEF Range

\* A commit on top adds an own commit only if it is one.
LEMMA OwnAppended ==
  ASSUME NEW h \in Seq(Commits), NEW c \in Commits
  PROVE  HasOwn(Append(h, c)) <=> HasOwn(h) \/ c.kind = "lifecycle"
<1> DEFINE a == Append(h, c)
<1>1. /\ a \in Seq(Commits) /\ a # <<>> /\ Front(a) = h /\ Last(a) = c
      /\ \A i \in DOMAIN h : a[i] = h[i]
  BY AppendEnds
<1> HIDE DEF a
<1>2. /\ \A i \in DOMAIN a : i \in DOMAIN h \/ a[i] = c
      /\ \A i \in DOMAIN h : i \in DOMAIN a
  BY <1>1, FrontAndLast
<1>3. \E i \in DOMAIN a : a[i] = c
  <2>1. Len(a) \in DOMAIN a
    BY <1>1
  <2> QED BY <1>1, <2>1 DEF Last
<1>4. HasOwn(a) <=> HasOwn(h) \/ c.kind = "lifecycle"
  BY <1>1, <1>2, <1>3 DEF HasOwn, OwnPlaces
<1> QED BY <1>4 DEF a

\* The commits of the model.
LEMMA CommitTypes ==
  /\ \A k \in OtherKinds, n \in 1..MaxChanges :
       [kind |-> k, n |-> n] \in Commits /\ k # "lifecycle"
  /\ \A n \in 1..MaxCommits : [kind |-> "lifecycle", n |-> n] \in Commits
  /\ Admitted \in Seq(Commits) /\ Admitted # <<>> /\ ~HasOwn(Admitted)
<1>1. [kind |-> "admitted", n |-> 0] \in Commits
  BY DEF Commits
<1>2. Admitted \in Seq(Commits) /\ Admitted # <<>> /\ ~HasOwn(Admitted)
  BY <1>1 DEF Admitted, HasOwn, OwnPlaces
<1> QED BY <1>2 DEF Commits, OtherKinds

-----------------------------------------------------------------------------
\* The invariant.

\* The initial state.
LEMMA InitIInv == Init => IInv
<1> SUFFICES ASSUME Init PROVE IInv
  OBVIOUS
<1>1. TypeOK
  <2>1. 0 \in 0..MaxCommits /\ 0 \in 0..MaxChanges /\ 0 \in 0..MaxFailures
          /\ 0 \in 0..Attempts
    BY BoundsAssumption DEF Attempts, MaxCommits
  <2>2. dirty \in BOOLEAN /\ moves \in BOOLEAN /\ pc \in Pcs
    BY DEF Init, Pcs
  <2> QED BY <2>1, <2>2, CommitTypes DEF Init, TypeOK
<1>2. ProposalInv /\ BudgetInv
  BY CommitTypes DEF Init, ProposalInv, BudgetInv, Budget, Settled
<1> QED BY <1>1, <1>2 DEF IInv

\* A bound is kept: no more lifecycle commits than there are reasons for one.
LEMMA BudgetTyped ==
  ASSUME TypeOK, BudgetInv
  PROVE  /\ made \in Nat /\ changes \in Nat /\ failures \in Nat
         /\ made <= MaxCommits /\ MaxCommits \in Nat
         /\ changes <= MaxChanges /\ failures <= MaxFailures
  BY BoundsAssumption DEF TypeOK, BudgetInv, Budget, MaxCommits

\* A failure makes room for one more commit.
LEMMA Slack ==
  ASSUME NEW m \in Nat, NEW c \in Nat, NEW f \in Nat, NEW g,
         g = f \/ g = f + 1, m <= c + f + 1
  PROVE  /\ m <= c + g + 1
         /\ m <= c + f \/ g = f + 1 => m <= c + g
  OBVIOUS

\* The owner gives up for now, or goes on, without touching any history.
OwnerOnly ==
  UNCHANGED <<remote, local, inflight, pinned, moves, published, made, changes>>

\* The owner's position after a step that touches no history.
LEMMA OwnerMoves ==
  ASSUME IInv, OwnerOnly, dirty' \in BOOLEAN, tries' \in 0..Attempts,
         pc' \in {"idle", "start", "down"},
         seen' \in Seq(Commits), failures' \in 0..MaxFailures,
         \/ pc \in {"idle", "start", "observed", "aligned", "written", "down"}
              /\ failures' \in {failures, failures + 1}
         \/ failures' = failures + 1
         \/ HasOwn(remote) /\ failures' = failures
         \/ made <= Budget /\ failures' = failures
  PROVE  IInv'
<1>1. TypeOK /\ ProposalInv /\ BudgetInv
  BY DEF IInv
<1>2. /\ made \in Nat /\ changes \in Nat /\ failures \in Nat
      /\ made <= MaxCommits /\ MaxCommits \in Nat
  BY <1>1, BudgetTyped
<1>3. TypeOK'
  BY <1>1 DEF OwnerOnly, TypeOK, Pcs
<1>4. ProposalInv'
  BY <1>1 DEF OwnerOnly, ProposalInv, Proposal, Settled
<1>5. BudgetInv'
  <2>1. /\ failures' = failures \/ failures' = failures + 1
        /\ made <= changes + failures + 1
        /\ HasOwn(remote) \/ made <= changes + failures \/ failures' = failures + 1
    BY <1>1 DEF BudgetInv, Budget
  <2>2. /\ HasOwn(remote) \/ made <= changes + failures'
        /\ made <= changes + failures' + 1
    BY <1>2, <2>1, Slack
  <2> QED BY <2>2 DEF OwnerOnly, BudgetInv, Budget
<1> QED BY <1>3, <1>4, <1>5 DEF IInv

\* The steps of the owner in the lifecycle stage.
LEMMA OwnerIInv == IInv /\ OwnerStep => IInv'
<1> SUFFICES ASSUME IInv, OwnerStep PROVE IInv'
  OBVIOUS
<1>1. TypeOK /\ ProposalInv /\ BudgetInv
  BY DEF IInv
<1>2. /\ made \in Nat /\ changes \in Nat /\ failures \in Nat
      /\ made <= MaxCommits /\ MaxCommits \in Nat
      /\ changes <= MaxChanges /\ failures <= MaxFailures
  BY <1>1, BudgetTyped
<1>3. /\ remote \in Seq(Commits) /\ local \in Seq(Commits) /\ seen \in Seq(Commits)
      /\ dirty \in BOOLEAN /\ tries \in 0..Attempts /\ <<>> \in Seq(Commits)
      /\ 0 \in 0..Attempts /\ failures \in 0..MaxFailures
  BY <1>1 DEF TypeOK, Attempts
<1>4. CASE Begin
  BY <1>3, <1>4, OwnerMoves DEF Begin, OwnerOnly, counts, Attempts
<1>5. CASE Fetch
  <2>1. TypeOK'
    BY <1>1, <1>5 DEF Fetch, TypeOK, Pcs, counts
  <2>2. ProposalInv'
    BY <1>1, <1>5 DEF Fetch, ProposalInv, Proposal, Settled, counts
  <2>3. BudgetInv'
    BY <1>1, <1>2, <1>5 DEF Fetch, BudgetInv, Budget, counts
  <2> QED BY <2>1, <2>2, <2>3 DEF IInv
<1>6. CASE FetchBlocked \/ ObservedBlocked \/ BoundaryBlocked
  <2>1. /\ OwnerOnly /\ dirty' = dirty /\ tries' = 0 /\ pc' = "idle" /\ seen' = <<>>
        /\ pc \in {"start", "observed", "aligned"} /\ failures' = failures
    BY <1>6 DEF FetchBlocked, ObservedBlocked, BoundaryBlocked, Blocked, OwnerOnly,
         counts
  <2> QED BY <1>3, <2>1, OwnerMoves
<1>7. CASE Reuse
  <2>1. published # {}
    BY <1>1, <1>7 DEF Reuse, ProposalInv
  <2>2. TypeOK'
    BY <1>1, <1>7 DEF Reuse, TypeOK, Pcs, counts
  <2>3. ProposalInv'
    BY <1>1, <1>7, <2>1 DEF Reuse, ProposalInv, Proposal, Settled, counts
  <2>4. BudgetInv'
    BY <1>1, <1>2, <1>7 DEF Reuse, BudgetInv, Budget, counts
  <2> QED BY <2>2, <2>3, <2>4 DEF IInv
<1>8. CASE Align
  <2>1. TypeOK'
    BY <1>1, <1>8 DEF Align, TypeOK, Pcs, counts
  <2>2. ProposalInv'
    BY <1>1, <1>8 DEF Align, CanAlign, ProposalInv, Proposal, Settled, counts
  <2>3. BudgetInv'
    BY <1>1, <1>2, <1>8 DEF Align, BudgetInv, Budget, counts
  <2> QED BY <2>1, <2>2, <2>3 DEF IInv
<1>9. CASE WriteReport
  <2>1. TypeOK'
    BY <1>1, <1>9 DEF WriteReport, TypeOK, Pcs, counts
  <2>2. ProposalInv'
    BY <1>1, <1>9 DEF WriteReport, Compatible, ProposalInv, Proposal, Settled, counts
  <2>3. BudgetInv'
    BY <1>1, <1>2, <1>9 DEF WriteReport, BudgetInv, Budget, counts
  <2> QED BY <2>1, <2>2, <2>3 DEF IInv
<1>10. CASE Commit
  <2> DEFINE c == [kind |-> "lifecycle", n |-> made + 1]
  <2>1. /\ pc = "written" /\ made' = made + 1 /\ local' = Append(local, c)
        /\ dirty' = FALSE /\ pc' = "committed"
        /\ UNCHANGED <<remote, inflight, pinned, moves, seen, tries, published,
                       changes, failures>>
    BY <1>10 DEF Commit
  <2>2. made + 1 \in 1..MaxCommits
    BY <1>1, <1>2, <2>1, BoundsAssumption DEF BudgetInv, Budget, MaxCommits
  <2>3. c \in Commits /\ c.kind = "lifecycle" /\ c.n = made + 1
    BY <2>2, CommitTypes
  <2> HIDE DEF c
  <2>4. /\ local' \in Seq(Commits) /\ local' # <<>>
        /\ Front(local') = local /\ Last(local') = c
    BY <1>3, <2>1, <2>3, AppendEnds
  <2>5. TypeOK'
    <3>1. dirty' \in BOOLEAN /\ pc' \in Pcs
      BY <2>1 DEF Pcs
    <3>2. made' \in 0..MaxCommits
      BY <1>2, <2>1, <2>2
    <3> QED BY <1>1, <2>1, <2>4, <3>1, <3>2 DEF TypeOK
  <2>6. \A h : Proposal(h) => Proposal(h)'
    BY <1>2, <2>1 DEF Proposal
  <2>7. Proposal(local)'
    BY <1>1, <1>2, <2>1, <2>3, <2>4 DEF ProposalInv, Proposal
  <2>8. ProposalInv'
    BY <1>1, <2>1, <2>6, <2>7 DEF ProposalInv, Settled
  <2>9. BudgetInv'
    BY <1>1, <1>2, <2>1, <2>4 DEF BudgetInv, Budget
  <2> QED BY <2>5, <2>8, <2>9 DEF IInv
<1>11. CASE CommitFails
  <2>1. failures + 1 \in 0..MaxFailures
    BY <1>2, <1>11, BoundsAssumption DEF CommitFails
  <2> QED BY <1>3, <1>11, <2>1, OwnerMoves DEF CommitFails, Blocked, OwnerOnly
<1>12. CASE Push
  <2>1. TypeOK'
    BY <1>1, <1>12 DEF Push, TypeOK, Pcs, counts
  <2>2. ProposalInv'
    BY <1>1, <1>12 DEF Push, ProposalInv, Proposal, Settled, counts
  <2>3. BudgetInv'
    BY <1>1, <1>2, <1>12 DEF Push, BudgetInv, Budget, counts
  <2> QED BY <2>1, <2>2, <2>3 DEF IInv
<1>13. CASE PushAccepted
  <2>1. TypeOK'
    BY <1>1, <1>13 DEF PushAccepted, TypeOK, Pcs, counts
  <2>2. ProposalInv'
    BY <1>1, <1>13 DEF PushAccepted, ProposalInv, Proposal, Settled, counts
  <2>3. BudgetInv'
    BY <1>1, <1>2, <1>13 DEF PushAccepted, BudgetInv, Budget, counts
  <2> QED BY <2>1, <2>2, <2>3 DEF IInv
<1>14. ASSUME Retry PROVE /\ pc' \in {"idle", "start"} /\ tries' \in 0..Attempts
                          /\ seen' \in Seq(Commits)
  <2>1. CASE tries < Attempts
    BY <1>3, <1>14, <2>1 DEF Retry, Attempts
  <2>2. CASE ~(tries < Attempts)
    BY <1>3, <1>14, <2>2 DEF Retry, Blocked
  <2> QED BY <2>1, <2>2
<1>15. CASE PushRejected
  <2>1. HasOwn(remote) \/ made <= Budget
    BY <1>1, <1>15 DEF PushRejected, BudgetInv
  <2> QED BY <1>3, <1>14, <1>15, <2>1, OwnerMoves DEF PushRejected, OwnerOnly, counts
<1>16. CASE PushUnanswered
  <2>1. failures + 1 \in 0..MaxFailures
    BY <1>2, <1>16, BoundsAssumption DEF PushUnanswered
  <2> QED BY <1>3, <1>14, <1>16, <2>1, OwnerMoves DEF PushUnanswered, OwnerOnly
<1>17. CASE Finalize
  <2>1. TypeOK'
    BY <1>1, <1>3, <1>17 DEF Finalize, TypeOK, Pcs, counts
  <2>2. ProposalInv'
    BY <1>1, <1>17 DEF Finalize, ProposalInv, Proposal, Settled, counts
  <2>3. BudgetInv'
    BY <1>1, <1>2, <1>17 DEF Finalize, BudgetInv, Budget, counts
  <2> QED BY <2>1, <2>2, <2>3 DEF IInv
<1> QED
  BY <1>4, <1>5, <1>6, <1>7, <1>8, <1>9, <1>10, <1>11, <1>12, <1>13, <1>15, <1>16,
     <1>17 DEF OwnerStep

\* The steps of the idle service.
LEMMA IdleIInv == IInv /\ IdleStep => IInv'
<1> SUFFICES ASSUME IInv, IdleStep PROVE IInv'
  OBVIOUS
<1>1. TypeOK /\ ProposalInv /\ BudgetInv
  BY DEF IInv
<1>2. /\ made \in Nat /\ changes \in Nat /\ failures \in Nat
      /\ made <= MaxCommits /\ MaxCommits \in Nat
      /\ changes <= MaxChanges /\ failures <= MaxFailures
  BY <1>1, BudgetTyped
<1>3. /\ pc \in {"finalized", "authorized", "reobserved", "pinned"}
      /\ pc' \in {"finalized", "authorized", "reobserved", "pinned"}
      /\ UNCHANGED <<remote, dirty, inflight, moves, tries, published, made, changes>>
      /\ local' \in {local, remote, seen} /\ seen' \in {seen, remote, <<>>}
      /\ pinned' \in {pinned, pinned \cup {[from |-> local, to |-> seen]}}
      /\ pc' = "pinned" =>
           local' = local /\ seen' = seen /\ [from |-> local, to |-> seen] \in pinned'
      /\ failures' = failures \/ (failures < MaxFailures /\ failures' = failures + 1)
  <2>1. CASE SyncControl \/ AdmitAdoption
    BY <2>1 DEF SyncControl, AdmitAdoption, owner, counts
  <2>2. CASE Reobserve
    BY <2>2 DEF Reobserve, counts
  <2>3. CASE PinDisplaced
    BY <2>3 DEF PinDisplaced, counts
  <2>4. CASE Adopt \/ AdoptionFails
    BY <2>4 DEF Adopt, AdoptionFails, counts
  <2> QED BY <2>1, <2>2, <2>3, <2>4 DEF IdleStep
<1>4. TypeOK'
  <2>1. failures' \in 0..MaxFailures
    BY <1>2, <1>3, BoundsAssumption
  <2>2. local' \in Seq(Commits) /\ seen' \in Seq(Commits) /\ pc' \in Pcs
    <3>1. {local, remote, seen, <<>>} \subseteq Seq(Commits)
      BY <1>1 DEF TypeOK
    <3> QED BY <1>3, <3>1 DEF Pcs
  <2>3. \A p \in pinned' : p.from \in Seq(Commits) /\ p.to \in Seq(Commits)
    <3> SUFFICES ASSUME NEW p \in pinned'
                 PROVE  p.from \in Seq(Commits) /\ p.to \in Seq(Commits)
      OBVIOUS
    <3>1. p \in pinned \/ p = [from |-> local, to |-> seen]
      BY <1>3
    <3> QED BY <1>1, <3>1 DEF TypeOK
  <2> QED BY <1>1, <1>3, <2>1, <2>2, <2>3 DEF TypeOK
<1>5. ProposalInv'
  BY <1>1, <1>3 DEF ProposalInv, Proposal, Settled
<1>6. BudgetInv'
  <2>1. made <= changes + failures' + 1
    BY <1>1, <1>2, <1>3, Slack DEF BudgetInv, Budget
  <2> QED BY <1>3, <2>1 DEF BudgetInv, Budget
<1> QED BY <1>4, <1>5, <1>6 DEF IInv

\* A push arrives.
LEMMA DeliverIInv ==
  ASSUME IInv, NEW h \in inflight, Deliver(h)
  PROVE  IInv'
<1>1. TypeOK /\ ProposalInv /\ BudgetInv
  BY DEF IInv
<1>2. /\ made \in Nat /\ changes \in Nat /\ failures \in Nat
      /\ made <= MaxCommits /\ MaxCommits \in Nat
  BY <1>1, BudgetTyped
<1>3. /\ UNCHANGED <<local, dirty, pinned, moves, pc, seen, tries, made, changes,
                     failures>>
      /\ inflight' = inflight \ {h}
  BY DEF Deliver, owner, counts
<1>4. Proposal(h) /\ h \in Seq(Commits)
  BY <1>1 DEF ProposalInv, TypeOK
<1>5. CASE remote = Front(h)
  <2>1. remote' = h /\ published' = published \cup {Last(h).n}
    BY <1>5 DEF Deliver
  <2>2. HasOwn(h)
    <3>1. /\ Front(h) \in Seq(Commits) /\ Last(h) \in Commits
          /\ h = Append(Front(h), Last(h))
      BY <1>4, FrontAndLast DEF Proposal
    <3>2. Last(h).kind = "lifecycle"
      BY <1>4 DEF Proposal
    <3> QED BY <3>1, <3>2, OwnAppended
  <2>3. TypeOK'
    <3>1. Last(h).n \in 1..MaxCommits
      BY <1>2, <1>4 DEF Proposal
    <3> QED BY <1>1, <1>3, <1>4, <2>1, <3>1 DEF TypeOK
  <2>4. ProposalInv'
    BY <1>1, <1>3, <1>4, <2>1, <2>2 DEF ProposalInv, Proposal, Settled
  <2>5. BudgetInv'
    BY <1>1, <1>3, <2>1, <2>2 DEF BudgetInv, Budget
  <2> QED BY <2>3, <2>4, <2>5 DEF IInv
<1>6. CASE remote # Front(h)
  <2>1. UNCHANGED <<remote, published>>
    BY <1>6 DEF Deliver
  <2>2. TypeOK'
    BY <1>1, <1>3, <2>1 DEF TypeOK
  <2>3. ProposalInv'
    BY <1>1, <1>3, <2>1 DEF ProposalInv, Proposal, Settled
  <2>4. BudgetInv'
    BY <1>1, <1>3, <1>6, <2>1 DEF BudgetInv, Budget
  <2> QED BY <2>2, <2>3, <2>4 DEF IInv
<1> QED BY <1>5, <1>6

\* A push gets lost.
LEMMA LoseIInv ==
  ASSUME IInv, NEW h \in inflight, Lose(h)
  PROVE  IInv'
<1>1. TypeOK /\ ProposalInv /\ BudgetInv
  BY DEF IInv
<1>2. /\ UNCHANGED <<remote, local, dirty, pinned, moves, pc, seen, tries, published,
                     made, changes, failures>>
      /\ inflight' = inflight \ {h} /\ ~(pc = "pushing" /\ h = local)
  BY DEF Lose, owner, counts
<1>3. TypeOK'
  BY <1>1, <1>2 DEF TypeOK
<1>4. ProposalInv'
  BY <1>1, <1>2 DEF ProposalInv, Proposal, Settled
<1>5. BudgetInv'
  BY <1>1, <1>2 DEF BudgetInv, Budget
<1> QED BY <1>3, <1>4, <1>5 DEF IInv

\* Others move the branch: to a history with one new commit of theirs.
LEMMA OthersShape ==
  ASSUME IInv, OthersCommit \/ OthersRewrite
  PROVE  /\ UNCHANGED <<local, dirty, inflight, pinned, moves, pc, seen, tries,
                        published, made, failures>>
         /\ changes' = changes + 1 /\ changes' \in 1..MaxChanges
         /\ \E c \in Commits :
              \/ c.kind \in OtherKinds /\ remote' = Append(remote, c)
              \/ c.kind = "other" /\ remote' = Append(Front(remote), c)
         /\ remote' \in Seq(Commits) /\ remote' # <<>>
         /\ HasOwn(remote') => HasOwn(remote)
<1>1. TypeOK /\ ProposalInv /\ BudgetInv
  BY DEF IInv
<1>2. /\ UNCHANGED <<local, dirty, inflight, pinned, moves, pc, seen, tries,
                     published, made, failures>>
      /\ changes' = changes + 1 /\ changes' \in 1..MaxChanges
  <2>1. changes \in Nat /\ changes < MaxChanges /\ changes' = changes + 1
    BY <1>1, BudgetTyped DEF OthersCommit, OthersRewrite
  <2> QED BY <2>1, BoundsAssumption DEF OthersCommit, OthersRewrite, owner
<1>3. remote \in Seq(Commits) /\ remote # <<>>
  BY <1>1 DEF TypeOK, ProposalInv
<1>4. /\ Front(remote) \in Seq(Commits) /\ Last(remote) \in Commits
      /\ remote = Append(Front(remote), Last(remote))
  BY <1>3, FrontAndLast
<1>5. HasOwn(Front(remote)) => HasOwn(remote)
  BY <1>4, OwnAppended
<1>6. CASE OthersCommit
  <2>1. PICK k \in OtherKinds : remote' = Append(remote, [kind |-> k, n |-> changes'])
    BY <1>6 DEF OthersCommit
  <2>2. [kind |-> k, n |-> changes'] \in Commits /\ k # "lifecycle"
    BY <1>2, CommitTypes
  <2> DEFINE c == [kind |-> k, n |-> changes']
  <2>3. c \in Commits /\ c.kind = k /\ remote' = Append(remote, c)
    BY <2>1, <2>2
  <2> HIDE DEF c
  <2>4. HasOwn(remote') => HasOwn(remote)
    BY <1>3, <2>2, <2>3, OwnAppended
  <2>5. remote' \in Seq(Commits) /\ remote' # <<>>
    BY <1>3, <2>3, AppendEnds
  <2> QED BY <1>2, <2>3, <2>4, <2>5
<1>7. CASE OthersRewrite
  <2> DEFINE c == [kind |-> "other", n |-> changes']
  <2>1. remote' = Append(Front(remote), c)
    BY <1>7 DEF OthersRewrite
  <2>2. c \in Commits /\ c.kind = "other" /\ c.kind \in OtherKinds
    BY <1>2, CommitTypes DEF OtherKinds
  <2> HIDE DEF c
  <2>3. HasOwn(remote') => HasOwn(remote)
    BY <1>4, <1>5, <2>1, <2>2, OwnAppended
  <2>4. remote' \in Seq(Commits) /\ remote' # <<>>
    BY <1>4, <2>1, <2>2, AppendEnds
  <2> QED BY <1>2, <2>1, <2>2, <2>3, <2>4
<1> QED BY <1>6, <1>7

\* The steps of others and of the process.
LEMMA EnvironmentIInv == IInv /\ EnvironmentStep => IInv'
<1> SUFFICES ASSUME IInv, EnvironmentStep PROVE IInv'
  OBVIOUS
<1>1. TypeOK /\ ProposalInv /\ BudgetInv
  BY DEF IInv
<1>2. /\ made \in Nat /\ changes \in Nat /\ failures \in Nat
      /\ made <= MaxCommits /\ MaxCommits \in Nat
      /\ changes <= MaxChanges /\ failures <= MaxFailures
  BY <1>1, BudgetTyped
<1>3. CASE OthersCommit \/ OthersRewrite
  <2>1. /\ UNCHANGED <<local, dirty, inflight, pinned, moves, pc, seen, tries,
                       published, made, failures>>
        /\ changes' = changes + 1 /\ changes' \in 1..MaxChanges
        /\ remote' \in Seq(Commits) /\ remote' # <<>>
        /\ HasOwn(remote') => HasOwn(remote)
    BY <1>3, OthersShape
  <2>2. TypeOK'
    <3>1. changes' \in 0..MaxChanges
      BY <2>1, BoundsAssumption
    <3> QED BY <1>1, <2>1, <3>1 DEF TypeOK
  <2>3. ProposalInv'
    BY <1>1, <2>1 DEF ProposalInv, Proposal, Settled
  <2>4. BudgetInv'
    <3>1. /\ made <= changes' + failures' + 1 /\ made <= changes' + failures'
          /\ made <= changes + failures => made < changes' + failures'
      BY <1>1, <1>2, <2>1 DEF BudgetInv, Budget
    <3> QED BY <1>1, <2>1, <3>1 DEF BudgetInv, Budget
  <2> QED BY <2>2, <2>3, <2>4 DEF IInv
<1>4. CASE OperatorCleans
  <2>1. OwnerOnly /\ pc = "idle" /\ dirty' = FALSE /\ UNCHANGED <<pc, seen, tries, failures>>
    BY <1>4 DEF OperatorCleans, OwnerOnly, owner, counts
  <2>2. dirty' \in BOOLEAN /\ tries' \in 0..Attempts /\ seen' \in Seq(Commits)
          /\ failures' \in 0..MaxFailures
    BY <1>1, <2>1 DEF TypeOK
  <2> QED BY <2>1, <2>2, OwnerMoves
<1>5. CASE Crash
  <2>1. /\ OwnerOnly /\ dirty' = dirty /\ tries' = 0 /\ seen' = <<>>
        /\ failures < MaxFailures /\ failures' = failures + 1
        /\ pc' = IF Settled THEN "halted" ELSE "down"
    BY <1>5 DEF Crash, OwnerOnly
  <2>2. /\ dirty' \in BOOLEAN /\ tries' \in 0..Attempts /\ seen' \in Seq(Commits)
        /\ failures' \in 0..MaxFailures
    BY <1>1, <1>2, <2>1, BoundsAssumption DEF TypeOK, Attempts
  <2>3. CASE ~Settled
    BY <2>1, <2>2, <2>3, OwnerMoves
  <2>4. CASE Settled
    <3>1. TypeOK'
      BY <1>1, <2>1, <2>2, <2>4 DEF TypeOK, OwnerOnly, Pcs
    <3>2. ProposalInv'
      BY <1>1, <2>1, <2>4 DEF ProposalInv, Proposal, OwnerOnly, Settled
    <3>3. BudgetInv'
      <4>1. made <= changes' + failures' + 1
        BY <1>1, <1>2, <2>1 DEF BudgetInv, Budget, OwnerOnly
      <4> QED BY <2>1, <2>4, <4>1 DEF BudgetInv, Budget, OwnerOnly
    <3> QED BY <3>1, <3>2, <3>3 DEF IInv
  <2> QED BY <2>3, <2>4
<1>6. CASE Start
  <2>1. /\ OwnerOnly /\ UNCHANGED <<dirty, seen, tries, failures>>
        /\ pc \in {"down", "halted"} /\ pc' = IF Settled THEN "finalized" ELSE "idle"
    BY <1>6 DEF Start, OwnerOnly, counts
  <2>2. CASE pc = "down"
    <3>1. pc' = "idle"
      BY <2>1, <2>2 DEF Settled
    <3> QED BY <1>1, <2>1, <2>2, <3>1, OwnerMoves DEF TypeOK
  <2>3. CASE pc = "halted"
    <3>1. pc' = "finalized"
      BY <2>1, <2>3 DEF Settled
    <3>2. TypeOK'
      BY <1>1, <2>1, <3>1 DEF TypeOK, OwnerOnly, Pcs
    <3>3. ProposalInv'
      BY <1>1, <2>1, <2>3, <3>1 DEF ProposalInv, Proposal, OwnerOnly, Settled
    <3>4. BudgetInv'
      BY <1>1, <2>1, <3>1 DEF BudgetInv, Budget, OwnerOnly
    <3> QED BY <3>2, <3>3, <3>4 DEF IInv
  <2> QED BY <2>1, <2>2, <2>3
<1> QED BY <1>3, <1>4, <1>5, <1>6 DEF EnvironmentStep

\* Every step.
LEMMA NextIInv == IInv /\ [Next]_vars => IInv'
<1> SUFFICES ASSUME IInv, [Next]_vars PROVE IInv'
  OBVIOUS
<1>1. CASE UNCHANGED vars
  <2>1. UNCHANGED <<remote, local, dirty, inflight, pinned, moves, pc, seen, tries,
                    published, made, changes, failures>>
    BY <1>1 DEF vars, owner, counts
  <2> QED
    BY <2>1 DEF IInv, TypeOK, ProposalInv, Proposal, BudgetInv, Budget, Settled
<1>2. CASE Next
  BY <1>2, OwnerIInv, IdleIInv, DeliverIInv, LoseIInv, EnvironmentIInv
  DEF Next, ServerStep
<1> QED BY <1>1, <1>2

\* The inductive invariant of the lifecycle over races, lost answers, rewritten
\* branches and crashes.
THEOREM Invariance == Spec => []IInv
  BY InitIInv, NextIInv, PTL DEF Spec

\* Type correctness, and with it the bound on the lifecycle commits.
THEOREM TypeCorrect == Spec => []TypeOK
<1>1. IInv => TypeOK
  BY DEF IInv
<1> QED BY <1>1, Invariance, PTL

-----------------------------------------------------------------------------
\* The lifecycle implements LifecycleRecord.

\* Both modules speak of the same histories.
LEMMA SameHistories ==
  /\ Record!Commits = Commits /\ Record!OtherKinds = OtherKinds
  /\ Record!Admitted = Admitted
  /\ \A h : (Record!HasOwn(h) <=> HasOwn(h)) /\ Record!Front(h) = Front(h)
  /\ \A h, m : Record!Compatible(h, m) <=> Compatible(h, m)
<1>1. /\ Record!OtherKinds = OtherKinds /\ Record!Admitted = Admitted
      /\ Record!MaxCommits = MaxCommits
  BY DEF Record!OtherKinds, OtherKinds, Record!Admitted, Admitted,
       Record!MaxCommits, MaxCommits
<1>2. Record!Commits = Commits
  BY <1>1 DEF Record!Commits, Commits
<1>3. \A h : (Record!HasOwn(h) <=> HasOwn(h)) /\ Record!Front(h) = Front(h)
  BY DEF Record!HasOwn, HasOwn, Record!OwnPlaces, OwnPlaces, Record!Front, Front
<1>4. \A h, m : Record!Compatible(h, m) <=> Compatible(h, m)
  <2> SUFFICES ASSUME NEW h, NEW m PROVE Record!Compatible(h, m) <=> Compatible(h, m)
    OBVIOUS
  <2>1. Record!TicketPlaces(h, m) = TicketPlaces(h, m)
    BY DEF Record!TicketPlaces, TicketPlaces
  <2>2. Record!Ancestor(Record!Admitted, h) <=> Ancestor(Admitted, h)
    BY <1>1 DEF Record!Ancestor, Ancestor, Record!IsPrefix, IsPrefix
  <2>3. Record!TicketKept(h, m) <=> TicketKept(h, m)
    BY <2>1, <2>2 DEF Record!TicketKept, TicketKept
  <2>4. Record!Boundary(h) <=> Boundary(h)
    BY DEF Record!Boundary, Boundary
  <2> QED BY <2>3, <2>4 DEF Record!Compatible, Compatible
<1> QED BY <1>1, <1>2, <1>3, <1>4

\* The published branch after a push.
LEMMA DeliverRecords ==
  ASSUME IInv, NEW h \in inflight, Deliver(h)
  PROVE  Record!Record \/ UNCHANGED Record!vars
<1>1. Proposal(h) /\ h \in Seq(Commits)
  BY DEF IInv, ProposalInv, TypeOK
<1>2. UNCHANGED <<moves, pc>>
  BY DEF Deliver, owner
<1>3. CASE remote = Front(h)
  <2>1. remote' = h /\ published' = published \cup {Last(h).n}
    BY <1>3 DEF Deliver
  <2>2. Last(h) \in Commits /\ h = Append(Front(h), Last(h)) /\ Last(h).kind = "lifecycle"
    BY <1>1, FrontAndLast DEF Proposal
  <2>3. ~HasOwn(remote) /\ Compatible(remote, moves)
    BY <1>1, <1>3 DEF Proposal
  <2>4. (published # {})' = TRUE
    BY <2>1
  <2>5. Settled' = Settled
    BY <1>2 DEF Settled
  <2> QED
    BY <1>2, <1>3, <2>1, <2>2, <2>3, <2>4, <2>5, SameHistories DEF Record!Record
<1>4. CASE remote # Front(h)
  <2>1. UNCHANGED <<remote, published>>
    BY <1>4 DEF Deliver
  <2> QED BY <1>2, <2>1 DEF Record!vars, Settled
<1> QED BY <1>3, <1>4

\* Every step is a step of LifecycleRecord, or none.
LEMMA NextRecords == IInv /\ [Next]_vars => [Record!Next]_(Record!vars)
<1> SUFFICES ASSUME IInv, [Next]_vars PROVE Record!Next \/ UNCHANGED Record!vars
  OBVIOUS
<1>1. TypeOK /\ ProposalInv
  BY DEF IInv
<1>2. CASE UNCHANGED vars
  BY <1>2 DEF vars, owner, Record!vars, Settled
<1>3. CASE OwnerStep /\ ~Finalize
  <2>1. UNCHANGED <<remote, published, moves>>
    BY <1>3 DEF OwnerStep, Begin, Fetch, FetchBlocked, Reuse, Align, ObservedBlocked,
         WriteReport, BoundaryBlocked, Commit, CommitFails, Push, PushAccepted,
         PushRejected, PushUnanswered
  <2>2. ~Settled /\ ~Settled'
    BY <1>3 DEF OwnerStep, Begin, Fetch, FetchBlocked, Reuse, Align, ObservedBlocked,
         WriteReport, BoundaryBlocked, Commit, CommitFails, Push, PushAccepted,
         PushRejected, PushUnanswered, Blocked, Retry, Settled
  <2>3. Settled' = Settled
    BY <2>2 DEF Settled
  <2> QED BY <2>1, <2>3 DEF Record!vars
<1>4. CASE Finalize
  <2>1. published # {}
    BY <1>1, <1>4 DEF Finalize, ProposalInv
  <2>2. UNCHANGED <<remote, published, moves>> /\ Settled'
    BY <1>4 DEF Finalize, Settled
  <2> QED BY <2>1, <2>2 DEF Record!Next, Record!Settle
<1>5. CASE IdleStep
  <2>1. UNCHANGED <<remote, published, moves>> /\ Settled /\ Settled'
    BY <1>5 DEF IdleStep, SyncControl, AdmitAdoption, Reobserve, PinDisplaced, Adopt,
         AdoptionFails, owner, Settled
  <2> QED BY <2>1 DEF Record!vars
<1>6. CASE ServerStep
  <2>1. PICK h \in inflight : Deliver(h) \/ Lose(h)
    BY <1>6 DEF ServerStep
  <2>2. CASE Deliver(h)
    BY <2>2, DeliverRecords DEF Record!Next
  <2>3. CASE Lose(h)
    BY <2>3 DEF Lose, owner, Record!vars, Settled
  <2> QED BY <2>1, <2>2, <2>3
<1>7. CASE OthersCommit \/ OthersRewrite
  <2>1. UNCHANGED <<moves, pc, published>>
    BY <1>7, OthersShape
  <2>2. Settled' = Settled /\ (published # {})' = (published # {})
    BY <2>1 DEF Settled
  <2>3. \E c \in Commits :
           \/ c.kind \in OtherKinds /\ remote' = Append(remote, c)
           \/ c.kind = "other" /\ remote' = Append(Front(remote), c)
    BY <1>7, OthersShape
  <2> QED
    BY <2>1, <2>2, <2>3, SameHistories
    DEF Record!Next, Record!OthersCommit, Record!OthersRewrite
<1>8. CASE OperatorCleans \/ Crash \/ Start
  <2>1. UNCHANGED <<remote, published, moves>>
    BY <1>8 DEF OperatorCleans, Crash, Start
  <2>2. Settled' = Settled
    BY <1>8 DEF OperatorCleans, Crash, Start, owner, Settled
  <2> QED BY <2>1, <2>2 DEF Record!vars
<1> QED
  BY <1>2, <1>3, <1>4, <1>5, <1>6, <1>7, <1>8 DEF Next, EnvironmentStep

\* _apply_execution_lifecycle implements the promise of LifecycleRecord: one
\* lifecycle commit, on a history that permits it, published before the
\* execution is given up.
THEOREM Implements == Spec => RecordedOnce
<1>1. Init => Record!Init
  BY SameHistories DEF Init, Record!Init, Settled
<1> QED BY <1>1, Invariance, NextRecords, PTL DEF Spec, RecordedOnce, Record!Spec

-----------------------------------------------------------------------------
\* What the control worktree gives up.

\* _apply_execution_lifecycle, _sync_control, _reconcile_control_owned: no
\* commit leaves the control worktree except the service's own unpublished one
\* and those that a recovery ref already holds.
THEOREM WorktreeKeeps == Spec => NothingDiscarded
<1>1. IInv /\ [Next]_vars =>
        [\A i \in DOMAIN local :
           \/ local[i] \in Range(local')
           \/ \E p \in pinned : local[i] \in Range(p.from)
           \/ ~Settled /\ local[i].kind = "lifecycle"]_vars
  <2> SUFFICES ASSUME IInv, [Next]_vars, NEW i \in DOMAIN local
               PROVE  \/ local[i] \in Range(local')
                      \/ \E p \in pinned : local[i] \in Range(p.from)
                      \/ ~Settled /\ local[i].kind = "lifecycle"
    OBVIOUS
  <2>1. /\ local \in Seq(Commits) /\ seen \in Seq(Commits) /\ remote \in Seq(Commits)
        /\ local # <<>>
    BY DEF IInv, TypeOK
  <2>2. CASE UNCHANGED local
    BY <2>2 DEF Range
  <2>3. CASE Reuse
    BY <2>1, <2>3, AncestorKeeps DEF Reuse, CanReuse
  <2>4. CASE Align
    <3>1. CASE Ancestor(local, seen)
      BY <2>1, <2>4, <3>1, AncestorKeeps DEF Align
    <3>2. CASE Replayable
      <4>1. Front(local) \in Seq(Commits)
        /\ (i \in DOMAIN Front(local) \/ local[i] = Last(local))
        /\ (i \in DOMAIN Front(local) => local[i] = Front(local)[i])
        BY <2>1, FrontAndLast
      <4>2. CASE i \in DOMAIN Front(local)
        BY <2>1, <2>4, <3>2, <4>1, <4>2, AncestorKeeps DEF Align, Replayable
      <4>3. CASE local[i] = Last(local)
        BY <2>4, <3>2, <4>3 DEF Align, Replayable, Settled
      <4> QED BY <4>1, <4>2, <4>3
    <3> QED BY <2>4, <3>1, <3>2 DEF Align, CanAlign
  <2>5. CASE Commit
    <3> DEFINE c == [kind |-> "lifecycle", n |-> made + 1]
    <3>1. local' = Append(local, c)
      BY <2>5 DEF Commit
    <3> HIDE DEF c
    <3>2. local \in Seq(Commits \cup {c}) /\ c \in Commits \cup {c}
      BY <2>1
    <3>3. /\ DOMAIN local' = 1..(Len(local) + 1) /\ DOMAIN local = 1..Len(local)
          /\ local'[i] = local[i]
      BY <3>1, <3>2, AppendEnds
    <3>4. i \in DOMAIN local' /\ local'[i] = local[i]
      BY <2>1, <3>3
    <3> QED BY <3>4 DEF Range
  <2>6. CASE SyncControl
    BY <2>1, <2>6, AncestorKeeps DEF SyncControl
  <2>7. CASE Adopt
    <3>1. [from |-> local, to |-> seen] \in pinned
      BY <2>7 DEF Adopt, IInv, ProposalInv
    <3>2. local[i] \in Range([from |-> local, to |-> seen].from)
      BY DEF Range
    <3> QED BY <3>1, <3>2
  <2>8. CASE OwnerStep /\ ~Reuse /\ ~Align /\ ~Commit
    BY <2>2, <2>8 DEF OwnerStep, Begin, Fetch, FetchBlocked, ObservedBlocked,
         WriteReport, BoundaryBlocked, CommitFails, Push, PushAccepted,
         PushRejected, PushUnanswered, Finalize
  <2>9. CASE IdleStep /\ ~SyncControl /\ ~Adopt
    BY <2>2, <2>9 DEF IdleStep, AdmitAdoption, Reobserve, PinDisplaced, AdoptionFails
  <2>10. CASE ServerStep \/ EnvironmentStep
    BY <2>2, <2>10 DEF ServerStep, Deliver, Lose, EnvironmentStep, OthersCommit,
         OthersRewrite, OperatorCleans, Crash, Start
  <2>11. CASE UNCHANGED vars
    BY <2>2, <2>11 DEF vars
  <2> QED
    BY <2>3, <2>4, <2>5, <2>6, <2>7, <2>8, <2>9, <2>10, <2>11 DEF Next
<1> QED BY <1>1, Invariance, PTL DEF Spec, NothingDiscarded
=============================================================================
