---------------------- MODULE AcceptedIntegrationProofs ----------------------
(***************************************************************************)
(* Proofs about AcceptedIntegration, for any number of commits by others,  *)
(* of crashes and of failed git operations.                                *)
(***************************************************************************)
EXTENDS AcceptedIntegration, TLAPS

-----------------------------------------------------------------------------
\* Histories.

\* A prefix, element by element.
LEMMA PrefixElements ==
  ASSUME NEW S, NEW s \in Seq(S), NEW t \in Seq(S)
  PROVE  IsPrefix(s, t) <=>
           Len(s) <= Len(t) /\ \A i \in 1..Len(s) : s[i] = t[i]
<1>1. CASE Len(s) <= Len(t)
  <2>1. /\ SubSeq(s, 1, Len(s)) \in Seq(S) /\ Len(SubSeq(s, 1, Len(s))) = Len(s)
        /\ \A i \in 1..Len(s) : SubSeq(s, 1, Len(s))[i] = s[i]
    OBVIOUS
  <2>2. /\ SubSeq(t, 1, Len(s)) \in Seq(S) /\ Len(SubSeq(t, 1, Len(s))) = Len(s)
        /\ \A i \in 1..Len(s) : SubSeq(t, 1, Len(s))[i] = t[i]
    BY <1>1
  <2>3. (\A i \in 1..Len(s) : s[i] = t[i]) => SubSeq(s, 1, Len(s)) = SubSeq(t, 1, Len(s))
    BY <1>1, <2>1, <2>2
  <2>4. SubSeq(s, 1, Len(s)) = SubSeq(t, 1, Len(s)) => \A i \in 1..Len(s) : s[i] = t[i]
    BY <2>1, <2>2
  <2> QED BY <1>1, <2>3, <2>4 DEF IsPrefix
<1>2. CASE ~(Len(s) <= Len(t))
  BY <1>2 DEF IsPrefix
<1> QED BY <1>1, <1>2

\* A history that grows keeps its prefixes.
LEMMA PrefixGrows ==
  ASSUME NEW S, NEW s \in Seq(S), NEW t \in Seq(S), NEW x \in S, IsPrefix(s, t)
  PROVE  IsPrefix(s, Append(t, x))
<1>1. Append(t, x) \in Seq(S) /\ Len(Append(t, x)) = Len(t) + 1
  OBVIOUS
<1>2. \A i \in 1..Len(t) : Append(t, x)[i] = t[i]
  OBVIOUS
<1>3. Len(s) <= Len(t) /\ \A i \in 1..Len(s) : s[i] = t[i]
  BY PrefixElements
<1>4. Len(s) \in Nat /\ Len(t) \in Nat
  OBVIOUS
<1>5. Len(s) <= Len(Append(t, x)) /\ \A i \in 1..Len(s) : s[i] = Append(t, x)[i]
  BY <1>1, <1>2, <1>3, <1>4
<1> QED BY <1>1, <1>5, PrefixElements

\* Every history is a prefix of itself.
LEMMA PrefixSelf ==
  ASSUME NEW S, NEW s \in Seq(S)
  PROVE  IsPrefix(s, s)
  BY PrefixElements

\* The last commit and the rest of a history.
LEMMA AppendEnds ==
  ASSUME NEW S, NEW s \in Seq(S), NEW x \in S
  PROVE  /\ Append(s, x) \in Seq(S) /\ Append(s, x) # <<>>
         /\ Front(Append(s, x)) = s /\ Last(Append(s, x)) = x
<1>1. Append(s, x) \in Seq(S) /\ Len(Append(s, x)) = Len(s) + 1
  OBVIOUS
<1> DEFINE a == Append(s, x)
<1>2. Len(s) \in Nat /\ a[Len(a)] = x /\ \A i \in 1..Len(s) : a[i] = s[i]
  OBVIOUS
<1> HIDE DEF a
<1>3. /\ SubSeq(a, 1, Len(s)) \in Seq(S) /\ Len(SubSeq(a, 1, Len(s))) = Len(s)
      /\ \A i \in 1..Len(s) : SubSeq(a, 1, Len(s))[i] = a[i]
  BY <1>1, <1>2 DEF a
<1>4. SubSeq(a, 1, Len(s)) = s
  BY <1>2, <1>3
<1>5. Len(a) - 1 = Len(s) /\ a # <<>> /\ a \in Seq(S)
  BY <1>1, <1>2 DEF a
<1> QED BY <1>2, <1>4, <1>5 DEF Front, Last, a

\* A history that was put together from a front and a last commit.
LEMMA FrontEnds ==
  ASSUME NEW S, NEW s \in Seq(S), s # <<>>
  PROVE  /\ Front(s) \in Seq(S) /\ Len(Front(s)) = Len(s) - 1 /\ IsPrefix(Front(s), s)
         /\ Len(s) \in Nat \ {0} /\ Last(s) = s[Len(s)] /\ Front(s) # s
         /\ SubSeq(s, 1, Len(s)) = s
<1>1. Len(s) \in Nat \ {0}
  OBVIOUS
<1>2. /\ Front(s) \in Seq(S) /\ Len(Front(s)) = Len(s) - 1
      /\ \A i \in 1..(Len(s) - 1) : Front(s)[i] = s[i]
  <2> DEFINE n == Len(s) - 1
  <2>1. n \in Nat /\ n <= Len(s)
    BY <1>1
  <2> HIDE DEF n
  <2>2. /\ SubSeq(s, 1, n) \in Seq(S) /\ Len(SubSeq(s, 1, n)) = n
        /\ \A i \in 1..n : SubSeq(s, 1, n)[i] = s[i]
    BY <2>1
  <2> QED BY <2>2 DEF Front, n
<1>3. IsPrefix(Front(s), s)
  BY <1>1, <1>2, PrefixElements
<1>4. SubSeq(s, 1, Len(s)) = s
  OBVIOUS
<1> QED BY <1>1, <1>2, <1>3, <1>4 DEF Last

-----------------------------------------------------------------------------
\* What the service reads off the two histories.

\* The commits of the model are commits.
LEMMA CommitTyped ==
  /\ \A n \in Nat : Commit("integration", n) \in Commits
  /\ \A k \in OtherKinds, n \in 1..MaxChanges : Commit(k, n) \in Commits
  /\ Accepted \in Seq(Commits) /\ Base \in Seq(Commits) /\ NoHead \in Seq(Commits)
  /\ \A k, n : Commit(k, n).kind = k
<1>1. /\ \A n \in Nat : Commit("integration", n) \in Commits
      /\ \A k \in OtherKinds, n \in 1..MaxChanges : Commit(k, n) \in Commits
      /\ Commit("accept", 0) \in Commits /\ Commit("base", 0) \in Commits
  BY DEF Commit, Commits
<1>2. /\ Accepted \in Seq(Commits) /\ Base \in Seq(Commits) /\ NoHead \in Seq(Commits)
  BY <1>1 DEF Accepted, Base, NoHead
<1> QED BY <1>1, <1>2 DEF Commit

\* The checkpoint is a history that begins with its base.
LEMMA CheckpointTyped ==
  Checkpoint \in Seq(Commits) /\ IsPrefix(Base, Checkpoint)
<1>1. Commit("result", 0) \in Commits
  BY DEF Commit, Commits
<1>2. Base \in Seq(Commits)
  BY CommitTyped
<1>3. /\ IsPrefix(Base, Base) /\ IsPrefix(Base, Append(Base, Commit("result", 0)))
      /\ Append(Base, Commit("result", 0)) \in Seq(Commits)
  BY <1>1, <1>2, PrefixSelf, PrefixGrows
<1> QED BY <1>2, <1>3 DEF Checkpoint

\* What each class says.
LEMMA Classes ==
  ASSUME NEW parent, NEW here, NEW there
  PROVE  /\ Classify(parent, here, there) = "published" <=>
              /\ there # parent /\ IsPrefix(parent, there)
              /\ Exact(SubSeq(there, 1, Len(parent) + 1), parent)
         /\ Classify(parent, here, there) = "unpublished" => Exact(here, parent)
  BY DEF Classify

\* A published move stays published when the branch grows.
LEMMA PublishedGrows ==
  ASSUME NEW parent \in Seq(Commits), NEW here, NEW there \in Seq(Commits),
         NEW x \in Commits, Classify(parent, here, there) = "published"
  PROVE  Classify(parent, here, Append(there, x)) = "published"
<1> DEFINE grown == Append(there, x)
           n == Len(parent) + 1
<1>1. /\ there # parent /\ IsPrefix(parent, there) /\ Exact(SubSeq(there, 1, n), parent)
  BY Classes
<1>2. /\ grown \in Seq(Commits) /\ Len(grown) = Len(there) + 1
      /\ \A i \in 1..Len(there) : grown[i] = there[i]
  OBVIOUS
<1>3. Len(parent) \in Nat /\ Len(there) \in Nat
  OBVIOUS
<1>4. Len(parent) <= Len(there) /\ \A i \in 1..Len(parent) : parent[i] = there[i]
  BY <1>1, PrefixElements
<1>5. Len(parent) # Len(there)
  BY <1>1, <1>4
<1>6. n \in Nat /\ 1 <= n /\ n <= Len(there) /\ n <= Len(grown)
  BY <1>2, <1>3, <1>4, <1>5
<1>7. grown # parent /\ IsPrefix(parent, grown)
  BY <1>1, <1>2, <1>3, <1>4, PrefixGrows
<1> HIDE DEF grown, n
<1>8. SubSeq(grown, 1, n) = SubSeq(there, 1, n)
  <2>1. /\ SubSeq(grown, 1, n) \in Seq(Commits) /\ Len(SubSeq(grown, 1, n)) = n
        /\ \A i \in 1..n : SubSeq(grown, 1, n)[i] = grown[i]
    BY <1>2, <1>6
  <2>2. /\ SubSeq(there, 1, n) \in Seq(Commits) /\ Len(SubSeq(there, 1, n)) = n
        /\ \A i \in 1..n : SubSeq(there, 1, n)[i] = there[i]
    BY <1>6
  <2>3. \A i \in 1..n : grown[i] = there[i]
    BY <1>2, <1>3, <1>6
  <2> QED BY <2>1, <2>2, <2>3
<1> QED BY <1>1, <1>7, <1>8, Classes DEF grown, n

\* A move to done directly on top of its parent is published once it is the
\* head of the branch.
LEMMA ExactIsPublished ==
  ASSUME NEW h \in Seq(Commits), h # <<>>, Last(h).kind \in {"integration", "done"}, NEW here
  PROVE  Classify(Front(h), here, h) = "published"
<1>1. /\ Front(h) \in Seq(Commits) /\ Len(Front(h)) = Len(h) - 1 /\ IsPrefix(Front(h), h)
      /\ Len(h) \in Nat \ {0} /\ Front(h) # h /\ SubSeq(h, 1, Len(h)) = h
  BY FrontEnds
<1>2. Len(Front(h)) + 1 = Len(h)
  BY <1>1
<1>3. Exact(h, Front(h))
  BY DEF Exact
<1> QED BY <1>1, <1>2, <1>3, Classes

\* A published move is one of the commits of the branch.
LEMMA PublishedIsThere ==
  ASSUME NEW parent \in Seq(Commits), NEW here, NEW there \in Seq(Commits),
         Classify(parent, here, there) = "published"
  PROVE  \E i \in DOMAIN there : there[i].kind \in {"integration", "done"}
<1> DEFINE n == Len(parent) + 1
           s == SubSeq(there, 1, n)
<1>1. /\ there # parent /\ IsPrefix(parent, there) /\ Exact(s, parent)
  BY Classes
<1>2. Len(parent) \in Nat /\ Len(there) \in Nat
  OBVIOUS
<1>3. Len(parent) <= Len(there) /\ \A i \in 1..Len(parent) : parent[i] = there[i]
  BY <1>1, PrefixElements
<1>4. Len(parent) # Len(there)
  BY <1>1, <1>3
<1>5. n \in 1..Len(there)
  BY <1>2, <1>3, <1>4
<1>6. Len(s) = n /\ s[n] = there[n]
  <2> HIDE DEF n
  <2> QED BY <1>5
<1>7. s[n].kind \in {"integration", "done"}
  BY <1>1, <1>6 DEF Exact, Last
<1> QED BY <1>5, <1>6, <1>7

-----------------------------------------------------------------------------
\* The product branch.

\* The product branch keeps its base, and the checkpoint once it has it.
ProductKept ==
  /\ product' \in Seq(Commits) /\ IsPrefix(Base, product')
  /\ IsPrefix(Checkpoint, product) => IsPrefix(Checkpoint, product')

\* A push that the server accepts, refuses or leaves without an answer.
LEMMA PushKeepsProduct ==
  ASSUME TypeOK, BaseKept, ProductAccepts \/ UNCHANGED product
  PROVE  ProductKept
<1>1. Checkpoint \in Seq(Commits) /\ IsPrefix(Base, Checkpoint)
      /\ IsPrefix(Checkpoint, Checkpoint)
  BY CheckpointTyped, PrefixSelf
<1>2. product' = product \/ product' = Checkpoint
  BY DEF ProductAccepts
<1> QED BY <1>1, <1>2 DEF ProductKept, TypeOK, BaseKept

\* A commit by somebody else.
LEMMA OthersKeepProduct ==
  ASSUME TypeOK, BaseKept, OthersProduct
  PROVE  ProductKept
<1>1. changes' \in 1..MaxChanges
  BY BoundsAssumption DEF OthersProduct, CanChange, TypeOK
<1> DEFINE x == Commit("other", changes')
<1>2. x \in Commits /\ product' = Append(product, x) /\ product \in Seq(Commits)
  BY <1>1, CommitTyped DEF OthersProduct, OtherKinds, TypeOK
<1> HIDE DEF x
<1>3. Base \in Seq(Commits) /\ Checkpoint \in Seq(Commits)
  BY CommitTyped, CheckpointTyped
<1>4. IsPrefix(Base, product')
  BY <1>2, <1>3, PrefixGrows DEF BaseKept
<1>5. IsPrefix(Checkpoint, product) => IsPrefix(Checkpoint, product')
  BY <1>2, <1>3, PrefixGrows
<1>6. product' \in Seq(Commits)
  BY <1>2
<1> QED BY <1>4, <1>5, <1>6 DEF ProductKept

\* The checkpoint of a zero-delta result is its base.
LEMMA ZeroIsPublished == ASSUME BaseKept, zero PROVE IsPrefix(Checkpoint, product)
  BY DEF BaseKept, Checkpoint

-----------------------------------------------------------------------------
\* The steps.

Special == {"moved", "publish", "republish", "finish", "plan"}

\* A step that leaves the control branch and the intent alone and enters no
\* place the invariant says something special of.
LEMMA QuietStep ==
  ASSUME IInv, UNCHANGED <<pending, remote, local, zero>>, ProductKept, TypeOK',
         pc' \in AfterProduct => pc \in AfterProduct \/ IsPrefix(Checkpoint, product),
         pc' \in Special => pc' = pc
  PROVE  IInv'
<1>1. Checkpoint' = Checkpoint /\ Base' = Base /\ NoHead' = NoHead
  BY DEF Checkpoint, Base, NoHead, Commit
<1>2. BaseKept'
  BY <1>1 DEF ProductKept, BaseKept
<1>3. ProductFirst'
  BY <1>1 DEF ProductKept, ProductFirst, IInv, Integrated
<1>4. MoveOnIntent' /\ PushIsExact' /\ PlanIsFree'
  BY <1>1 DEF Special, IInv, MoveOnIntent, PushIsExact, PlanIsFree
<1>5. FinishIsEarned'
  BY DEF Special, IInv, FinishIsEarned, Published
<1> QED BY <1>2, <1>3, <1>4, <1>5 DEF IInv

\* The steps up to the completion preserve the inductive invariant.
LEMMA ProductStepIInv ==
  ASSUME IInv,
         \/ PlanOther \/ ObserveZeroDelta \/ Retire \/ ObserveProduct \/ PushProduct
         \/ PushProductFails \/ ProveProduct \/ SyncCheckout \/ ProductBlocked
         \/ CompleteBlocked \/ GitFails
         \/ OthersProduct \/ OperatorCleans \/ Crash \/ Start
  PROVE  IInv'
<1>0. TypeOK /\ BaseKept
  BY DEF IInv
<1>1. UNCHANGED <<pending, remote, local, zero, made>>
  BY DEF PlanOther, ObserveZeroDelta, Retire, ObserveProduct, PushProduct,
    PushProductFails, ProveProduct, SyncCheckout, ProductBlocked, CompleteBlocked,
    GitFails, OthersProduct, OperatorCleans, Crash, Start, persistent, counts
<1>2. ProductAccepts \/ UNCHANGED product \/ OthersProduct
  BY DEF PlanOther, ObserveZeroDelta, Retire, ObserveProduct, PushProduct,
    PushProductFails, ProveProduct, SyncCheckout, ProductBlocked, CompleteBlocked,
    GitFails, OperatorCleans, Crash, Start, persistent
<1>3. ProductKept
  BY <1>0, <1>2, PushKeepsProduct, OthersKeepProduct
<1>4. /\ dirty' \in BOOLEAN /\ branch' \in BOOLEAN /\ pc' \in Pcs
      /\ known' \in {known, product}
  BY <1>0 DEF TypeOK, Pcs, PlanOther, ObserveZeroDelta, Retire, ObserveProduct, PushProduct,
    PushProductFails, ProveProduct, SyncCheckout, ProductBlocked, CompleteBlocked,
    GitFails, OthersProduct, OperatorCleans, Crash, Start, persistent, counts, Goto, Blocked
<1>5. changes' \in 0..MaxChanges /\ failures' \in 0..MaxFailures
  <2>1. /\ UNCHANGED changes \/ CanChange
        /\ UNCHANGED failures \/ (failures < MaxFailures /\ failures' = failures + 1)
    BY DEF PlanOther, ObserveZeroDelta, Retire, ObserveProduct, PushProduct,
      PushProductFails, ProveProduct, SyncCheckout, ProductBlocked, CompleteBlocked,
      GitFails, OthersProduct, OperatorCleans, Crash, Start, counts
  <2> QED BY <1>0, <2>1, BoundsAssumption DEF TypeOK, CanChange
<1>6. TypeOK'
  BY <1>0, <1>1, <1>3, <1>4, <1>5 DEF TypeOK, ProductKept, Commits
<1>7. pc' \in Special => pc' = pc
  BY DEF Special, PlanOther, ObserveZeroDelta, Retire, ObserveProduct, PushProduct,
    PushProductFails, ProveProduct, SyncCheckout, ProductBlocked, CompleteBlocked,
    GitFails, OthersProduct, OperatorCleans, Crash, Start, Goto, Blocked
<1>8. pc' \in AfterProduct =>
        \/ pc \in AfterProduct
        \/ ObserveZeroDelta
        \/ ProveProduct
  BY DEF AfterProduct, PlanOther, ObserveZeroDelta, Retire, ObserveProduct, PushProduct,
    PushProductFails, ProveProduct, SyncCheckout, ProductBlocked, CompleteBlocked,
    GitFails, OthersProduct, OperatorCleans, Crash, Start, Goto, Blocked
<1>9. ObserveZeroDelta \/ ProveProduct => IsPrefix(Checkpoint, product)
  BY <1>0, ZeroIsPublished DEF ObserveZeroDelta, ProveProduct, IsAncestor
<1> QED BY <1>1, <1>3, <1>6, <1>7, <1>8, <1>9, QuietStep

\* The steps of the intent and of the control branch preserve it.
LEMMA ControlStepIInv ==
  ASSUME IInv,
         \/ SyncControl \/ FetchProduct \/ Admit \/ MoveTicket \/ CommitMove
         \/ RecognizePublished \/ RecognizeUnpublished \/ PublishControl
         \/ PublishControlFails \/ Finish \/ OthersControl
  PROVE  IInv'
<1>0. /\ TypeOK /\ BaseKept /\ ProductFirst /\ MoveOnIntent /\ PushIsExact
      /\ FinishIsEarned /\ PlanIsFree
  BY DEF IInv
<1>1. UNCHANGED <<product, zero, branch>>
  BY DEF SyncControl, FetchProduct, Admit, MoveTicket, CommitMove, RecognizePublished,
    RecognizeUnpublished, PublishControl, PublishControlFails, Finish, OthersControl,
    persistent
<1>2. /\ Checkpoint' = Checkpoint /\ Base' = Base /\ NoHead' = NoHead
      /\ NoHead \in Seq(Commits) /\ BaseKept'
  BY <1>0, <1>1, CommitTyped DEF Checkpoint, Base, NoHead, Commit, BaseKept
<1>3. /\ pending \in Seq(Commits) /\ remote \in Seq(Commits) /\ local \in Seq(Commits)
      /\ made \in Nat /\ changes \in 0..MaxChanges /\ failures \in 0..MaxFailures
  BY <1>0 DEF TypeOK
<1>a. ASSUME pending' \in Seq(Commits), remote' \in Seq(Commits), local' \in Seq(Commits),
             dirty' \in BOOLEAN, pc' \in Pcs, known' \in {known, product}, made' \in Nat,
             changes' \in 0..MaxChanges, failures' \in 0..MaxFailures
      PROVE  TypeOK'
  BY <1>0, <1>1, <1>a DEF TypeOK, Commits
<1>b. ASSUME pc' \in AfterProduct => pc \in AfterProduct,
             Integrated(local') => pc \in AfterProduct \/ Integrated(local) \/ Integrated(remote),
             Integrated(remote') => pc \in AfterProduct \/ Integrated(local) \/ Integrated(remote)
      PROVE  ProductFirst'
  BY <1>0, <1>1, <1>2, <1>b DEF ProductFirst, Integrated
<1>c. ASSUME TypeOK', pc' \notin Special, pc' \in AfterProduct => pc \in AfterProduct,
             local' \in {local, remote}, remote' \in {local, remote}
      PROVE  IInv'
  <2>1. ProductFirst'
    BY <1>b, <1>c
  <2>2. MoveOnIntent' /\ PushIsExact' /\ PlanIsFree' /\ FinishIsEarned'
    BY <1>c DEF Special, MoveOnIntent, PushIsExact, PlanIsFree, FinishIsEarned
  <2> QED BY <1>2, <1>c, <2>1, <2>2 DEF IInv
<1>d. ASSUME failures < MaxFailures, failures' = failures + 1
      PROVE  failures' \in 0..MaxFailures
  BY <1>3, <1>d, BoundsAssumption
<1>4. CASE SyncControl
  <2>1. /\ pc' = "fetch" /\ local' \in {local, remote}
        /\ UNCHANGED <<pending, remote, dirty, known, made, changes, failures>>
    BY <1>4 DEF SyncControl, Goto, counts
  <2>2. TypeOK'
    BY <1>0, <1>3, <1>a, <2>1 DEF TypeOK, Pcs
  <2> QED BY <1>c, <2>1, <2>2 DEF Special, AfterProduct
<1>5. CASE FetchProduct
  <2>1. /\ pc = "fetch" /\ pc' \in {"plan", "integrate"} /\ known' = product
        /\ pc' = "plan" => pending = NoHead
        /\ UNCHANGED <<pending, remote, local, dirty, made, changes, failures>>
    BY <1>5 DEF FetchProduct, Goto, persistent, counts
  <2>2. TypeOK'
    BY <1>0, <1>3, <1>a, <2>1 DEF TypeOK, Pcs
  <2>3. ProductFirst'
    BY <1>b, <2>1 DEF AfterProduct
  <2>4. MoveOnIntent' /\ PushIsExact' /\ PlanIsFree' /\ FinishIsEarned'
    BY <1>2, <2>1 DEF MoveOnIntent, PushIsExact, PlanIsFree, FinishIsEarned
  <2> QED BY <1>2, <2>2, <2>3, <2>4 DEF IInv
<1>6. CASE Admit
  <2>1. /\ pc' = "integrate" /\ pending' = local
        /\ UNCHANGED <<remote, local, dirty, known, made, changes, failures>>
    BY <1>6 DEF Admit, Goto, counts
  <2>2. TypeOK'
    BY <1>0, <1>3, <1>a, <2>1 DEF TypeOK, Pcs
  <2> QED BY <1>c, <2>1, <2>2 DEF Special, AfterProduct
<1>7. CASE MoveTicket
  <2>1. /\ pc = "complete" /\ pc' = "moved" /\ dirty' = TRUE
        /\ local = IF zero THEN local ELSE pending
        /\ UNCHANGED <<pending, remote, local, known, made, changes, failures>>
    BY <1>7 DEF MoveTicket, MayMove, ExpectedHead, Goto, counts
  <2>2. TypeOK'
    BY <1>0, <1>3, <1>a, <2>1 DEF TypeOK, Pcs
  <2>3. ProductFirst'
    BY <1>b, <2>1 DEF AfterProduct
  <2>4. MoveOnIntent' /\ PushIsExact' /\ PlanIsFree' /\ FinishIsEarned'
    BY <1>1, <2>1 DEF MoveOnIntent, PushIsExact, PlanIsFree, FinishIsEarned
  <2> QED BY <1>2, <2>2, <2>3, <2>4 DEF IInv
<1>8. CASE CommitMove
  <2> DEFINE x == Commit("integration", made')
  <2>1. /\ pc = "moved" /\ pc' = "publish" /\ dirty' = FALSE /\ made' = made + 1
        /\ local' = Append(local, x)
        /\ UNCHANGED <<pending, remote, known, changes, failures>>
    BY <1>8 DEF CommitMove, Goto
  <2>2. x \in Commits /\ x.kind = "integration"
    <3>1. made' \in Nat
      BY <1>3, <2>1
    <3> QED BY <3>1, CommitTyped
  <2> HIDE DEF x
  <2>3. local' \in Seq(Commits) /\ local' # <<>> /\ Front(local') = local /\ Last(local') = x
    BY <1>3, <2>1, <2>2, AppendEnds
  <2>4. TypeOK'
    <3>1. made' \in Nat
      BY <1>3, <2>1
    <3>3. dirty' \in BOOLEAN /\ pc' \in Pcs /\ known' \in {known, product}
      BY <2>1 DEF Pcs
    <3>2. /\ pending' \in Seq(Commits) /\ remote' \in Seq(Commits)
          /\ changes' \in 0..MaxChanges /\ failures' \in 0..MaxFailures
      BY <1>3, <2>1
    <3> QED BY <1>a, <2>3, <3>1, <3>2, <3>3
  <2>5. ProductFirst'
    BY <1>b, <2>1 DEF AfterProduct
  <2>6. PushIsExact'
    BY <1>0, <1>1, <2>1, <2>2, <2>3 DEF MoveOnIntent, PushIsExact
  <2>7. MoveOnIntent' /\ PlanIsFree' /\ FinishIsEarned'
    BY <2>1 DEF MoveOnIntent, PlanIsFree, FinishIsEarned
  <2> QED BY <1>2, <2>4, <2>5, <2>6, <2>7 DEF IInv
<1>9. CASE RecognizePublished
  <2>1. /\ pc = "complete" /\ pc' = "finish"
        /\ Classify(IF zero THEN local ELSE pending, local, remote) = "published"
        /\ UNCHANGED <<pending, remote, local, dirty, known, made, changes, failures>>
    BY <1>9 DEF RecognizePublished, ExpectedHead, Goto, persistent, counts
  <2>2. TypeOK'
    BY <1>0, <1>3, <1>a, <2>1 DEF TypeOK, Pcs
  <2>3. ProductFirst'
    BY <1>b, <2>1 DEF AfterProduct
  <2>4. MoveOnIntent' /\ PushIsExact' /\ PlanIsFree'
    BY <2>1 DEF MoveOnIntent, PushIsExact, PlanIsFree
  <2>5. Published
    BY <1>3, <2>1, PublishedIsThere DEF Published
  <2>6. FinishIsEarned'
    BY <1>1, <2>1, <2>5 DEF FinishIsEarned, Published
  <2> QED BY <1>2, <2>2, <2>3, <2>4, <2>6 DEF IInv
<1>10. CASE RecognizeUnpublished
  <2>1. /\ pc = "complete" /\ pc' = "republish"
        /\ Classify(IF zero THEN local ELSE pending, local, remote) = "unpublished"
        /\ UNCHANGED <<pending, remote, local, dirty, known, made, changes, failures>>
    BY <1>10 DEF RecognizeUnpublished, ExpectedHead, Goto, persistent, counts
  <2>2. TypeOK'
    BY <1>0, <1>3, <1>a, <2>1 DEF TypeOK, Pcs
  <2>3. ProductFirst'
    BY <1>b, <2>1 DEF AfterProduct
  <2>4. MoveOnIntent' /\ PlanIsFree' /\ FinishIsEarned'
    BY <2>1 DEF MoveOnIntent, PlanIsFree, FinishIsEarned
  <2>5. Exact(local, IF zero THEN local ELSE pending)
    BY <2>1, Classes
  <2>6. PushIsExact'
    BY <1>1, <2>1, <2>5 DEF PushIsExact, Exact
  <2> QED BY <1>2, <2>2, <2>3, <2>4, <2>6 DEF IInv
<1>11. CASE PublishControl
  <2>1. /\ pc \in {"publish", "republish"} /\ pc' = "finish" /\ remote' = local
        /\ UNCHANGED <<pending, local, dirty, known, made, changes, failures>>
    BY <1>11 DEF PublishControl, ControlAccepts, counts
  <2>2. TypeOK'
    BY <1>0, <1>3, <1>a, <2>1 DEF TypeOK, Pcs
  <2>3. ProductFirst'
    BY <1>b, <2>1 DEF AfterProduct
  <2>4. MoveOnIntent' /\ PushIsExact' /\ PlanIsFree'
    BY <2>1 DEF MoveOnIntent, PushIsExact, PlanIsFree
  <2>5. /\ local # <<>> /\ Last(local).kind \in {"integration", "done"}
        /\ ~zero => Front(local) = pending
    BY <1>0, <2>1 DEF PushIsExact
  <2>6. Classify(Front(local), local, local) = "published"
    BY <1>3, <2>5, ExactIsPublished
  <2>7. \E i \in DOMAIN local : local[i].kind \in {"integration", "done"}
    <3>1. Len(local) \in DOMAIN local
      BY <1>3, <2>5
    <3> QED BY <2>5, <3>1 DEF Last
  <2>8. FinishIsEarned'
    BY <1>1, <2>1, <2>5, <2>6, <2>7 DEF FinishIsEarned, Published
  <2> QED BY <1>2, <2>2, <2>3, <2>4, <2>8 DEF IInv
<1>12. CASE PublishControlFails
  <2>1. /\ pc' = "idle" /\ remote' \in {local, remote}
        /\ UNCHANGED <<pending, local, dirty, known, made, changes>>
        /\ UNCHANGED failures \/ (failures < MaxFailures /\ failures' = failures + 1)
    BY <1>12 DEF PublishControlFails, ControlAccepts, Blocked
  <2>2. failures' \in 0..MaxFailures
    BY <1>3, <1>d, <2>1
  <2>3. TypeOK'
    BY <1>0, <1>3, <1>a, <2>1, <2>2 DEF TypeOK, Pcs
  <2> QED BY <1>c, <2>1, <2>3 DEF Special, AfterProduct
<1>13. CASE Finish
  <2>1. /\ pc' = "idle" /\ pending' = NoHead
        /\ UNCHANGED <<remote, local, dirty, known, made, changes, failures>>
    BY <1>13 DEF Finish, Goto, counts
  <2>2. TypeOK'
    BY <1>0, <1>2, <1>3, <1>a, <2>1 DEF TypeOK, Pcs
  <2> QED BY <1>c, <2>1, <2>2 DEF Special, AfterProduct
<1>14. CASE OthersControl
  <2>1. PICK k \in OtherKinds : remote' = Append(remote, Commit(k, changes'))
    BY <1>14 DEF OthersControl
  <2>2. UNCHANGED <<pending, local, dirty, pc, known, made, failures>>
    BY <1>14 DEF OthersControl
  <2>3. changes' \in 1..MaxChanges /\ changes' \in 0..MaxChanges
    BY <1>3, <1>14, BoundsAssumption DEF OthersControl, CanChange
  <2> DEFINE x == Commit(k, changes')
  <2>4. x \in Commits /\ x.kind # "integration" /\ remote' = Append(remote, x)
    BY <2>1, <2>3, CommitTyped DEF OtherKinds
  <2> HIDE DEF x
  <2>5. /\ remote' \in Seq(Commits) /\ Len(remote') = Len(remote) + 1
        /\ remote'[Len(remote) + 1] = x
        /\ \A i \in 1..Len(remote) : remote'[i] = remote[i]
    BY <1>3, <2>4
  <2>6. TypeOK'
    BY <1>0, <1>3, <1>a, <2>2, <2>3, <2>5 DEF TypeOK
  <2>7. Integrated(remote') => Integrated(remote)
    <3>1. Len(remote) \in Nat /\ DOMAIN remote = 1..Len(remote)
          /\ DOMAIN remote' = 1..(Len(remote) + 1)
      BY <1>3, <2>5
    <3>2. 1..(Len(remote) + 1) = 1..Len(remote) \cup {Len(remote) + 1}
      BY <3>1
    <3> QED BY <2>4, <2>5, <3>1, <3>2 DEF Integrated
  <2>8. ProductFirst'
    BY <1>b, <2>2, <2>7
  <2>9. MoveOnIntent' /\ PushIsExact' /\ PlanIsFree'
    BY <1>0, <1>1, <1>2, <2>2 DEF MoveOnIntent, PushIsExact, PlanIsFree
  <2>10. FinishIsEarned'
    <3> SUFFICES ASSUME pc' = "finish" PROVE Published'
      BY DEF FinishIsEarned
    <3>1. Published
      BY <1>0, <2>2 DEF FinishIsEarned
    <3>2. CASE zero
      BY <1>1, <1>3, <2>5, <3>1, <3>2 DEF Published
    <3>3. CASE ~zero
      BY <1>1, <1>3, <2>2, <2>4, <3>1, <3>3, PublishedGrows DEF Published
    <3> QED BY <3>2, <3>3
  <2> QED BY <1>2, <2>6, <2>8, <2>9, <2>10 DEF IInv
<1> QED BY <1>4, <1>5, <1>6, <1>7, <1>8, <1>9, <1>10, <1>11, <1>12, <1>13, <1>14

-----------------------------------------------------------------------------
\* The theorems.

\* The initial states satisfy the inductive invariant.
LEMMA InitIInv == ASSUME Init PROVE IInv
<1>1. TypeOK
  <2>1. 0 \in 0..MaxChanges /\ 0 \in 0..MaxFailures /\ 0 \in Nat
    BY BoundsAssumption
  <2> QED BY <2>1, CommitTyped DEF Init, TypeOK, Pcs
<1>2. BaseKept
  BY CommitTyped, PrefixSelf DEF Init, BaseKept
<1>3. ~Integrated(Accepted)
  BY DEF Integrated, Accepted, Commit
<1> QED BY <1>1, <1>2, <1>3 DEF Init, IInv, ProductFirst, AfterProduct, MoveOnIntent,
      PushIsExact, FinishIsEarned, PlanIsFree

\* Every step preserves the inductive invariant.
LEMMA NextIInv == ASSUME IInv, [Next]_vars PROVE IInv'
<1>1. CASE Next
  BY <1>1, ProductStepIInv, ControlStepIInv DEF Next, OwnerStep, EnvironmentStep
<1>2. CASE UNCHANGED vars
  <2>1. UNCHANGED <<pending, remote, local, dirty, product, zero, branch, pc, known, made,
                    changes, failures>>
    BY <1>2 DEF vars, persistent, counts
  <2>2. TypeOK' /\ ProductKept
    BY <2>1 DEF IInv, TypeOK, Commits, ProductKept, BaseKept
  <2> QED BY <2>1, <2>2, QuietStep
<1> QED BY <1>1, <1>2

\* The inductive invariant holds in every reachable state, for any number of
\* commits by others and of failures.
THEOREM Invariance == Spec => []IInv
<1>1. Init => IInv
  BY InitIInv
<1>2. IInv /\ [Next]_vars => IInv'
  BY NextIInv
<1> QED BY <1>1, <1>2, PTL DEF Spec

\* The service's move to done is published only when the product branch holds
\* the accepted checkpoint (_integrate_accepted before _complete_accepted).
THEOREM DoneIntegrated == Spec => []DoneImpliesIntegrated
<1>1. IInv => DoneImpliesIntegrated
  BY DEF IInv, ProductFirst, Integrated, DoneImpliesIntegrated
<1> QED BY <1>1, Invariance, PTL

\* A move to done that the service publishes for a changed product sits directly
\* on the control head saved with the intent (_complete_accepted).
THEOREM Rooted == Spec => RootedAtIntent
<1> DEFINE Step == ~zero /\ remote' # remote /\ Last(remote').kind = "integration" =>
                     Front(remote') = pending
<1>1. IInv /\ [Next]_vars => [Step]_vars
  <2> SUFFICES ASSUME IInv, Next, ~zero, remote' # remote,
                      Last(remote').kind = "integration"
               PROVE  Front(remote') = pending
    OBVIOUS
  <2>1. PublishControl \/ PublishControlFails \/ OthersControl
    BY DEF Next, OwnerStep, EnvironmentStep, SyncControl, FetchProduct, PlanOther, Admit,
      ObserveZeroDelta, Retire, ObserveProduct, PushProduct, PushProductFails,
      ProveProduct, SyncCheckout, ProductBlocked, MoveTicket, CommitMove,
      RecognizePublished, RecognizeUnpublished, CompleteBlocked, Finish, GitFails,
      OthersProduct, OperatorCleans, Crash, Start, persistent
  <2>2. CASE PublishControl \/ PublishControlFails
    <3>1. pc \in {"publish", "republish"} /\ remote' = local
      BY <2>2 DEF PublishControl, PublishControlFails, ControlAccepts
    <3> QED BY <3>1 DEF IInv, PushIsExact
  <2>3. CASE OthersControl
    <3>1. PICK k \in OtherKinds : remote' = Append(remote, Commit(k, changes'))
      BY <2>3 DEF OthersControl
    <3>2. changes' \in 1..MaxChanges /\ remote \in Seq(Commits)
      BY <2>3, BoundsAssumption DEF OthersControl, CanChange, IInv, TypeOK
    <3> DEFINE x == Commit(k, changes')
    <3>3. x \in Commits /\ x.kind # "integration" /\ remote' = Append(remote, x)
      BY <3>1, <3>2, CommitTyped DEF OtherKinds
    <3> HIDE DEF x
    <3>4. Last(remote') = x
      BY <3>2, <3>3, AppendEnds
    <3> QED BY <3>3, <3>4
  <2> QED BY <2>1, <2>2, <2>3
<1>2. Spec => [][Step]_vars
  BY <1>1, Invariance, PTL DEF Spec
<1> QED BY <1>2 DEF RootedAtIntent

\* The intent is given up only when the product holds the checkpoint and the
\* control branch goes on from the saved head with the move to done
\* (_recover_accepted_integration, _complete_accepted).
THEOREM IntentKept == Spec => IntentKeptUntilDone
<1> DEFINE Step ==
      pending # NoHead /\ pending' = NoHead =>
        IF zero
        THEN \E i \in DOMAIN remote : remote[i].kind \in {"integration", "done"}
        ELSE /\ IsPrefix(Checkpoint, product)
             /\ Classify(pending, local, remote) = "published"
<1>1. IInv /\ [Next]_vars => [Step]_vars
  <2> SUFFICES ASSUME IInv, Next, pending # NoHead, pending' = NoHead
               PROVE  Step
    OBVIOUS
  <2>1. Admit \/ Finish
    BY DEF Next, OwnerStep, EnvironmentStep, SyncControl, FetchProduct, PlanOther,
      ObserveZeroDelta, Retire, ObserveProduct, PushProduct, PushProductFails,
      ProveProduct, SyncCheckout, ProductBlocked, MoveTicket, CommitMove,
      RecognizePublished, RecognizeUnpublished, CompleteBlocked, PublishControl,
      PublishControlFails, GitFails, OthersControl, OthersProduct, OperatorCleans, Crash,
      Start, persistent
  <2>2. pc = "finish"
    BY <2>1 DEF Admit, Finish, Goto, IInv, PlanIsFree
  <2>3. Published /\ IsPrefix(Checkpoint, product)
    BY <2>2 DEF IInv, FinishIsEarned, ProductFirst, AfterProduct
  <2> QED BY <2>3 DEF Published
<1>2. Spec => [][Step]_vars
  BY <1>1, Invariance, PTL DEF Spec
<1> QED BY <1>2 DEF IntentKeptUntilDone
=============================================================================
