------------------------ MODULE WorkspaceExitsProofs ------------------------
(***************************************************************************)
(* Proofs about WorkspaceExits, for any number of executions, of changes   *)
(* by others, of faults and of operator commands.                          *)
(***************************************************************************)
EXTENDS WorkspaceExits, SequenceTheorems, FiniteSetTheorems, TLAPS

-----------------------------------------------------------------------------
\* Commits as sequences.

\* A prefix, element by element.
LEMMA PrefixElements ==
  ASSUME NEW S, NEW s \in Seq(S), NEW t \in Seq(S)
  PROVE  IsPrefix(s, t) <=>
           Len(s) <= Len(t) /\ \A i \in 1..Len(s) : s[i] = t[i]
<1>1. CASE Len(s) <= Len(t)
  <2>1. /\ SubSeq(s, 1, Len(s)) \in Seq(S) /\ Len(SubSeq(s, 1, Len(s))) = Len(s)
        /\ \A i \in 1..Len(s) : SubSeq(s, 1, Len(s))[i] = s[i]
    OBVIOUS
  <2>2. /\ SubSeq(t, 1, Len(s)) \in Seq(S) /\ Len(SubSeq(t, 1, Len(s))) = Len(s)
        /\ \A i \in 1..Len(s) : SubSeq(t, 1, Len(s))[i] = t[i]
    BY <1>1
  <2>3. (\A i \in 1..Len(s) : s[i] = t[i]) <=> SubSeq(s, 1, Len(s)) = SubSeq(t, 1, Len(s))
    BY <2>1, <2>2, SeqEqual
  <2> QED BY <1>1, <2>3 DEF IsPrefix
<1>2. CASE ~(Len(s) <= Len(t))
  BY <1>2 DEF IsPrefix
<1> QED BY <1>1, <1>2

\* Reachability is reflexive and transitive.
LEMMA PrefixOrder ==
  ASSUME NEW S, NEW s \in Seq(S), NEW t \in Seq(S), NEW u \in Seq(S)
  PROVE  /\ IsPrefix(s, s)
         /\ IsPrefix(s, t) /\ IsPrefix(t, u) => IsPrefix(s, u)
<1>1. Len(s) \in Nat /\ Len(t) \in Nat /\ Len(u) \in Nat
  OBVIOUS
<1>2. IsPrefix(s, s)
  BY <1>1, PrefixElements
<1>3. ASSUME IsPrefix(s, t), IsPrefix(t, u) PROVE IsPrefix(s, u)
  <2>1. Len(s) <= Len(t) /\ \A i \in 1..Len(s) : s[i] = t[i]
    BY <1>3, PrefixElements
  <2>2. Len(t) <= Len(u) /\ \A i \in 1..Len(t) : t[i] = u[i]
    BY <1>3, PrefixElements
  <2>3. Len(s) <= Len(u) /\ \A i \in 1..Len(s) : s[i] = u[i]
    BY <1>1, <2>1, <2>2
  <2> QED BY <2>3, PrefixElements
<1> QED BY <1>2, <1>3

\* A new commit keeps what the old one reached, and is a commit.
LEMMA Committing ==
  ASSUME NEW S, NEW s \in Seq(S), NEW x \in S
  PROVE  /\ Append(s, x) \in Seq(S) /\ Append(s, x) # <<>>
         /\ IsPrefix(s, Append(s, x)) /\ Last(Append(s, x)) = x
         /\ s # <<>> => Head(Append(s, x)) = Head(s)
         /\ \A i \in DOMAIN Append(s, x) : Append(s, x)[i] = x \/
              (i \in DOMAIN s /\ Append(s, x)[i] = s[i])
<1> DEFINE a == Append(s, x)
<1>1. /\ a \in Seq(S) /\ a # <<>> /\ Len(a) = Len(s) + 1
      /\ \A i \in 1..Len(s) : a[i] = s[i]
      /\ a[Len(s) + 1] = x
  BY AppendProperties
<1>2. s # <<>> => Head(a) = Head(s)
  BY HeadTailAppend
<1>3. Len(s) \in Nat /\ DOMAIN s = 1..Len(s) /\ DOMAIN a = 1..Len(a)
  BY <1>1
<1> HIDE DEF a
<1>4. IsPrefix(s, a)
  BY <1>1, <1>3, PrefixElements
<1>5. \A i \in DOMAIN a : i = Len(s) + 1 \/ i \in DOMAIN s
  BY <1>1, <1>3
<1>6. Last(a) = x
  BY <1>1 DEF Last
<1> QED BY <1>1, <1>2, <1>3, <1>4, <1>5, <1>6 DEF a

\* Only no commit is reachable from no commit.
LEMMA NothingFromNone ==
  ASSUME NEW S, NEW s \in Seq(S), IsPrefix(s, <<>>)
  PROVE  s = <<>>
  BY DEF IsPrefix

-----------------------------------------------------------------------------
\* Types.

StOK ==
  st \in [phase : Phases, exec : 0..MaxExecs, base : Known, start : Known,
          remote : Known, report : Known, recovery : Known, resume : BOOLEAN]

PlacesOK ==
  /\ product \in {<<0>>, <<0, 0>>}
  /\ branch \in Known /\ tree \in {"none", "clean", "dirty"} /\ remote \in Known
  /\ refs \in [RefNames -> Known]

HistoryOK ==
  /\ disposition \in [Execs -> {"none", "dropping", "dropped"}]
  /\ reports \subseteq [exec : Execs, head : Known]
  /\ made \subseteq Seq(0..Others)
  /\ \A c \in made : c # None /\ Head(c) = 0 /\ Last(c) \in 1..Others

OwnerOK ==
  /\ pc \in Pcs /\ mem \in [saw : Known, replay : BOOLEAN]
  /\ bounds \in [moves : 0..MaxMoves, faults : 0..MaxFaults,
                 commands : 0..MaxCommands]

\* The parts of the type invariant.
LEMMA TypeParts ==
  /\ TypeOK <=> StOK /\ PlacesOK /\ HistoryOK /\ OwnerOK
  /\ (TypeOK <=> StOK /\ PlacesOK /\ HistoryOK /\ OwnerOK)'
  BY DEF TypeOK, StOK, PlacesOK, HistoryOK, OwnerOK

\* There may be new commits: what a step leaves alone keeps its type.
LEMMA TypesGrow ==
  ASSUME TypeOK, Known \subseteq Known'
  PROVE  /\ UNCHANGED st => StOK'
         /\ UNCHANGED <<product, branch, tree, remote, refs>> => PlacesOK'
         /\ UNCHANGED <<disposition, reports, made>> => HistoryOK'
         /\ UNCHANGED <<pc, mem, bounds>> => OwnerOK'
<1>1. StOK /\ PlacesOK /\ HistoryOK /\ OwnerOK
  BY TypeParts
<1>3. UNCHANGED st => StOK'
  BY <1>1 DEF StOK
<1>4. UNCHANGED <<product, branch, tree, remote, refs>> => PlacesOK'
  <2>1. SUFFICES ASSUME UNCHANGED <<product, branch, tree, remote, refs>>
                 PROVE  PlacesOK'
    OBVIOUS
  <2>2. \A r \in RefNames : refs[r] \in Known'
    BY <1>1 DEF PlacesOK
  <2>3. refs \in [RefNames -> Known']
    BY <1>1, <2>2 DEF PlacesOK
  <2>4. RefNames' = RefNames
    BY DEF RefNames, Execs
  <2> QED BY <1>1, <2>1, <2>3, <2>4 DEF PlacesOK
<1>5. UNCHANGED <<disposition, reports, made>> => HistoryOK'
  BY <1>1 DEF HistoryOK
<1>6. UNCHANGED <<pc, mem, bounds>> => OwnerOK'
  BY <1>1 DEF OwnerOK
<1> QED BY <1>3, <1>4, <1>5, <1>6

\* The same for a step that makes no commit.
LEMMA TypesKept ==
  ASSUME TypeOK, UNCHANGED <<product, made>>
  PROVE  /\ Known' = Known
         /\ UNCHANGED st => StOK'
         /\ UNCHANGED <<branch, tree, remote, refs>> => PlacesOK'
         /\ UNCHANGED <<disposition, reports>> => HistoryOK'
         /\ UNCHANGED <<pc, mem, bounds>> => OwnerOK'
<1>1. Known' = Known
  BY DEF Known
<1> QED BY <1>1, TypesGrow

\* Every commit there is: a sequence, and one of the product or on top of it.
LEMMA KnownCommits ==
  ASSUME TypeOK
  PROVE  /\ None \in Known /\ product \in Known /\ made \subseteq Known
         /\ \A c \in Known : c \in Seq(0..Others) /\ (c # None => Head(c) = 0)
         /\ product # None /\ 0 \in 0..Others /\ Others \in 0..Others
         /\ Others \in 1..Others /\ Execs \subseteq 1..Others /\ Others \notin Execs
         /\ 0 \notin Execs
<1>1. /\ 0 \in 0..Others /\ Others \in 0..Others /\ Others \in 1..Others
      /\ Execs \subseteq 1..Others /\ Others \notin Execs /\ 0 \notin Execs
  BY BoundsAssumption DEF Others, Execs
<1>2. <<0>> \in Seq(0..Others) /\ Head(<<0>>) = 0 /\ <<0>> # <<>>
  BY <1>1
<1>3. <<0, 0>> \in Seq(0..Others) /\ Head(<<0, 0>>) = 0 /\ <<0, 0>> # <<>>
  BY <1>1
<1>4. product \in Seq(0..Others) /\ Head(product) = 0 /\ product # <<>>
  BY <1>2, <1>3 DEF TypeOK
<1>5. \A c \in made : c \in Seq(0..Others) /\ Head(c) = 0
  BY DEF TypeOK
<1>6. <<>> \in Seq(0..Others)
  OBVIOUS
<1> QED BY <1>1, <1>2, <1>4, <1>5, <1>6 DEF Known, None

-----------------------------------------------------------------------------
\* What steps keep.

\* No ref that holds a commit is moved.
RefsGrow == \A r \in RefNames : refs[r] = None \/ refs'[r] = refs[r]

\* Nothing is lost by a step that makes no commit, if the heads it moves are
\* held by a ref.
LEMMA StillReachable ==
  ASSUME TypeOK, NothingLost, made' = made, RefsGrow,
         branch = None \/ branch' = branch \/ Held(branch),
         remote = None \/ remote' = remote \/ Held(remote)
  PROVE  NothingLost'
<1>1. SUFFICES ASSUME NEW c \in made
               PROVE  \E h \in {branch', remote'} \cup {refs'[r] : r \in RefNames} :
                        IsPrefix(c, h)
  BY DEF NothingLost
<1>2. c \in Seq(0..Others) /\ c # None
  BY DEF TypeOK
<1>3. PICK h \in {branch, remote} \cup {refs[r] : r \in RefNames} : IsPrefix(c, h)
  BY DEF NothingLost
<1>4. h # None
  BY <1>2, <1>3, NothingFromNone DEF None
<1>5. CASE \E r \in RefNames : refs[r] = h
  BY <1>3, <1>4, <1>5 DEF RefsGrow
<1>6. CASE h = branch
  <2>1. branch' = branch \/ \E r \in RefNames : refs[r] = h
    BY <1>4, <1>6 DEF Held
  <2> QED BY <1>3, <1>5, <1>6, <2>1
<1>7. CASE h = remote
  <2>1. remote' = remote \/ \E r \in RefNames : refs[r] = h
    BY <1>4, <1>7 DEF Held
  <2> QED BY <1>3, <1>5, <1>7, <2>1
<1> QED BY <1>3, <1>5, <1>6, <1>7

\* A commit that a ref holds stays held.
LEMMA HeldKept ==
  ASSUME RefsGrow, NEW c, Held(c)
  PROVE  c = None \/ \E r \in RefNames : refs'[r] = c
  BY DEF RefsGrow, Held

\* A ref is pinned.
LEMMA Pinning ==
  ASSUME TypeOK, NEW r \in RefNames, NEW c \in Known, Pinnable(r, c),
         refs' = Pinned(r, c)
  PROVE  RefsGrow /\ refs'[r] = c /\ refs' \in [RefNames -> Known]
<1>1. refs \in [RefNames -> Known] /\ refs[r] \in {None, c}
  BY DEF TypeOK, Pinnable
<1>2. refs' = [refs EXCEPT ![r] = c]
  BY DEF Pinned
<1> QED BY <1>1, <1>2 DEF RefsGrow

\* What a step writes is free of what was dropped, and it drops nothing more.
LEMMA FreeMoves ==
  ASSUME \A e \in Execs : Dropped(e)' => Dropped(e),
         Free(branch'), Free(remote'), Free(st'.base), Free(st'.report),
         \A e \in Execs : disposition'[e] # "none" =>
           e <= st'.exec /\ (Active(e)' => st'.phase = "lifecycle")
  PROVE  FreeInv'
<1>1. Free(branch)' /\ Free(remote)' /\ Free(st.base)' /\ Free(st.report)'
  BY DEF Free
<1> QED BY <1>1 DEF FreeInv

\* Nothing was dropped with no commit, nor with the product's.
LEMMA FreeCommits ==
  ASSUME TypeOK
  PROVE  Free(None) /\ Free(product)
<1>1. \A i \in DOMAIN product : product[i] = 0
  BY DEF TypeOK
<1> QED BY <1>1, KnownCommits DEF Free, None

\* A step that leaves the record alone and moves a head only to the base or
\* away.
LEMMA FreeKept ==
  ASSUME FreeInv, UNCHANGED <<st, disposition>>,
         branch' \in {branch, None, st.base},
         remote' \in {remote, None, st.base}
  PROVE  FreeInv'
<1>1. \A e \in Execs : Dropped(e)' <=> Dropped(e)
  BY DEF Dropped, Active
<1>2. Free(None)
  BY DEF Free, None
<1>3. Free(branch') /\ Free(remote') /\ Free(st.base) /\ Free(st.report)
  BY <1>2 DEF FreeInv
<1>4. \A e \in Execs : disposition'[e] # "none" =>
        e <= st'.exec /\ (Active(e)' => st'.phase = "lifecycle")
  BY DEF FreeInv, Active
<1> QED BY <1>1, <1>3, <1>4, FreeMoves

\* The owner is back in its loop, with nothing in hand.
LEMMA Returned ==
  ASSUME IInv, UNCHANGED <<st, product, branch, tree, remote, refs, disposition,
                           reports, made>>,
         pc' = "loop", mem' = NoMem,
         bounds' \in [moves : 0..MaxMoves, faults : 0..MaxFaults,
                      commands : 0..MaxCommands]
  PROVE  IInv'
<1>1. TypeOK /\ NothingLost /\ PlaceInv /\ HeldInv /\ FreeInv /\ RetiredInv
  BY DEF IInv
<1>2. StOK' /\ PlacesOK' /\ HistoryOK' /\ Known' = Known
  BY <1>1, TypesKept
<1>3. OwnerOK'
  BY <1>1, <1>2, KnownCommits DEF OwnerOK, NoMem, Pcs
<1>4. NothingLost'
  BY <1>1 DEF NothingLost
<1>5. PlaceInv' /\ HeldInv' /\ RetiredInv'
  BY <1>1 DEF PlaceInv, HeldInv, RetiredInv, DropPcs, PendingPcs, RetryPcs
<1>6. FreeInv'
  BY <1>1, FreeKept
<1> QED BY <1>2, <1>3, <1>4, <1>5, <1>6, TypeParts DEF IInv

\* An error leaves everything as it is.
LEMMA ReturnIInv ==
  ASSUME IInv, Return, UNCHANGED <<st, product, branch, tree, remote, refs,
                                   disposition, reports, made>>
  PROVE  IInv'
<1>1. bounds' \in [moves : 0..MaxMoves, faults : 0..MaxFaults,
                   commands : 0..MaxCommands]
  BY DEF IInv, TypeOK, Return
<1> QED BY <1>1, Returned DEF Return

\* A step from one place of the owner to another that leaves the record, the
\* commits, the dispositions and the reports alone.
LEMMA Goes ==
  ASSUME TypeOK, NEW p \in Pcs, Goto(p), UNCHANGED <<product, made>>
  PROVE  OwnerOK' /\ pc' = p /\ mem' = mem
<1>1. Known' = Known
  BY TypesKept
<1> QED BY <1>1, TypeParts DEF OwnerOK, Goto

\* A step whose checks decide where the owner goes on.
LEMMA Checked ==
  ASSUME TypeOK, NEW p \in Pcs, NEW ok, Check(ok, p), UNCHANGED <<product, made>>
  PROVE  /\ OwnerOK'
         /\ IF ok THEN pc' = p /\ mem' = mem ELSE pc' = "loop" /\ mem' = NoMem
<1>1. CASE ok
  BY <1>1, Goes DEF Check
<1>2. CASE ~ok
  <2>1. Return
    BY <1>2 DEF Check
  <2>2. Known' = Known
    BY TypesKept
  <2>3. OwnerOK'
    BY <2>1, <2>2, KnownCommits, TypeParts DEF OwnerOK, Return, NoMem, Pcs
  <2> QED BY <1>2, <2>1, <2>3 DEF Return
<1> QED BY <1>1, <1>2

\* A step that makes no commit, leaves the record alone and moves only a head
\* that is held: what is left to show is where it leads.
LEMMA Moved ==
  ASSUME IInv, UNCHANGED <<st, product, disposition, reports, made>>,
         branch' \in {branch, None, st.base},
         branch' = branch \/ branch = None \/ Held(branch),
         remote' \in {remote, None, st.base},
         remote' = remote \/ remote = None \/ Held(remote),
         tree' \in {"none", "clean", "dirty"},
         RefsGrow, refs' \in [RefNames -> Known],
         OwnerOK', PlaceInv', HeldInv', RetiredInv'
  PROVE  IInv'
<1>1. TypeOK /\ NothingLost /\ FreeInv
  BY DEF IInv
<1>2. StOK' /\ HistoryOK' /\ Known' = Known
  BY <1>1, TypesKept
<1>3. branch' \in Known /\ remote' \in Known
  BY <1>1, KnownCommits, TypeParts DEF StOK, PlacesOK
<1>4. PlacesOK'
  BY <1>1, <1>2, <1>3, TypeParts DEF PlacesOK
<1>5. NothingLost'
  BY <1>1, StillReachable
<1>6. FreeInv'
  BY <1>1, FreeKept
<1> QED BY <1>2, <1>4, <1>5, <1>6, TypeParts DEF IInv

\* What a ref holds for a step that is under way it still holds.
LEMMA HoldsOn ==
  ASSUME HeldInv, RefsGrow, st' = st
  PROVE  /\ pc \in {"dispose", "unpublish", "untree", "unbranch"} => Held(st.report)'
         /\ pc \in {"rivals", "retire", "vacate", "move"} => Held(st.recovery)'
         /\ pc \in {"retire", "clear", "reset"} /\ mem' = mem => Held(mem.saw)'
<1>1. ASSUME NEW c, Held(c) PROVE c = None \/ \E r \in RefNames : refs'[r] = c
  BY <1>1, HeldKept
<1> QED BY <1>1 DEF HeldInv, Held

\* No ref is touched.
LEMMA RefsAsTheyWere ==
  ASSUME TypeOK, refs' = refs
  PROVE  RefsGrow /\ refs' \in [RefNames -> Known]
  BY DEF TypeOK, RefsGrow

\* The owner sets out on something.
LEMMA Enter ==
  ASSUME IInv, UNCHANGED <<st, product, branch, tree, remote, refs, disposition,
                           reports, made>>, OwnerOK',
         \/ pc' \in {"prepare", "repair", "recover"} /\ st.phase = "pending"
         \/ pc' = "intent" /\ st.phase = "lifecycle"
         \/ pc' = "checkpoint" /\ st.phase = "stranded"
  PROVE  IInv'
<1>1. TypeOK /\ PlaceInv /\ tree \in {"none", "clean", "dirty"}
  BY DEF IInv, TypeOK
<1>2. PlaceInv'
  BY <1>1 DEF PlaceInv, DropPcs, PendingPcs, RetryPcs
<1>3. HeldInv' /\ RetiredInv'
  BY DEF HeldInv, RetiredInv
<1> QED BY <1>1, <1>2, <1>3, RefsAsTheyWere, Moved

-----------------------------------------------------------------------------
\* The steps of an execution that is about to start.

\* The branch and the worktree are prepared.
LEMMA ExecutionSteps ==
  ASSUME IInv, ExecutionStep, ~Launch
  PROVE  IInv'
<1>0. TypeOK /\ PlaceInv /\ HeldInv /\ tree \in {"none", "clean", "dirty"}
  BY DEF IInv, TypeOK
<1>1. CASE ResumePending
  <2>1. \E p \in {"prepare", "repair"} : Goto(p)
    BY <1>1 DEF ResumePending
  <2>2. OwnerOK' /\ pc' \in {"prepare", "repair"}
    BY <1>0, <1>1, <2>1, Goes DEF ResumePending, world, Pcs
  <2> QED BY <1>1, <2>2, Enter DEF ResumePending, world
<1>2. CASE EnsureBranch
  <2> DEFINE ok == Descends(branch')
  <2>1. Check(ok, "attach") /\ pc = "prepare" /\ st.phase = "pending"
    BY <1>0, <1>2 DEF EnsureBranch, PlaceInv, PendingPcs
  <2>2. /\ OwnerOK'
        /\ IF ok THEN pc' = "attach" /\ mem' = mem ELSE pc' = "loop" /\ mem' = NoMem
    BY <1>0, <1>2, <2>1, Checked DEF EnsureBranch, Pcs
  <2> HIDE DEF ok
  <2>3. branch' # None
    BY <1>0, <1>2, <2>1 DEF EnsureBranch, PlaceInv
  <2>4. PlaceInv'
    BY <1>0, <1>2, <2>1, <2>2, <2>3 DEF EnsureBranch, PlaceInv, DropPcs, PendingPcs, RetryPcs
  <2>5. HeldInv' /\ RetiredInv'
    BY <2>2 DEF HeldInv, RetiredInv
  <2>6. branch' \in {branch, st.base} /\ (branch' = branch \/ branch = None)
    BY <1>2 DEF EnsureBranch
  <2> QED BY <1>0, <1>2, <2>2, <2>4, <2>5, <2>6, RefsAsTheyWere, Moved DEF EnsureBranch
<1>3. CASE AddWorktree
  <2>1. st.phase = "pending" /\ branch # None /\ OwnerOK' /\ pc' = "launch"
    BY <1>0, <1>3, Goes DEF AddWorktree, PlaceInv, PendingPcs, Pcs
  <2>2. PlaceInv'
    BY <1>0, <1>3, <2>1 DEF AddWorktree, PlaceInv, DropPcs, PendingPcs, RetryPcs
  <2>3. HeldInv' /\ RetiredInv'
    BY <2>1 DEF HeldInv, RetiredInv
  <2> QED BY <1>0, <1>3, <2>1, <2>2, <2>3, RefsAsTheyWere, Moved DEF AddWorktree
<1> QED BY <1>1, <1>2, <1>3 DEF ExecutionStep

-----------------------------------------------------------------------------
\* The steps of a drop.

\* The disposition of the execution at hand, which has its lifecycle before
\* it: nothing is dropped yet that was not.
LEMMA Disposing ==
  ASSUME IInv, pc \in DropPcs, UNCHANGED <<st, product, branch, tree, remote, refs,
                                           reports, made>>,
         NEW d \in {"none", "dropping", "dropped"},
         disposition' = [disposition EXCEPT ![st.exec] = d],
         OwnerOK', PlaceInv', HeldInv', RetiredInv'
  PROVE  IInv'
<1>1. /\ TypeOK /\ NothingLost /\ FreeInv /\ st.phase = "lifecycle"
      /\ st.exec \in Execs
  BY DEF IInv, PlaceInv
<1>2. StOK' /\ PlacesOK' /\ Known' = Known
  BY <1>1, TypesKept
<1>3. HistoryOK'
  BY <1>1, <1>2, TypeParts DEF HistoryOK
<1>4. NothingLost'
  BY <1>1 DEF NothingLost
<1>5. \A e \in Execs : e # st.exec => disposition'[e] = disposition[e]
  BY <1>1, TypeParts DEF HistoryOK
<1>6. \A e \in Execs : Dropped(e)' => Dropped(e)
  BY <1>1, <1>5 DEF Dropped, Active
<1>7. \A e \in Execs : disposition'[e] # "none" =>
        e <= st'.exec /\ (Active(e)' => st'.phase = "lifecycle")
  <2>1. st.exec \in Nat
    BY <1>1 DEF Execs
  <2> QED BY <1>1, <1>5, <2>1 DEF FreeInv, Active
<1>8. FreeInv'
  BY <1>1, <1>6, <1>7, FreeMoves DEF FreeInv
<1> QED BY <1>2, <1>3, <1>4, <1>8, TypeParts DEF IInv

\* The drop goes on, pinning before it removes.
LEMMA DropSteps ==
  ASSUME IInv, DropStep, ~ForgetDropped
  PROVE  IInv'
<1>0. /\ TypeOK /\ PlaceInv /\ HeldInv /\ RetiredInv
      /\ tree \in {"none", "clean", "dirty"}
  BY DEF IInv, TypeOK
<1>00. pc \in DropPcs => st.phase = "lifecycle" /\ st.exec \in Execs
  BY <1>0 DEF PlaceInv
<1>1. CASE ResumeDrop
  <2>1. OwnerOK' /\ pc' = "intent"
    BY <1>0, <1>1, Goes DEF ResumeDrop, world, Pcs
  <2> QED BY <1>1, <2>1, Enter DEF ResumeDrop, world
<1>2. CASE PersistDropIntent
  <2>1. OwnerOK' /\ pc' = "pin" /\ pc \in DropPcs
    BY <1>0, <1>2, Goes DEF PersistDropIntent, Pcs, DropPcs
  <2>2. PICK d \in {"none", "dropping", "dropped"} :
          disposition' = [disposition EXCEPT ![st.exec] = d]
    <3>1. disposition[st.exec] \in {"none", "dropping", "dropped"}
      BY <1>0, <1>00, <2>1 DEF TypeOK
    <3> QED BY <1>2, <3>1 DEF PersistDropIntent
  <2>3. PlaceInv' /\ HeldInv' /\ RetiredInv'
    BY <1>0, <1>00, <1>2, <2>1 DEF PersistDropIntent, PlaceInv, HeldInv, RetiredInv,
         DropPcs, PendingPcs, RetryPcs
  <2> QED BY <1>2, <2>1, <2>2, <2>3, Disposing DEF PersistDropIntent
<1>3. CASE PinDropEvidence
  <2> DEFINE r == <<"drop", st.exec>>
             ok == Pinnable(r, st.report)
  <2>1. /\ refs' = Same(refs, ok, Pinned(r, st.report)) /\ Check(ok, "dispose")
        /\ pc \in DropPcs
    BY <1>3 DEF PinDropEvidence, DropPcs
  <2>2. r \in RefNames /\ st.report \in Known
    BY <1>0, <1>00, <2>1, TypeParts DEF RefNames, StOK
  <2>3. /\ OwnerOK'
        /\ IF ok THEN pc' = "dispose" /\ mem' = mem ELSE pc' = "loop" /\ mem' = NoMem
    BY <1>0, <1>3, <2>1, Checked DEF PinDropEvidence, Pcs
  <2>4. RefsGrow /\ refs' \in [RefNames -> Known] /\ (ok => refs'[r] = st.report)
    <3> HIDE DEF r
    <3>1. CASE ok
      BY <1>0, <2>1, <2>2, <3>1, Pinning DEF Same
    <3>2. CASE ~ok
      BY <1>0, <2>1, <3>2, RefsAsTheyWere DEF Same
    <3> QED BY <3>1, <3>2
  <2> HIDE DEF r, ok
  <2>5. PlaceInv' /\ RetiredInv'
    BY <1>0, <1>00, <1>3, <2>1, <2>3 DEF PinDropEvidence, PlaceInv, RetiredInv,
         DropPcs, PendingPcs, RetryPcs
  <2>6. HeldInv'
    BY <1>3, <2>2, <2>3, <2>4 DEF PinDropEvidence, HeldInv, Held
  <2> QED BY <1>0, <1>3, <2>3, <2>4, <2>5, <2>6, Moved DEF PinDropEvidence
<1>4. CASE Dispose
  <2>1. OwnerOK' /\ pc' = "unpublish" /\ mem' = mem /\ pc \in DropPcs
    BY <1>0, <1>4, Goes DEF Dispose, Pcs, DropPcs
  <2>2. PlaceInv' /\ HeldInv' /\ RetiredInv'
    BY <1>0, <1>00, <1>4, <2>1 DEF Dispose, PlaceInv, HeldInv, RetiredInv, Held,
         DropPcs, PendingPcs, RetryPcs
  <2> QED BY <1>4, <2>1, <2>2, Disposing DEF Dispose
<1>5. CASE RetireRemote
  <2> DEFINE ok == remote \in {None, st.report}
  <2>1. remote' = Same(remote, ok, None) /\ Check(ok, "untree") /\ pc \in DropPcs
    BY <1>5 DEF RetireRemote, DropPcs
  <2>2. /\ OwnerOK'
        /\ IF ok THEN pc' = "untree" /\ mem' = mem ELSE pc' = "loop" /\ mem' = NoMem
    BY <1>0, <1>5, <2>1, Checked DEF RetireRemote, Pcs
  <2>3. remote' = remote \/ (remote' = None /\ (remote = None \/ Held(remote)))
    BY <1>0, <1>5, <2>1 DEF RetireRemote, HeldInv, Same
  <2>4. ok => remote' = None
    BY <2>1 DEF Same
  <2> HIDE DEF ok
  <2>5. PlaceInv' /\ RetiredInv'
    BY <1>0, <1>00, <1>5, <2>1, <2>2, <2>4 DEF RetireRemote, PlaceInv, RetiredInv,
         DropPcs, PendingPcs, RetryPcs
  <2>6. HeldInv'
    BY <1>0, <1>5, <2>2 DEF RetireRemote, HeldInv, Held
  <2> QED BY <1>0, <1>5, <2>2, <2>3, <2>5, <2>6, RefsAsTheyWere, Moved DEF RetireRemote
<1>6. CASE RetireTree
  <2> DEFINE ok == tree = "none" \/ Exact(st.report)
  <2>1. tree' = Same(tree, ok, "none") /\ Check(ok, "unbranch") /\ pc \in DropPcs
    BY <1>6 DEF RetireTree, DropPcs
  <2>2. /\ OwnerOK'
        /\ IF ok THEN pc' = "unbranch" /\ mem' = mem ELSE pc' = "loop" /\ mem' = NoMem
    BY <1>0, <1>6, <2>1, Checked DEF RetireTree, Pcs
  <2>3. tree' \in {tree, "none"} /\ (ok => tree' = "none")
    BY <2>1 DEF Same
  <2> HIDE DEF ok
  <2>5. PlaceInv' /\ RetiredInv'
    BY <1>0, <1>00, <1>6, <2>1, <2>2, <2>3 DEF RetireTree, PlaceInv, RetiredInv,
         DropPcs, PendingPcs, RetryPcs
  <2>6. HeldInv'
    BY <1>0, <1>6, <2>2 DEF RetireTree, HeldInv, Held
  <2> QED BY <1>0, <1>6, <2>2, <2>3, <2>5, <2>6, RefsAsTheyWere, Moved DEF RetireTree
<1>7. CASE RetireBranch
  <2> DEFINE ok == branch \in {None, st.report}
  <2>1. branch' = Same(branch, ok, None) /\ Check(ok, "forget") /\ pc \in DropPcs
    BY <1>7 DEF RetireBranch, DropPcs
  <2>2. /\ OwnerOK'
        /\ IF ok THEN pc' = "forget" /\ mem' = mem ELSE pc' = "loop" /\ mem' = NoMem
    BY <1>0, <1>7, <2>1, Checked DEF RetireBranch, Pcs
  <2>3. branch' = branch \/ (branch' = None /\ (branch = None \/ Held(branch)))
    BY <1>0, <1>7, <2>1 DEF RetireBranch, HeldInv, Same
  <2>4. (ok => branch' = None) /\ tree = "none" /\ remote = None
    BY <1>0, <1>7, <2>1 DEF Same, RetireBranch, RetiredInv
  <2> HIDE DEF ok
  <2>5. PlaceInv' /\ RetiredInv'
    BY <1>0, <1>00, <1>7, <2>1, <2>2, <2>4 DEF RetireBranch, PlaceInv, RetiredInv,
         DropPcs, PendingPcs, RetryPcs
  <2>6. HeldInv'
    BY <2>2 DEF HeldInv
  <2> QED BY <1>0, <1>7, <2>2, <2>3, <2>5, <2>6, RefsAsTheyWere, Moved DEF RetireBranch
<1> QED BY <1>1, <1>2, <1>3, <1>4, <1>5, <1>6, <1>7 DEF DropStep

-----------------------------------------------------------------------------
\* The steps of a recovery.

\* The ref that keeps what is in the way is one of an execution's.
LEMMA RivalRefs ==
  ASSUME TypeOK, st.exec \in Execs, NEW c
  PROVE  RivalRef(c) \in RefNames
<1>1. CASE Proven(c)
  <2>1. Prior(c) # {}
    BY <1>1, FS_EmptySet DEF Proven
  <2>2. (CHOOSE r \in Prior(c) : TRUE) \in Prior(c)
    BY <2>1
  <2>3. PriorExec(c) \in Execs
    BY <2>2 DEF PriorExec, Prior, TypeOK
  <2> QED BY <1>1, <2>3 DEF RivalRef, RefNames
<1>2. CASE ~Proven(c)
  BY <1>2 DEF RivalRef, RefNames
<1> QED BY <1>1, <1>2

\* A commit is pinned if it can be.
LEMMA PinnedIf ==
  ASSUME TypeOK, NEW r \in RefNames, NEW c \in Known, NEW ok,
         ok => Pinnable(r, c), refs' = Same(refs, ok, Pinned(r, c))
  PROVE  /\ RefsGrow /\ refs' \in [RefNames -> Known]
         /\ ok => refs'[r] = c
<1>1. CASE ok
  BY <1>1, Pinning DEF Same
<1>2. CASE ~ok
  BY <1>2, RefsAsTheyWere DEF Same
<1> QED BY <1>1, <1>2

\* The recovery goes on, pinning what is here and on the server before it moves
\* either.
LEMMA RecoverSteps ==
  ASSUME IInv, RecoverStep, ~Recovered
  PROVE  IInv'
<1>0. /\ TypeOK /\ PlaceInv /\ HeldInv /\ RetiredInv
      /\ tree \in {"none", "clean", "dirty"}
  BY DEF IInv, TypeOK
<1>00. pc \in PendingPcs => st.phase = "pending" /\ st.exec \in Execs /\ st.base # None
  BY <1>0 DEF PlaceInv
<1>1. CASE ResumeRecovery
  <2>1. OwnerOK' /\ pc' = "recover"
    BY <1>0, <1>1, Goes DEF ResumeRecovery, world, Pcs
  <2> QED BY <1>1, <2>1, Enter DEF ResumeRecovery, world
<1>2. CASE PinRecovered
  <2> DEFINE h == st.recovery
             r == <<"recover", st.exec>>
             ok == (branch = h \/ Replay(h)) /\ Pinnable(r, h)
  <2>1. /\ refs' = Same(refs, ok, Pinned(r, h)) /\ pc \in PendingPcs
        /\ pc' = IF ok THEN "rivals" ELSE "loop"
        /\ mem' = IF ok THEN [NoMem EXCEPT !.replay = Replay(h)] ELSE NoMem
        /\ bounds' = bounds
    BY <1>2 DEF PinRecovered, PendingPcs
  <2>2. r \in RefNames /\ h \in Known /\ (ok => Pinnable(r, h))
    BY <1>0, <1>00, <2>1, TypeParts DEF RefNames, StOK
  <2>3. mem' \in [saw : {None}, replay : BOOLEAN]
    <3>1. Replay(h) \in BOOLEAN
      BY DEF Replay
    <3>2. NoMem \in [saw : {None}, replay : BOOLEAN]
      BY DEF NoMem
    <3>3. \A b \in BOOLEAN : [NoMem EXCEPT !.replay = b] \in [saw : {None}, replay : BOOLEAN]
      BY <3>2
    <3> HIDE DEF h, ok
    <3> QED BY <2>1, <3>1, <3>2, <3>3
  <2> HIDE DEF r, h, ok
  <2>4. RefsGrow /\ refs' \in [RefNames -> Known] /\ (ok => refs'[r] = h)
    BY <1>0, <2>1, <2>2, PinnedIf
  <2>5. OwnerOK'
    <3>1. None \in Known' /\ bounds' \in [moves : 0..MaxMoves, faults : 0..MaxFaults,
                                         commands : 0..MaxCommands]
      BY <1>0, <1>2, <2>1, KnownCommits, TypesKept DEF PinRecovered, TypeOK
    <3>2. mem' \in [saw : Known', replay : BOOLEAN]
      BY <2>3, <3>1
    <3> QED BY <2>1, <3>1, <3>2 DEF OwnerOK, Pcs
  <2>6. PlaceInv' /\ RetiredInv'
    BY <1>0, <1>00, <1>2, <2>1 DEF PinRecovered, PlaceInv, RetiredInv,
         DropPcs, PendingPcs, RetryPcs
  <2>7. HeldInv'
    BY <1>2, <2>1, <2>2, <2>4 DEF PinRecovered, HeldInv, Held, h
  <2> QED BY <1>0, <1>2, <2>4, <2>5, <2>6, <2>7, Moved DEF PinRecovered
<1>3. CASE PinRemote
  <2>0. pc = "rivals" /\ pc \in PendingPcs
    BY <1>3 DEF PinRemote, PendingPcs
  <2>1. CASE remote \in {None, st.base}
    <3>1. OwnerOK' /\ pc' = "vacate" /\ mem' = mem /\ refs' = refs
      BY <1>0, <1>3, <2>1, Goes DEF PinRemote, Pcs
    <3>2. PlaceInv' /\ RetiredInv'
      BY <1>0, <1>00, <1>3, <2>0, <3>1 DEF PinRemote, PlaceInv, RetiredInv,
           DropPcs, PendingPcs, RetryPcs
    <3>3. HeldInv'
      BY <1>0, <1>3, <2>0, <3>1 DEF PinRemote, HeldInv, Held
    <3> QED BY <1>0, <1>3, <3>1, <3>2, <3>3, RefsAsTheyWere, Moved DEF PinRemote
  <2>2. CASE remote \notin {None, st.base}
    <3> DEFINE r == RivalRef(remote)
               ok == Pinnable(r, remote)
    <3>1. /\ refs' = Same(refs, ok, Pinned(r, remote))
          /\ pc' = IF ok THEN "retire" ELSE "loop"
          /\ mem' = IF ok THEN [mem EXCEPT !.saw = remote] ELSE NoMem
          /\ bounds' = bounds
      BY <1>3, <2>2 DEF PinRemote
    <3>2. r \in RefNames /\ remote \in Known /\ (ok => Pinnable(r, remote))
      BY <1>0, <1>00, <2>0, RivalRefs, TypeParts DEF PlacesOK
    <3> HIDE DEF r, ok
    <3>3. RefsGrow /\ refs' \in [RefNames -> Known] /\ (ok => refs'[r] = remote)
      BY <1>0, <3>1, <3>2, PinnedIf
    <3>4. OwnerOK' /\ (ok => mem'.saw = remote)
      <4>1. Known' = Known /\ None \in Known /\ mem \in [saw : Known, replay : BOOLEAN]
        BY <1>0, <1>3, KnownCommits, TypesKept DEF PinRemote, TypeOK
      <4>2. mem' \in [saw : Known', replay : BOOLEAN] /\ (ok => mem'.saw = remote)
        BY <3>1, <3>2, <4>1 DEF NoMem
      <4> QED BY <1>0, <3>1, <4>2, TypeParts DEF OwnerOK, Pcs
    <3>5. PlaceInv' /\ RetiredInv'
      BY <1>0, <1>00, <1>3, <2>0, <3>1 DEF PinRemote, PlaceInv, RetiredInv,
           DropPcs, PendingPcs, RetryPcs
    <3>6. HeldInv'
      <4>1. Held(st.recovery)'
        BY <1>0, <1>3, <2>0, <3>3, HoldsOn DEF PinRemote
      <4>2. ok => Held(mem.saw)'
        BY <3>2, <3>3, <3>4 DEF Held
      <4> QED BY <3>1, <4>1, <4>2 DEF HeldInv
    <3> QED BY <1>0, <1>3, <3>3, <3>4, <3>5, <3>6, Moved DEF PinRemote
  <2> QED BY <2>1, <2>2
<1>4. CASE PushBase
  <2> DEFINE ok == remote = mem.saw
  <2>1. /\ remote' = Same(remote, ok, st.base) /\ Check(ok, "vacate")
        /\ pc = "retire" /\ pc \in PendingPcs
    BY <1>4 DEF PushBase, PendingPcs
  <2>2. /\ OwnerOK'
        /\ IF ok THEN pc' = "vacate" /\ mem' = mem ELSE pc' = "loop" /\ mem' = NoMem
    BY <1>0, <1>4, <2>1, Checked DEF PushBase, Pcs
  <2>3. remote' = remote \/ (remote' = st.base /\ Held(remote))
    BY <1>0, <2>1 DEF HeldInv, Same
  <2> HIDE DEF ok
  <2>4. PlaceInv' /\ RetiredInv'
    BY <1>0, <1>00, <1>4, <2>1, <2>2 DEF PushBase, PlaceInv, RetiredInv,
         DropPcs, PendingPcs, RetryPcs
  <2>5. HeldInv'
    BY <1>0, <1>4, <2>1, <2>2 DEF PushBase, HeldInv, Held
  <2> QED BY <1>0, <1>4, <2>2, <2>3, <2>4, <2>5, RefsAsTheyWere, Moved DEF PushBase
<1>5. CASE VacateTree
  <2> DEFINE h == IF mem.replay THEN st.base ELSE st.recovery
             ok == tree = "none" \/ Exact(h)
  <2>1. /\ tree' = Same(tree, ok, "none") /\ Check(ok, "move")
        /\ pc = "vacate" /\ pc \in PendingPcs
    BY <1>5 DEF VacateTree, PendingPcs
  <2> HIDE DEF ok
  <2>2. /\ OwnerOK'
        /\ IF ok THEN pc' = "move" /\ mem' = mem ELSE pc' = "loop" /\ mem' = NoMem
    BY <1>0, <1>5, <2>1, Checked DEF VacateTree, Pcs
  <2>3. tree' \in {tree, "none"}
    BY <2>1 DEF Same
  <2>4. PlaceInv' /\ RetiredInv'
    BY <1>0, <1>00, <1>5, <2>1, <2>2, <2>3 DEF VacateTree, PlaceInv, RetiredInv,
         DropPcs, PendingPcs, RetryPcs
  <2>5. HeldInv'
    BY <1>0, <1>5, <2>1, <2>2 DEF VacateTree, HeldInv, Held
  <2> QED BY <1>0, <1>5, <2>2, <2>3, <2>4, <2>5, RefsAsTheyWere, Moved DEF VacateTree
<1>6. CASE MoveBranch
  <2> DEFINE ok == branch = st.recovery \/ (mem.replay /\ branch = st.base)
  <2>1. /\ branch' = Same(branch, ok, st.base) /\ Check(ok, "rebuild")
        /\ pc = "move" /\ pc \in PendingPcs
    BY <1>6 DEF MoveBranch, PendingPcs
  <2>2. /\ OwnerOK'
        /\ IF ok THEN pc' = "rebuild" /\ mem' = mem ELSE pc' = "loop" /\ mem' = NoMem
    BY <1>0, <1>6, <2>1, Checked DEF MoveBranch, Pcs
  <2>3. branch' = branch \/ (branch' = st.base /\ Held(branch))
    BY <1>0, <2>1 DEF HeldInv, Same
  <2>4. ok => branch' = st.base
    BY <2>1 DEF Same
  <2> HIDE DEF ok
  <2>5. PlaceInv' /\ RetiredInv'
    BY <1>0, <1>00, <1>6, <2>1, <2>2, <2>3, <2>4 DEF MoveBranch, PlaceInv, RetiredInv,
         DropPcs, PendingPcs, RetryPcs
  <2>6. HeldInv'
    BY <2>2 DEF HeldInv
  <2> QED BY <1>0, <1>6, <2>2, <2>3, <2>5, <2>6, RefsAsTheyWere, Moved DEF MoveBranch
<1>7. CASE Rebuild
  <2> DEFINE ok == Descends(branch) /\ Intact
  <2>1. Check(ok, "recovered") /\ pc = "rebuild" /\ pc \in PendingPcs
    BY <1>7 DEF Rebuild, PendingPcs
  <2> HIDE DEF ok
  <2>2. /\ OwnerOK'
        /\ IF ok THEN pc' = "recovered" /\ mem' = mem ELSE pc' = "loop" /\ mem' = NoMem
    BY <1>0, <1>7, <2>1, Checked DEF Rebuild, Pcs
  <2>3. tree' \in {tree, "clean"}
    BY <1>7 DEF Rebuild
  <2>4. PlaceInv' /\ RetiredInv'
    BY <1>0, <1>00, <1>7, <2>1, <2>2, <2>3 DEF Rebuild, PlaceInv, RetiredInv,
         DropPcs, PendingPcs, RetryPcs
  <2>5. HeldInv'
    BY <2>2 DEF HeldInv
  <2> QED BY <1>0, <1>7, <2>2, <2>3, <2>4, <2>5, RefsAsTheyWere, Moved DEF Rebuild
<1> QED BY <1>1, <1>2, <1>3, <1>4, <1>5, <1>6, <1>7 DEF RecoverStep

-----------------------------------------------------------------------------
\* The steps of the automatic repair.

\* The repair goes on, pinning the branch before it moves it.
LEMMA RepairSteps ==
  ASSUME IInv, RepairStep
  PROVE  IInv'
<1>0. /\ TypeOK /\ PlaceInv /\ HeldInv /\ RetiredInv
      /\ tree \in {"none", "clean", "dirty"}
  BY DEF IInv, TypeOK
<1>00. pc \in PendingPcs => st.phase = "pending" /\ st.exec \in Execs /\ st.base # None
  BY <1>0 DEF PlaceInv
<1>1. CASE PinPrior
  <2> DEFINE r == RivalRef(branch)
             ok == Proven(branch) /\ Pinnable(r, branch)
  <2>1. /\ refs' = Same(refs, ok, Pinned(r, branch)) /\ pc \in PendingPcs
        /\ pc' = IF ok THEN "clear" ELSE "loop"
        /\ mem' = IF ok THEN [NoMem EXCEPT !.saw = branch] ELSE NoMem
        /\ bounds' = bounds
    BY <1>1 DEF PinPrior, PendingPcs
  <2>2. r \in RefNames /\ branch \in Known /\ (ok => Pinnable(r, branch))
    BY <1>0, <1>00, <2>1, RivalRefs, TypeParts DEF PlacesOK
  <2> HIDE DEF r, ok
  <2>3. RefsGrow /\ refs' \in [RefNames -> Known] /\ (ok => refs'[r] = branch)
    BY <1>0, <2>1, <2>2, PinnedIf
  <2>4. OwnerOK' /\ (ok => mem'.saw = branch)
    <3>1. Known' = Known /\ None \in Known
      BY <1>0, <1>1, KnownCommits, TypesKept DEF PinPrior
    <3>2. mem' \in [saw : Known', replay : BOOLEAN] /\ (ok => mem'.saw = branch)
      BY <2>1, <2>2, <3>1 DEF NoMem
    <3> QED BY <1>0, <2>1, <3>2, TypeParts DEF OwnerOK, Pcs
  <2>5. PlaceInv' /\ RetiredInv'
    BY <1>0, <1>00, <1>1, <2>1 DEF PinPrior, PlaceInv, RetiredInv,
         DropPcs, PendingPcs, RetryPcs
  <2>6. HeldInv'
    <3>1. ok => Held(mem.saw)'
      BY <2>2, <2>3, <2>4 DEF Held
    <3> QED BY <2>1, <3>1 DEF HeldInv
  <2> QED BY <1>0, <1>1, <2>3, <2>4, <2>5, <2>6, Moved DEF PinPrior
<1>2. CASE ClearTree
  <2> DEFINE ok == branch = mem.saw /\ Intact
  <2>1. /\ tree' = Same(tree, ok, "none") /\ Check(ok, "reset")
        /\ pc = "clear" /\ pc \in PendingPcs
    BY <1>2 DEF ClearTree, PendingPcs
  <2> HIDE DEF ok
  <2>2. /\ OwnerOK'
        /\ IF ok THEN pc' = "reset" /\ mem' = mem ELSE pc' = "loop" /\ mem' = NoMem
    BY <1>0, <1>2, <2>1, Checked DEF ClearTree, Pcs
  <2>3. tree' \in {tree, "none"}
    BY <2>1 DEF Same
  <2>4. PlaceInv' /\ RetiredInv'
    BY <1>0, <1>00, <1>2, <2>1, <2>2, <2>3 DEF ClearTree, PlaceInv, RetiredInv,
         DropPcs, PendingPcs, RetryPcs
  <2>5. HeldInv'
    BY <1>0, <1>2, <2>1, <2>2 DEF ClearTree, HeldInv, Held
  <2> QED BY <1>0, <1>2, <2>2, <2>3, <2>4, <2>5, RefsAsTheyWere, Moved DEF ClearTree
<1>3. CASE ResetBranch
  <2> DEFINE ok == branch = mem.saw
  <2>1. /\ branch' = Same(branch, ok, st.base) /\ Check(ok, "remake")
        /\ pc = "reset" /\ pc \in PendingPcs
    BY <1>3 DEF ResetBranch, PendingPcs
  <2>2. /\ OwnerOK'
        /\ IF ok THEN pc' = "remake" /\ mem' = mem ELSE pc' = "loop" /\ mem' = NoMem
    BY <1>0, <1>3, <2>1, Checked DEF ResetBranch, Pcs
  <2>3. branch' = branch \/ (branch' = st.base /\ Held(branch))
    BY <1>0, <2>1 DEF HeldInv, Same
  <2>4. ok => branch' = st.base
    BY <2>1 DEF Same
  <2> HIDE DEF ok
  <2>5. PlaceInv' /\ RetiredInv'
    BY <1>0, <1>00, <1>3, <2>1, <2>2, <2>3, <2>4 DEF ResetBranch, PlaceInv, RetiredInv,
         DropPcs, PendingPcs, RetryPcs
  <2>6. HeldInv'
    BY <2>2 DEF HeldInv
  <2> QED BY <1>0, <1>3, <2>2, <2>3, <2>5, <2>6, RefsAsTheyWere, Moved DEF ResetBranch
<1>4. CASE Remake
  <2> DEFINE ok == Descends(branch) /\ Intact
  <2>1. Check(ok, "prepare") /\ pc = "remake" /\ pc \in PendingPcs
    BY <1>4 DEF Remake, PendingPcs
  <2> HIDE DEF ok
  <2>2. /\ OwnerOK'
        /\ IF ok THEN pc' = "prepare" /\ mem' = mem ELSE pc' = "loop" /\ mem' = NoMem
    BY <1>0, <1>4, <2>1, Checked DEF Remake, Pcs
  <2>3. tree' \in {tree, "clean"}
    BY <1>4 DEF Remake
  <2>4. PlaceInv' /\ RetiredInv'
    BY <1>0, <1>00, <1>4, <2>1, <2>2, <2>3 DEF Remake, PlaceInv, RetiredInv,
         DropPcs, PendingPcs, RetryPcs
  <2>5. HeldInv'
    BY <2>2 DEF HeldInv
  <2> QED BY <1>0, <1>4, <2>2, <2>3, <2>4, <2>5, RefsAsTheyWere, Moved DEF Remake
<1> QED BY <1>1, <1>2, <1>3, <1>4 DEF RepairStep

-----------------------------------------------------------------------------
\* Steps that write the record.

\* The owner goes back to its loop.
LEMMA Backs ==
  ASSUME TypeOK, Return, UNCHANGED <<product, made>>
  PROVE  OwnerOK' /\ pc' = "loop"
<1>1. Known' = Known
  BY TypesKept
<1> QED BY <1>1, KnownCommits, TypeParts DEF OwnerOK, Return, NoMem, Pcs

\* Only an execution that has its lifecycle before it is ever dropped.
LEMMA NoDropYet ==
  ASSUME IInv, st.phase \notin {"idle", "lifecycle"}
  PROVE  disposition[st.exec] = "none" /\ st.exec \in Execs
<1>1. PlaceInv /\ FreeInv
  BY DEF IInv
<1>2. st.exec \in Execs /\ Active(st.exec)
  BY <1>1 DEF PlaceInv, Active
<1> QED BY <1>1, <1>2 DEF FreeInv

\* The record of the same execution: its phase changes only if nothing of a
\* drop has happened.
LEMMA FreeRecord ==
  ASSUME FreeInv, disposition' = disposition, st'.exec = st.exec,
         st'.phase = st.phase \/ disposition[st.exec] = "none",
         Free(branch'), Free(remote'), Free(st'.base), Free(st'.report)
  PROVE  FreeInv'
<1>1. \A e \in Execs : Dropped(e)' => Dropped(e)
  BY DEF Dropped, Active
<1>2. \A e \in Execs : disposition'[e] # "none" =>
        e <= st'.exec /\ (Active(e)' => st'.phase = "lifecycle")
  BY DEF FreeInv, Active
<1> QED BY <1>1, <1>2, FreeMoves

\* A step that writes only the record.
LEMMA Recorded ==
  ASSUME IInv, UNCHANGED <<product, branch, tree, remote, refs, disposition, reports,
                           made>>,
         st'.exec = st.exec, st'.base \in {st.base, None},
         st'.report \in {st.report, None},
         st'.phase = st.phase \/ disposition[st.exec] = "none",
         StOK', OwnerOK', PlaceInv', HeldInv', RetiredInv'
  PROVE  IInv'
<1>1. TypeOK /\ NothingLost /\ FreeInv
  BY DEF IInv
<1>2. PlacesOK' /\ HistoryOK'
  BY <1>1, TypesKept
<1>3. NothingLost'
  BY <1>1 DEF NothingLost
<1>4. Free(branch') /\ Free(remote') /\ Free(st'.base) /\ Free(st'.report)
  BY <1>1, FreeCommits DEF FreeInv
<1>5. FreeInv'
  BY <1>1, <1>4, FreeRecord
<1> QED BY <1>2, <1>3, <1>5, TypeParts DEF IInv

\* The worker starts, and is lost.
LEMMA WorkerSteps ==
  ASSUME IInv, Launch \/ WorkerLost
  PROVE  IInv'
<1>0. TypeOK /\ PlaceInv
  BY DEF IInv
<1>1. CASE Launch
  <2>1. st.phase = "pending" /\ branch # None
    BY <1>0, <1>1 DEF Launch, PlaceInv, PendingPcs
  <2>2. OwnerOK' /\ pc' = "loop" /\ Known' = Known
    BY <1>0, <1>1, Backs, TypesKept DEF Launch, world
  <2>3. StOK' /\ st'.phase = "running" /\ st'.exec = st.exec /\ st'.base = st.base
        /\ st'.report = st.report /\ st'.resume = st.resume
    BY <1>0, <1>1, <2>2, TypeParts DEF Launch, StOK, PlacesOK, Phases
  <2>4. PlaceInv' /\ HeldInv' /\ RetiredInv'
    BY <1>0, <1>1, <2>1, <2>2, <2>3 DEF Launch, world, PlaceInv, HeldInv, RetiredInv,
         DropPcs, PendingPcs, RetryPcs
  <2>5. disposition[st.exec] = "none"
    BY <2>1, NoDropYet
  <2> QED BY <1>1, <2>2, <2>3, <2>4, <2>5, Recorded DEF Launch, world
<1>2. CASE WorkerLost
  <2>1. st.phase = "running" /\ pc' = "loop"
    BY <1>2 DEF WorkerLost
  <2>2. OwnerOK' /\ Known' = Known
    BY <1>0, <1>2, TypesKept DEF WorkerLost, world
  <2>3. StOK' /\ st'.phase = "stranded" /\ st'.exec = st.exec /\ st'.base = st.base
        /\ st'.report = st.report /\ st'.resume = st.resume
    BY <1>0, <1>2, <2>2, TypeParts DEF WorkerLost, StOK, Phases
  <2>4. PlaceInv' /\ HeldInv' /\ RetiredInv'
    BY <1>0, <1>2, <2>1, <2>3 DEF WorkerLost, world, PlaceInv, HeldInv, RetiredInv,
         DropPcs, PendingPcs, RetryPcs
  <2>5. disposition[st.exec] = "none"
    BY <2>1, NoDropYet
  <2> QED BY <1>2, <2>2, <2>3, <2>4, <2>5, Recorded DEF WorkerLost, world
<1> QED BY <1>1, <1>2

\* A recovery is over.
LEMMA RecoveryEnds ==
  ASSUME IInv, Recovered
  PROVE  IInv'
<1>0. TypeOK /\ PlaceInv
  BY DEF IInv
<1>1. st.phase = "pending" /\ UNCHANGED <<product, branch, tree, remote, refs,
                                          disposition, reports, made>>
  BY <1>0 DEF Recovered, PlaceInv, PendingPcs, world
<1>2. OwnerOK' /\ pc' = "loop" /\ Known' = Known
  BY <1>0, <1>1, Backs, TypesKept DEF Recovered
<1>3. StOK' /\ st'.phase = st.phase /\ st'.exec = st.exec /\ st'.base = st.base
      /\ st'.report = st.report /\ st'.resume = st.resume
  <2>1. CASE remote \in {None, st.base}
    <3>1. st' = [st EXCEPT !.recovery = None, !.start = None, !.remote = remote]
      BY <2>1 DEF Recovered, Same
    <3> QED BY <1>0, <1>2, <3>1, KnownCommits, TypeParts DEF StOK, PlacesOK
  <2>2. CASE remote \notin {None, st.base}
    BY <1>0, <1>1, <2>2, TypesKept DEF Recovered, Same
  <2> QED BY <2>1, <2>2
<1>4. PlaceInv' /\ HeldInv' /\ RetiredInv'
  BY <1>0, <1>1, <1>2, <1>3 DEF PlaceInv, HeldInv, RetiredInv, DropPcs, PendingPcs, RetryPcs
<1> QED BY <1>1, <1>2, <1>3, <1>4, Recorded

\* The operator names the head to give up.
LEMMA RecoveryStarts ==
  ASSUME IInv, NEW h \in {branch} \cup {refs[<<"recover", e>>] : e \in Execs},
         Recover(h)
  PROVE  IInv'
<1>0. TypeOK /\ PlaceInv
  BY DEF IInv
<1>1. /\ st.phase = "pending" /\ pc' = "recover" /\ mem' = mem
      /\ bounds' = [bounds EXCEPT !.commands = @ + 1] /\ bounds.commands < MaxCommands
      /\ UNCHANGED <<product, branch, tree, remote, refs, disposition, reports, made>>
  BY DEF Recover, Command, world
<1>2. Known' = Known /\ h \in Known
  <2>1. \A e \in Execs : <<"recover", e>> \in RefNames
    BY DEF RefNames
  <2> QED BY <1>0, <1>1, <2>1, TypesKept, TypeParts DEF PlacesOK
<1>3. StOK' /\ st'.phase = st.phase /\ st'.exec = st.exec /\ st'.base = st.base
      /\ st'.report = st.report /\ st'.resume = st.resume
  BY <1>0, <1>2, TypeParts DEF Recover, StOK
<1>4. OwnerOK'
  BY <1>0, <1>1, <1>2, TypeParts, BoundsAssumption DEF OwnerOK, Pcs
<1>5. PlaceInv' /\ HeldInv' /\ RetiredInv'
  BY <1>0, <1>1, <1>3 DEF PlaceInv, HeldInv, RetiredInv, DropPcs, PendingPcs, RetryPcs
<1> QED BY <1>1, <1>3, <1>4, <1>5, Recorded

\* A drop and a forced retry are admitted.
LEMMA CommandSteps ==
  ASSUME IInv, (\E e \in Execs : Drop(e)) \/ ForceRetry
  PROVE  IInv'
<1>0. TypeOK
  BY DEF IInv
<1>1. /\ mem' = mem /\ bounds' = [bounds EXCEPT !.commands = @ + 1]
      /\ bounds.commands < MaxCommands
      /\ UNCHANGED <<st, product, branch, tree, remote, refs, disposition, reports, made>>
  BY DEF Drop, ForceRetry, Command, world
<1>2. \/ pc' = "intent" /\ st.phase = "lifecycle"
      \/ pc' = "checkpoint" /\ st.phase = "stranded"
  BY DEF Drop, DropAdmissible, ForceRetry
<1>3. OwnerOK'
  <2>1. Known' = Known
    BY <1>0, <1>1, TypesKept
  <2> QED BY <1>0, <1>1, <1>2, <2>1, TypeParts, BoundsAssumption DEF OwnerOK, Pcs
<1> QED BY <1>1, <1>2, <1>3, Enter

\* The retry is authorized.
LEMMA AuthorizeStep ==
  ASSUME IInv, Authorize
  PROVE  IInv'
<1>0. TypeOK /\ PlaceInv
  BY DEF IInv
<1>1. st.phase = "stranded" /\ st.base # None /\ UNCHANGED <<product, branch, tree,
        remote, refs, disposition, reports, made>>
  BY <1>0 DEF Authorize, PlaceInv, RetryPcs, world
<1>2. OwnerOK' /\ pc' = "loop" /\ Known' = Known
  BY <1>0, <1>1, Backs, TypesKept DEF Authorize
<1>3. StOK' /\ st'.phase = "idle" /\ st'.exec = st.exec /\ st'.base = st.base
      /\ st'.report = None
  BY <1>0, <1>2, KnownCommits, TypeParts DEF Authorize, Idle, NoRecord, StOK, Phases
<1>4. PlaceInv' /\ HeldInv' /\ RetiredInv'
  BY <1>0, <1>1, <1>2, <1>3 DEF PlaceInv, HeldInv, RetiredInv, DropPcs, PendingPcs, RetryPcs
<1>5. disposition[st.exec] = "none"
  BY <1>1, NoDropYet
<1> QED BY <1>1, <1>2, <1>3, <1>4, <1>5, Recorded

\* The lifecycle is applied.
LEMMA ApplyStep ==
  ASSUME IInv, ApplyLifecycle
  PROVE  IInv'
<1>0. TypeOK /\ PlaceInv /\ NothingLost /\ FreeInv
  BY DEF IInv
<1>1. /\ st.phase = "lifecycle" /\ st.exec \in Execs /\ disposition[st.exec] = "none"
      /\ st' = Idle /\ pc = "loop"
      /\ reports' = reports \cup {[exec |-> st.exec, head |-> st.report]}
      /\ UNCHANGED <<product, branch, tree, remote, refs, disposition, made, pc, mem, bounds>>
  BY <1>0 DEF ApplyLifecycle, PlaceInv
<1>2. OwnerOK' /\ PlacesOK' /\ Known' = Known
  BY <1>0, <1>1, TypesKept
<1>3. StOK' /\ st'.phase = "idle" /\ st'.exec = st.exec /\ st'.base = None
      /\ st'.report = None /\ st'.resume = FALSE
  BY <1>0, <1>1, <1>2, KnownCommits, TypeParts DEF Idle, NoRecord, StOK, Phases
<1>4. HistoryOK'
  BY <1>0, <1>1, <1>2, TypeParts DEF HistoryOK, StOK
<1>5. NothingLost'
  BY <1>0, <1>1 DEF NothingLost
<1>6. PlaceInv' /\ HeldInv' /\ RetiredInv'
  BY <1>0, <1>1, <1>3 DEF PlaceInv, HeldInv, RetiredInv, DropPcs, PendingPcs, RetryPcs
<1>7. FreeInv'
  BY <1>0, <1>1, <1>3, FreeCommits, FreeRecord DEF FreeInv
<1> QED BY <1>2, <1>3, <1>4, <1>5, <1>6, <1>7, TypeParts DEF IInv

\* The drop is over: its execution is idle, and its commits are gone.
LEMMA ForgetStep ==
  ASSUME IInv, ForgetDropped
  PROVE  IInv'
<1>0. TypeOK /\ PlaceInv /\ NothingLost /\ FreeInv /\ RetiredInv
  BY DEF IInv
<1>1. /\ st' = Idle /\ branch = None /\ remote = None /\ tree = "none"
      /\ UNCHANGED <<product, branch, tree, remote, refs, disposition, reports, made>>
  BY <1>0 DEF ForgetDropped, RetiredInv, world
<1>2. OwnerOK' /\ pc' = "loop" /\ PlacesOK' /\ HistoryOK' /\ Known' = Known
  BY <1>0, <1>1, Backs, TypesKept DEF ForgetDropped
<1>3. StOK' /\ st'.phase = "idle" /\ st'.exec = st.exec /\ st'.base = None
      /\ st'.report = None /\ st'.resume = FALSE
  BY <1>0, <1>1, <1>2, KnownCommits, TypeParts DEF Idle, NoRecord, StOK, Phases
<1>4. NothingLost'
  BY <1>0, <1>1 DEF NothingLost
<1>5. PlaceInv' /\ HeldInv' /\ RetiredInv'
  BY <1>1, <1>2, <1>3 DEF PlaceInv, HeldInv, RetiredInv, DropPcs, PendingPcs, RetryPcs
<1>6. FreeInv'
  <2>1. Free(branch)' /\ Free(remote)' /\ Free(st.base)' /\ Free(st.report)'
    BY <1>1, <1>3 DEF Free, None
  <2>2. \A e \in Execs : disposition'[e] # "none" => e <= st'.exec /\ ~Active(e)'
    BY <1>0, <1>1, <1>3 DEF FreeInv, Active
  <2> QED BY <2>1, <2>2 DEF FreeInv
<1> QED BY <1>2, <1>3, <1>4, <1>5, <1>6, TypeParts DEF IInv

\* A new execution: it has no disposition, and starts from what is free.
LEMMA BeginStep ==
  ASSUME IInv, Begin
  PROVE  IInv'
<1>0. TypeOK /\ PlaceInv /\ NothingLost /\ FreeInv /\ HeldInv
  BY DEF IInv
<1>1. /\ st.phase = "idle" /\ st.exec < MaxExecs /\ Goto("prepare") /\ pc = "loop"
      /\ UNCHANGED <<product, branch, tree, remote, refs, disposition, reports, made>>
  BY DEF Begin, world
<1>2. OwnerOK' /\ pc' = "prepare" /\ PlacesOK' /\ HistoryOK' /\ Known' = Known
  BY <1>0, <1>1, Goes, TypesKept DEF Pcs
<1>3. st.exec \in 0..MaxExecs /\ st.exec + 1 \in Execs /\ st.exec + 1 \in 0..MaxExecs
  BY <1>0, <1>1, TypeParts, BoundsAssumption DEF StOK, Execs
<1>4. PICK b \in {st.base, product}, m \in {st.remote, remote} :
        /\ st' = [NoRecord EXCEPT !.phase = "pending", !.exec = st.exec + 1,
                                  !.base = b, !.remote = m]
        /\ b = IF st.resume THEN st.base ELSE product
  BY DEF Begin
<1>5. b \in Known /\ m \in Known /\ b # None /\ Free(b)
  BY <1>0, <1>4, KnownCommits, FreeCommits, TypeParts DEF StOK, PlacesOK, PlaceInv, FreeInv
<1>6. StOK' /\ st'.phase = "pending" /\ st'.exec = st.exec + 1 /\ st'.base = b
      /\ st'.report = None /\ st'.resume = FALSE
  BY <1>0, <1>2, <1>3, <1>4, <1>5, KnownCommits DEF StOK, NoRecord, Phases
<1>7. NothingLost'
  BY <1>0, <1>1 DEF NothingLost
<1>8. PlaceInv' /\ HeldInv' /\ RetiredInv'
  BY <1>0, <1>1, <1>2, <1>3, <1>5, <1>6 DEF PlaceInv, HeldInv, RetiredInv,
       DropPcs, PendingPcs, RetryPcs
<1>9. FreeInv'
  <2>1. \A e \in Execs : Dropped(e)' => Dropped(e)
    BY <1>1 DEF Dropped, Active
  <2>2. \A e \in Execs : disposition[e] # "none" => e <= st.exec + 1 /\ e # st.exec + 1
    BY <1>0, <1>3 DEF FreeInv, Execs
  <2>3. \A e \in Execs : disposition'[e] # "none" =>
          e <= st'.exec /\ (Active(e)' => st'.phase = "lifecycle")
    BY <1>1, <1>6, <2>2 DEF Active
  <2>4. Free(branch') /\ Free(remote') /\ Free(st'.base) /\ Free(st'.report)
    BY <1>0, <1>1, <1>5, <1>6, FreeCommits DEF FreeInv
  <2> QED BY <2>1, <2>3, <2>4, FreeMoves
<1> QED BY <1>2, <1>6, <1>7, <1>8, <1>9, TypeParts DEF IInv

-----------------------------------------------------------------------------
\* Steps that make a commit.

\* A commit on top of another is a new one, free of what was dropped unless
\* it is a dropped execution's own.
LEMMA NewCommit ==
  ASSUME TypeOK, product' = product, NEW c \in Known, c # None, NEW x \in 1..Others,
         made' = made \cup {Append(c, x)}
  PROVE  /\ Known \subseteq Known' /\ Append(c, x) \in Known'
         /\ Append(c, x) # None /\ Append(c, x) \in Seq(0..Others)
         /\ made' \subseteq Seq(0..Others)
         /\ \A d \in made' : d # None /\ Head(d) = 0 /\ Last(d) \in 1..Others
         /\ IsPrefix(c, Append(c, x))
         /\ (Free(c) /\ (x \in Execs => ~Dropped(x))) => Free(Append(c, x))
<1>1. c \in Seq(0..Others) /\ Head(c) = 0 /\ x \in 0..Others
  BY KnownCommits, BoundsAssumption DEF Others
<1> DEFINE a == Append(c, x)
<1>2. /\ a \in Seq(0..Others) /\ a # <<>> /\ IsPrefix(c, a) /\ Last(a) = x /\ Head(a) = 0
      /\ \A i \in DOMAIN a : a[i] = x \/ (i \in DOMAIN c /\ a[i] = c[i])
  <2>1. /\ Append(c, x) \in Seq(0..Others) /\ Append(c, x) # <<>>
        /\ IsPrefix(c, Append(c, x)) /\ Last(Append(c, x)) = x
        /\ c # <<>> => Head(Append(c, x)) = Head(c)
        /\ \A i \in DOMAIN Append(c, x) : Append(c, x)[i] = x \/
             (i \in DOMAIN c /\ Append(c, x)[i] = c[i])
    <3> DEFINE S == 0..Others
    <3>1. c \in Seq(S) /\ x \in S
      BY <1>1
    <3> HIDE DEF S
    <3>2. /\ Append(c, x) \in Seq(S) /\ Append(c, x) # <<>>
          /\ IsPrefix(c, Append(c, x)) /\ Last(Append(c, x)) = x
          /\ c # <<>> => Head(Append(c, x)) = Head(c)
          /\ \A i \in DOMAIN Append(c, x) : Append(c, x)[i] = x \/
               (i \in DOMAIN c /\ Append(c, x)[i] = c[i])
      BY <3>1, Committing
    <3> QED BY <3>2 DEF S
  <2>2. Head(Append(c, x)) = 0
    BY <1>1, <2>1 DEF None
  <2> QED BY <2>1, <2>2, Zenon
<1> HIDE DEF a
<1>3. /\ made' \subseteq Seq(0..Others)
      /\ \A d \in made' : d # None /\ Head(d) = 0 /\ Last(d) \in 1..Others
  <2>1. made' = made \cup {a}
    BY DEF a
  <2> QED BY <1>2, <2>1 DEF TypeOK, None
<1>4. Known \subseteq Known' /\ a \in Known'
  BY DEF Known, a
<1>5. (Free(c) /\ (x \in Execs => ~Dropped(x))) => Free(a)
  BY <1>2 DEF Free
<1> QED BY <1>2, <1>3, <1>4, <1>5 DEF a, None

\* Nothing is lost when the heads only go forward and every new commit is one.
LEMMA Grown ==
  ASSUME TypeOK, NothingLost, refs' = refs, made' \subseteq made \cup {branch', remote'},
         branch' \in Seq(0..Others), remote' \in Seq(0..Others),
         IsPrefix(branch, branch'), IsPrefix(remote, remote')
  PROVE  NothingLost'
<1>0. branch \in Seq(0..Others) /\ remote \in Seq(0..Others)
  BY KnownCommits, TypeParts DEF PlacesOK
<1>1. SUFFICES ASSUME NEW c \in made'
               PROVE  \E h \in {branch', remote'} \cup {refs[r] : r \in RefNames} :
                        IsPrefix(c, h)
  BY DEF NothingLost
<1>2. CASE c \in {branch', remote'}
  <2>1. IsPrefix(c, c)
    BY <1>2, PrefixOrder
  <2> QED BY <1>2, <2>1
<1>3. CASE c \in made
  <2>1. c \in Seq(0..Others)
    BY <1>3 DEF TypeOK
  <2>2. PICK h \in {branch, remote} \cup {refs[r] : r \in RefNames} : IsPrefix(c, h)
    BY <1>3 DEF NothingLost
  <2>3. CASE h = branch
    <3>1. IsPrefix(c, branch')
      BY <1>0, <2>1, <2>2, <2>3, PrefixOrder
    <3> QED BY <3>1
  <2>4. CASE h = remote
    <3>1. IsPrefix(c, remote')
      BY <1>0, <2>1, <2>2, <2>4, PrefixOrder
    <3> QED BY <3>1
  <2> QED BY <2>2, <2>3, <2>4
<1> QED BY <1>2, <1>3

\* Everything in the worktree is committed: the branch goes forward, and what
\* it has is free of what was dropped, for this execution has not been.
LEMMA CommitSteps ==
  ASSUME IInv, CommitTree, tree # "none", st.phase \notin {"idle", "lifecycle"},
         UNCHANGED <<product, remote, refs, disposition, reports>>
  PROVE  /\ Known \subseteq Known' /\ Committed \in Known' /\ branch' = Committed
         /\ branch' # None /\ tree' = "clean"
         /\ PlacesOK' /\ HistoryOK' /\ NothingLost' /\ Free(branch')
<1>0. /\ TypeOK /\ PlaceInv /\ NothingLost /\ FreeInv
  BY DEF IInv
<1>1. /\ branch # None /\ branch \in Known /\ disposition[st.exec] = "none"
      /\ st.exec \in 1..Others /\ Free(branch) /\ remote \in Known
  BY <1>0, NoDropYet, KnownCommits, TypeParts DEF PlaceInv, PlacesOK, FreeInv
<1>2. branch' = Committed /\ tree' = "clean"
  BY DEF CommitTree
<1>3. /\ Known \subseteq Known' /\ Committed \in Known' /\ Committed # None
      /\ Committed \in Seq(0..Others)
      /\ made' \subseteq Seq(0..Others)
      /\ \A d \in made' : d # None /\ Head(d) = 0 /\ Last(d) \in 1..Others
      /\ IsPrefix(branch, Committed) /\ Free(Committed)
      /\ made' \subseteq made \cup {Committed}
  <2>1. CASE tree = "dirty"
    <3>1. Committed = Append(branch, st.exec) /\ made' = made \cup {Append(branch, st.exec)}
      BY <2>1 DEF CommitTree, Committed
    <3>2. ~Dropped(st.exec)
      BY <1>1 DEF Dropped
    <3> QED BY <1>0, <1>1, <3>1, <3>2, NewCommit
  <2>2. CASE tree # "dirty"
    <3>1. Committed = branch /\ made' = made
      BY <2>2 DEF CommitTree, Committed
    <3>2. Known' = Known
      BY <1>0, <3>1, TypesKept
    <3>3. branch \in Seq(0..Others)
      BY <1>0, <1>1, KnownCommits
    <3>4. IsPrefix(branch, branch)
      BY <3>3, PrefixOrder
    <3> QED BY <1>0, <1>1, <3>1, <3>2, <3>3, <3>4 DEF TypeOK
  <2> QED BY <2>1, <2>2
<1>4. HistoryOK'
  <2>1. reports \subseteq [exec : Execs, head : Known'] /\
        disposition \in [Execs -> {"none", "dropping", "dropped"}]
    BY <1>0, <1>3, TypeParts DEF HistoryOK
  <2> QED BY <1>3, <2>1 DEF HistoryOK
<1>5. PlacesOK'
  <2>1. \A r \in RefNames : refs[r] \in Known'
    BY <1>0, <1>3, TypeParts DEF PlacesOK
  <2>2. refs \in [RefNames -> Known'] /\ product \in {<<0>>, <<0, 0>>}
    BY <1>0, <2>1, TypeParts DEF PlacesOK
  <2>3. branch' \in Known' /\ tree' \in {"none", "clean", "dirty"} /\ remote' \in Known'
    BY <1>1, <1>2, <1>3
  <2> QED BY <2>2, <2>3 DEF PlacesOK
<1>6. NothingLost'
  <2>1. branch' \in Seq(0..Others)
    BY <1>2, <1>3
  <2>2. remote \in Seq(0..Others)
    BY <1>0, <1>1, KnownCommits
  <2>3. IsPrefix(remote, remote')
    BY <2>2, PrefixOrder
  <2> QED BY <1>0, <1>2, <1>3, <2>1, <2>2, <2>3, Grown
<1> QED BY <1>2, <1>3, <1>4, <1>5, <1>6

\* The worker's result becomes the report.
LEMMA CheckpointStep ==
  ASSUME IInv, Checkpoint
  PROVE  IInv'
<1>0. TypeOK /\ PlaceInv /\ FreeInv
  BY DEF IInv
<1>1. /\ st.phase = "running" /\ st.exec \in Execs /\ pc = "loop" /\ tree # "none"
      /\ disposition[st.exec] = "none" /\ CommitTree
      /\ st' = [st EXCEPT !.phase = "publishing", !.report = Committed]
      /\ UNCHANGED <<product, remote, refs, disposition, reports, pc, mem, bounds>>
  BY NoDropYet DEF Checkpoint
<1>2. /\ Known \subseteq Known' /\ Committed \in Known' /\ branch' = Committed
      /\ branch' # None /\ tree' = "clean"
      /\ PlacesOK' /\ HistoryOK' /\ NothingLost' /\ Free(branch')
  BY <1>1, CommitSteps
<1>3. OwnerOK'
  BY <1>0, <1>1, <1>2, TypesGrow
<1>4. StOK' /\ st'.phase = "publishing" /\ st'.exec = st.exec /\ st'.base = st.base
      /\ st'.report = branch' /\ st'.resume = st.resume
  BY <1>0, <1>1, <1>2, TypeParts DEF StOK, Phases
<1>5. PlaceInv' /\ HeldInv' /\ RetiredInv'
  BY <1>0, <1>1, <1>2, <1>4 DEF PlaceInv, HeldInv, RetiredInv, DropPcs, PendingPcs, RetryPcs
<1>6. FreeInv'
  BY <1>0, <1>1, <1>2, <1>4, FreeRecord DEF FreeInv
<1> QED BY <1>2, <1>3, <1>4, <1>5, <1>6, TypeParts DEF IInv

\* The report is published: the server goes forward to it.
LEMMA PublishStep ==
  ASSUME IInv, Publish
  PROVE  IInv'
<1>0. TypeOK /\ PlaceInv /\ FreeInv /\ NothingLost
  BY DEF IInv
<1>1. /\ st.phase = "publishing" /\ pc = "loop" /\ remote' = st.report
      /\ disposition[st.exec] = "none" /\ IsPrefix(remote, remote')
      /\ st' = [st EXCEPT !.phase = "lifecycle"]
      /\ UNCHANGED <<product, branch, tree, refs, disposition, reports, made, pc, mem, bounds>>
  BY NoDropYet DEF Publish
<1>2. OwnerOK' /\ HistoryOK' /\ Known' = Known
  BY <1>0, <1>1, TypesKept
<1>3. StOK' /\ st'.phase = "lifecycle" /\ st'.exec = st.exec /\ st'.base = st.base
      /\ st'.report = st.report /\ st'.resume = st.resume
  BY <1>0, <1>1, <1>2, TypeParts DEF StOK, Phases
<1>4. PlacesOK' /\ st.report \in Known /\ branch \in Known
  BY <1>0, <1>1, <1>2, TypeParts DEF PlacesOK, StOK
<1>5. branch \in Seq(0..Others) /\ remote' \in Seq(0..Others)
  BY <1>0, <1>1, <1>4, KnownCommits
<1>6. IsPrefix(branch, branch')
  BY <1>1, <1>5, PrefixOrder
<1>7. NothingLost'
  BY <1>0, <1>1, <1>5, <1>6, Grown
<1>8. PlaceInv' /\ HeldInv' /\ RetiredInv'
  BY <1>0, <1>1, <1>3 DEF PlaceInv, HeldInv, RetiredInv, DropPcs, PendingPcs, RetryPcs
<1>9. FreeInv'
  BY <1>0, <1>1, <1>3, FreeRecord DEF FreeInv
<1> QED BY <1>2, <1>3, <1>4, <1>7, <1>8, <1>9, TypeParts DEF IInv

\* The progress of the lost worker is committed, and pinned.
LEMMA RetrySteps ==
  ASSUME IInv, KeepProgress \/ PinProgress
  PROVE  IInv'
<1>0. /\ TypeOK /\ PlaceInv /\ FreeInv /\ RetiredInv /\ HeldInv
      /\ tree \in {"none", "clean", "dirty"}
  BY DEF IInv, TypeOK
<1>00. pc \in RetryPcs => st.phase = "stranded" /\ st.exec \in Execs
  BY <1>0 DEF PlaceInv
<1>1. CASE KeepProgress
  <2>1. /\ st.phase = "stranded" /\ tree # "none" /\ CommitTree
        /\ pc' = "keep" /\ mem' = [NoMem EXCEPT !.saw = Committed]
        /\ UNCHANGED <<st, product, remote, refs, disposition, reports, bounds>>
    BY <1>00, <1>1 DEF KeepProgress, RetryPcs
  <2>2. /\ Known \subseteq Known' /\ Committed \in Known' /\ branch' = Committed
        /\ branch' # None /\ tree' = "clean"
        /\ PlacesOK' /\ HistoryOK' /\ NothingLost' /\ Free(branch')
    BY <2>1, CommitSteps
  <2>3. OwnerOK'
    <3>1. mem' \in [saw : Known', replay : BOOLEAN]
      BY <2>1, <2>2 DEF NoMem
    <3> QED BY <1>0, <2>1, <3>1, TypeParts DEF OwnerOK, Pcs
  <2>4. StOK'
    BY <1>0, <2>1, <2>2, TypesGrow
  <2>5. PlaceInv' /\ HeldInv' /\ RetiredInv'
    BY <1>0, <2>1, <2>2 DEF PlaceInv, HeldInv, RetiredInv, DropPcs, PendingPcs, RetryPcs
  <2>6. FreeInv'
    BY <1>0, <2>1, <2>2, FreeRecord DEF FreeInv
  <2> QED BY <2>2, <2>3, <2>4, <2>5, <2>6, TypeParts DEF IInv
<1>2. CASE PinProgress
  <2> DEFINE r == <<"retry", st.exec>>
             ok == Pinnable(r, mem.saw)
  <2>1. /\ refs' = Same(refs, ok, Pinned(r, mem.saw)) /\ Check(ok, "authorize")
        /\ pc \in RetryPcs
    BY <1>2 DEF PinProgress, RetryPcs
  <2>2. r \in RefNames /\ mem.saw \in Known /\ (ok => Pinnable(r, mem.saw))
    BY <1>0, <1>00, <2>1, TypeParts DEF RefNames, OwnerOK
  <2> HIDE DEF r, ok
  <2>3. /\ OwnerOK'
        /\ IF ok THEN pc' = "authorize" /\ mem' = mem ELSE pc' = "loop" /\ mem' = NoMem
    BY <1>0, <1>2, <2>1, Checked DEF PinProgress, Pcs
  <2>4. RefsGrow /\ refs' \in [RefNames -> Known]
    BY <1>0, <2>1, <2>2, PinnedIf
  <2>5. PlaceInv' /\ RetiredInv' /\ HeldInv'
    BY <1>0, <1>00, <1>2, <2>1, <2>3 DEF PinProgress, PlaceInv, RetiredInv, HeldInv,
         DropPcs, PendingPcs, RetryPcs
  <2> QED BY <1>0, <1>2, <2>3, <2>4, <2>5, Moved DEF PinProgress
<1> QED BY <1>1, <1>2

-----------------------------------------------------------------------------
\* Everybody else.

\* The counters of the bounds.
LEMMA Counted ==
  ASSUME TypeOK
  PROVE  /\ Moves => bounds' \in [moves : 0..MaxMoves, faults : 0..MaxFaults,
                                  commands : 0..MaxCommands]
         /\ Interrupted => bounds' \in [moves : 0..MaxMoves, faults : 0..MaxFaults,
                                        commands : 0..MaxCommands]
  BY BoundsAssumption, TypeParts DEF OwnerOK, Moves, Interrupted

\* Somebody, or the worker, changes files in the worktree.
LEMMA EditSteps ==
  ASSUME IInv, WorkerWorks \/ OthersEdit
  PROVE  IInv'
<1>0. TypeOK /\ PlaceInv /\ HeldInv /\ RetiredInv
  BY DEF IInv
<1>1. /\ tree' = "dirty" /\ (tree = "clean" \/ (pc = "loop" /\ st.phase = "running"))
      /\ UNCHANGED <<st, product, branch, remote, refs, disposition, reports, made, pc, mem>>
  BY DEF WorkerWorks, OthersEdit, Moves
<1>2. OwnerOK'
  <2>1. bounds' \in [moves : 0..MaxMoves, faults : 0..MaxFaults, commands : 0..MaxCommands]
    BY <1>0, Counted, TypeParts DEF WorkerWorks, OthersEdit, OwnerOK
  <2> QED BY <1>0, <1>1, <2>1, TypesKept, TypeParts DEF OwnerOK
<1>3. PlaceInv' /\ RetiredInv'
  BY <1>0, <1>1 DEF PlaceInv, RetiredInv, DropPcs, PendingPcs, RetryPcs
<1>4. HeldInv'
  BY <1>0, <1>1 DEF HeldInv, Held
<1> QED BY <1>0, <1>1, <1>2, <1>3, <1>4, RefsAsTheyWere, Moved

\* A new commit of somebody else's, here or on the server.
LEMMA OthersCommits ==
  ASSUME IInv, OthersPush \/ OthersCommit
  PROVE  IInv'
<1>0. TypeOK /\ PlaceInv /\ HeldInv /\ RetiredInv /\ FreeInv /\ NothingLost
  BY DEF IInv
<1>1. /\ UNCHANGED <<st, product, refs, disposition, reports, pc, mem>>
      /\ bounds' \in [moves : 0..MaxMoves, faults : 0..MaxFaults, commands : 0..MaxCommands]
  BY <1>0, Counted DEF OthersPush, OthersCommit, Moves
<1>2. branch \in Known /\ remote \in Known /\ tree \in {"none", "clean", "dirty"}
      /\ Others \in 1..Others /\ Others \notin Execs
      /\ branch \in Seq(0..Others) /\ remote \in Seq(0..Others)
  BY <1>0, KnownCommits, TypeParts DEF PlacesOK
<1>3. /\ Known \subseteq Known' /\ branch' \in Known' /\ remote' \in Known'
      /\ branch' \in Seq(0..Others) /\ remote' \in Seq(0..Others)
      /\ made' \subseteq Seq(0..Others)
      /\ \A d \in made' : d # None /\ Head(d) = 0 /\ Last(d) \in 1..Others
      /\ IsPrefix(branch, branch') /\ IsPrefix(remote, remote')
      /\ made' \subseteq made \cup {branch', remote'}
      /\ Free(branch') /\ Free(remote')
      /\ tree' \in {"none", "clean", "dirty"}
      /\ branch' = None <=> branch = None
      /\ remote' = None <=> remote = None
      /\ tree' = "none" <=> tree = "none"
  <2>1. CASE OthersPush
    <3>1. /\ remote # None /\ remote' = Append(remote, Others)
          /\ made' = made \cup {Append(remote, Others)} /\ UNCHANGED <<branch, tree>>
      BY <2>1 DEF OthersPush
    <3>2. Free(remote) /\ Free(branch)
      BY <1>0 DEF FreeInv
    <3>3. IsPrefix(branch, branch)
      BY <1>2, PrefixOrder
    <3>4. /\ Known \subseteq Known' /\ Append(remote, Others) \in Known'
          /\ Append(remote, Others) # None /\ Append(remote, Others) \in Seq(0..Others)
          /\ made' \subseteq Seq(0..Others)
          /\ \A d \in made' : d # None /\ Head(d) = 0 /\ Last(d) \in 1..Others
          /\ IsPrefix(remote, Append(remote, Others)) /\ Free(Append(remote, Others))
      BY <1>0, <1>1, <1>2, <3>1, <3>2, NewCommit
    <3> QED BY <1>2, <3>1, <3>2, <3>3, <3>4
  <2>2. CASE OthersCommit
    <3>1. /\ branch # None /\ branch' = Append(branch, Others) /\ tree # "none"
          /\ made' = made \cup {Append(branch, Others)} /\ remote' = remote
          /\ tree' = "clean"
      BY <1>0, <2>2 DEF OthersCommit, PlaceInv
    <3>2. Free(remote) /\ Free(branch)
      BY <1>0 DEF FreeInv
    <3>3. IsPrefix(remote, remote)
      BY <1>2, PrefixOrder
    <3>4. /\ Known \subseteq Known' /\ Append(branch, Others) \in Known'
          /\ Append(branch, Others) # None /\ Append(branch, Others) \in Seq(0..Others)
          /\ made' \subseteq Seq(0..Others)
          /\ \A d \in made' : d # None /\ Head(d) = 0 /\ Last(d) \in 1..Others
          /\ IsPrefix(branch, Append(branch, Others)) /\ Free(Append(branch, Others))
      BY <1>0, <1>1, <1>2, <3>1, <3>2, NewCommit
    <3> QED BY <1>2, <3>1, <3>2, <3>3, <3>4
  <2> QED BY <2>1, <2>2
<1>4. StOK'
  BY <1>0, <1>1, <1>3, TypesGrow
<1>5. OwnerOK'
  BY <1>0, <1>1, <1>3, TypeParts DEF OwnerOK
<1>6. HistoryOK'
  BY <1>0, <1>1, <1>3, TypeParts DEF HistoryOK
<1>7. PlacesOK'
  <2>1. \A r \in RefNames : refs[r] \in Known'
    BY <1>0, <1>3, TypeParts DEF PlacesOK
  <2>2. refs \in [RefNames -> Known'] /\ product \in {<<0>>, <<0, 0>>}
    BY <1>0, <2>1, TypeParts DEF PlacesOK
  <2> QED BY <1>1, <1>3, <2>2 DEF PlacesOK
<1>8. NothingLost'
  BY <1>0, <1>1, <1>3, Grown
<1>9. FreeInv'
  BY <1>0, <1>1, <1>3, FreeRecord DEF FreeInv
<1>10. PlaceInv' /\ RetiredInv'
  BY <1>0, <1>1, <1>3 DEF PlaceInv, RetiredInv
<1>11. HeldInv'
  BY <1>0, <1>1 DEF HeldInv, Held
<1> QED BY <1>4, <1>5, <1>6, <1>7, <1>8, <1>9, <1>10, <1>11, TypeParts DEF IInv

\* The product moves between executions.
LEMMA ProductStep ==
  ASSUME IInv, ProductMoves
  PROVE  IInv'
<1>0. TypeOK /\ PlaceInv /\ HeldInv /\ RetiredInv /\ FreeInv /\ NothingLost
  BY DEF IInv
<1>1. /\ UNCHANGED <<st, branch, tree, remote, refs, disposition, reports, made, pc, mem>>
      /\ bounds' \in [moves : 0..MaxMoves, faults : 0..MaxFaults, commands : 0..MaxCommands]
      /\ product = <<0>> /\ product' = <<0, 0>>
  BY <1>0, Counted DEF ProductMoves, Moves
<1>2. Known \subseteq Known'
  BY <1>1 DEF Known
<1>3. StOK' /\ HistoryOK'
  BY <1>0, <1>1, <1>2, TypesGrow
<1>4. OwnerOK'
  BY <1>0, <1>1, <1>2, TypeParts DEF OwnerOK
<1>5. PlacesOK'
  <2>1. \A r \in RefNames : refs[r] \in Known'
    BY <1>0, <1>2, TypeParts DEF PlacesOK
  <2>2. refs \in [RefNames -> Known']
    BY <1>0, <2>1, TypeParts DEF PlacesOK
  <2> QED BY <1>0, <1>1, <1>2, <2>2, TypeParts DEF PlacesOK
<1>6. NothingLost' /\ FreeInv'
  BY <1>0, <1>1, FreeKept DEF NothingLost
<1>7. PlaceInv' /\ RetiredInv' /\ HeldInv'
  BY <1>0, <1>1 DEF PlaceInv, RetiredInv, HeldInv, Held
<1> QED BY <1>3, <1>4, <1>5, <1>6, <1>7, TypeParts DEF IInv

\* The owner is interrupted.
LEMMA InterruptedStep ==
  ASSUME IInv, Interrupted
  PROVE  IInv'
<1>1. bounds' \in [moves : 0..MaxMoves, faults : 0..MaxFaults, commands : 0..MaxCommands]
  BY Counted DEF IInv
<1> QED BY <1>1, Returned DEF Interrupted, world

-----------------------------------------------------------------------------
\* The inductive invariant.

\* It holds initially.
LEMMA InitIInv ==
  ASSUME Init
  PROVE  IInv
<1>1. /\ st = NoRecord /\ product = <<0>> /\ branch = None /\ tree = "none"
      /\ remote = None /\ refs = [r \in RefNames |-> None]
      /\ disposition = [e \in Execs |-> "none"] /\ reports = {} /\ made = {}
      /\ pc = "loop" /\ mem = NoMem
      /\ bounds = [moves |-> 0, faults |-> 0, commands |-> 0]
  BY DEF Init
<1>2. None \in Known
  BY DEF Known
<1>3. StOK
  <2>1. 0 \in 0..MaxExecs
    BY BoundsAssumption
  <2> QED BY <1>1, <1>2, <2>1 DEF StOK, NoRecord, Phases
<1>4. PlacesOK
  BY <1>1, <1>2 DEF PlacesOK
<1>5. HistoryOK
  BY <1>1 DEF HistoryOK
<1>6. OwnerOK
  BY <1>1, <1>2, BoundsAssumption DEF OwnerOK, NoMem, Pcs
<1>7. NothingLost
  BY <1>1 DEF NothingLost
<1>8. PlaceInv /\ HeldInv /\ RetiredInv
  BY <1>1 DEF PlaceInv, HeldInv, RetiredInv, DropPcs, PendingPcs, RetryPcs, NoRecord
<1>9. FreeInv
  <2>1. \A e \in Execs : disposition[e] = "none"
    BY <1>1
  <2> QED BY <2>1 DEF FreeInv, Free, Dropped
<1> QED BY <1>3, <1>4, <1>5, <1>6, <1>7, <1>8, <1>9, TypeParts DEF IInv

\* Every step keeps it.
LEMMA NextIInv ==
  ASSUME IInv, [Next]_vars
  PROVE  IInv'
<1>1. CASE ServiceStep
  <2>1. CASE ExecutionStep
    BY <2>1, ExecutionSteps, WorkerSteps
  <2>2. CASE DropStep
    BY <2>2, DropSteps, ForgetStep
  <2>3. CASE RecoverStep
    BY <2>3, RecoverSteps, RecoveryEnds
  <2>4. CASE RepairStep
    BY <2>4, RepairSteps
  <2>5. CASE RetryStep
    BY <2>5, RetrySteps, AuthorizeStep DEF RetryStep
  <2> QED BY <1>1, <2>1, <2>2, <2>3, <2>4, <2>5 DEF ServiceStep
<1>2. CASE Progress
  BY <1>2, BeginStep, EditSteps, WorkerSteps, CheckpointStep, PublishStep, ApplyStep
     DEF Progress
<1>3. CASE OperatorStep
  BY <1>3, CommandSteps, RecoveryStarts DEF OperatorStep
<1>4. CASE OthersStep
  BY <1>4, ProductStep, OthersCommits, EditSteps, InterruptedStep DEF OthersStep
<1>5. CASE UNCHANGED vars
  <2>1. UNCHANGED <<st, product, branch, tree, remote, refs, disposition, reports, made,
                    pc, mem, bounds>>
    BY <1>5 DEF vars, world
  <2>2. Known' = Known
    BY <2>1 DEF Known
  <2> QED BY <2>1, <2>2 DEF IInv, TypeOK, NothingLost, PlaceInv, HeldInv, Held, FreeInv,
         Free, Dropped, Active, RetiredInv
<1> QED BY <1>1, <1>2, <1>3, <1>4, <1>5 DEF Next

-----------------------------------------------------------------------------
\* The theorems.

\* The inductive invariant holds in every reachable state.
THEOREM Invariance == Spec => []IInv
<1>1. Init => IInv
  BY InitIInv
<1>2. IInv /\ [Next]_vars => IInv'
  BY NextIInv
<1> QED BY <1>1, <1>2, PTL DEF Spec

\* The record, the refs and the owner's variables keep their types.
THEOREM TypeCorrect == Spec => []TypeOK
<1>1. IInv => TypeOK
  BY DEF IInv
<1> QED BY <1>1, Invariance, PTL

\* Whatever a drop, a recovery, a repair or a forced retry removes or moves,
\* interrupted anywhere and with others committing and pushing meanwhile, no
\* commit of the execution branch becomes unreachable.
THEOREM CommitsKept == Spec => []NothingLost
<1>1. IInv => NothingLost
  BY DEF IInv
<1> QED BY <1>1, Invariance, PTL

\* From the first trace of a drop on, the result of the execution is neither
\* applied nor built upon by a later worker.
THEOREM DropIsFinal == Spec => DroppedStaysOut
<1> DEFINE A == \A e \in Execs : disposition[e] # "none" =>
                  /\ \A r \in reports' \ reports : r.exec # e
                  /\ (st'.phase = "running" /\ st.phase = "pending") =>
                       \A i \in DOMAIN st'.start : st'.start[i] # e
<1>1. IInv /\ [Next]_vars => [A]_vars
  <2>1. SUFFICES ASSUME IInv, Next, NEW e \in Execs, disposition[e] # "none"
                 PROVE  /\ \A r \in reports' \ reports : r.exec # e
                        /\ (st'.phase = "running" /\ st.phase = "pending") =>
                             \A i \in DOMAIN st'.start : st'.start[i] # e
    BY DEF A
  <2>2. TypeOK /\ PlaceInv /\ FreeInv /\ st.phase \in Phases
    BY <2>1, TypeParts DEF IInv, StOK
  <2>3. CASE Launch
    <3>1. reports' = reports /\ st.phase = "pending" /\ st'.start = branch
      BY <2>2, <2>3, TypeParts DEF Launch, world, PlaceInv, PendingPcs, StOK
    <3>2. Dropped(e)
      BY <2>1, <2>2, <3>1 DEF FreeInv, Dropped, Active
    <3>3. \A i \in DOMAIN branch : branch[i] # e
      BY <2>2, <3>2 DEF FreeInv, Free
    <3> QED BY <3>1, <3>3
  <2>4. CASE ApplyLifecycle
    <3>1. reports' \ reports \subseteq {[exec |-> st.exec, head |-> st.report]}
          /\ e # st.exec /\ st.phase = "lifecycle"
      BY <2>1, <2>4 DEF ApplyLifecycle
    <3> QED BY <3>1
  <2>5. CASE reports' = reports /\ (st'.phase = st.phase \/ st.phase # "pending")
    BY <2>5
  <2>6. Launch \/ ApplyLifecycle \/
        (reports' = reports /\ (st'.phase = st.phase \/ st.phase # "pending"))
    <3>1. CASE ExecutionStep
      BY <3>1 DEF ExecutionStep, ResumePending, EnsureBranch, AddWorktree, world
    <3>2. CASE DropStep
      BY <2>2, <3>2 DEF DropStep, ResumeDrop, PersistDropIntent, PinDropEvidence, Dispose,
           RetireRemote, RetireTree, RetireBranch, ForgetDropped, world, PlaceInv, DropPcs
    <3>3. CASE RecoverStep
      <4>1. CASE Recovered
        <5>1. st' = st \/ st' = [st EXCEPT !.recovery = None, !.start = None, !.remote = remote]
          BY <4>1 DEF Recovered, Same
        <5>2. st'.phase = st.phase
          BY <2>2, <5>1, TypeParts DEF StOK
        <5> QED BY <4>1, <5>2 DEF Recovered, world
      <4>2. CASE ~Recovered
        BY <3>3, <4>2 DEF RecoverStep, ResumeRecovery, PinRecovered, PinRemote, PushBase,
             VacateTree, MoveBranch, Rebuild, world
      <4> QED BY <4>1, <4>2
    <3>4. CASE RepairStep
      BY <3>4 DEF RepairStep, PinPrior, ClearTree, ResetBranch, Remake
    <3>5. CASE RetryStep
      BY <2>2, <3>5 DEF RetryStep, KeepProgress, PinProgress, Authorize, world, PlaceInv, RetryPcs
    <3>6. CASE Progress
      BY <3>6 DEF Progress, Begin, WorkerWorks, WorkerLost, Checkpoint, Publish, world
    <3>7. CASE OperatorStep
      <4>1. CASE \E h \in {branch} \cup {refs[<<"recover", x>>] : x \in Execs} : Recover(h)
        <5>1. reports' = reports /\ \E h : st' = [st EXCEPT !.recovery = h]
          BY <4>1 DEF Recover, world
        <5>2. st'.phase = st.phase
          BY <2>2, <5>1, TypeParts DEF StOK
        <5> QED BY <5>1, <5>2
      <4>2. CASE (\E x \in Execs : Drop(x)) \/ ForceRetry
        BY <4>2 DEF Drop, ForceRetry, world
      <4> QED BY <3>7, <4>1, <4>2 DEF OperatorStep
    <3>8. CASE OthersStep
      BY <3>8 DEF OthersStep, ProductMoves, OthersPush, OthersEdit, OthersCommit, Moves,
           Interrupted, world
    <3> QED BY <2>1, <3>1, <3>2, <3>3, <3>4, <3>5, <3>6, <3>7, <3>8 DEF Next, ServiceStep
  <2> QED BY <2>3, <2>4, <2>5, <2>6
<1>2. (Spec => [][A]_vars) => (Spec => DroppedStaysOut)
  BY DEF DroppedStaysOut
<1> QED BY <1>1, <1>2, Invariance, PTL DEF Spec
=============================================================================
