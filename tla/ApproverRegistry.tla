-------------------------- MODULE ApproverRegistry --------------------------
(***************************************************************************)
(* The approver registry (qfc-quorum/src/registry), in memory and over     *)
(* Postgres: approvers are added and revoked while calls of                *)
(* create_approver_set check members, walk the nested wallets and insert.  *)
(*                                                                         *)
(* In memory the checks run under read locks released one after the other. *)
(* In Postgres they run in one READ COMMITTED transaction: every member's  *)
(* row stays share-locked to its end, the sets are read without a lock.    *)
(* The identities are fixed: NestedOf[a] is the wallet approver a is       *)
(* nested on, or NoWallet.                                                 *)
(***************************************************************************)
EXTENDS ApprovalTypes, FiniteSets, Folds

CONSTANTS
  NestedOf, NoWallet,
  Calls,               \* calls of create_approver_set
  Thresholds,          \* bound: thresholds and totals that are asked for
  MaxMembers,          \* bound: members of a set
  MAX_NESTING_DEPTH

ASSUME RegistryAssumption ==
  MAX_NESTING_DEPTH \in Nat /\ MaxMembers \in Nat /\ Thresholds \subseteq Nat

VARIABLES
  backend,    \* "memory" or "postgres"
  approver,   \* [Approvers -> "absent", "Active" or "Revoked"]
  sets,       \* the stored sets, in the order of their inserts
  call        \* per call: where it is, its members, its answer

registryVars == <<backend, approver, sets, call>>

Pending == [pc |-> "idle"]

RegistryInit ==
  /\ backend \in {"memory", "postgres"}
  /\ approver = [a \in Approvers |-> "absent"]
  /\ sets = <<>>
  /\ call = [c \in Calls |-> Pending]

MemberLists == UNION {[1 .. n -> Approvers] : n \in 0 .. MaxMembers}

validate_set_shape(members, threshold, total) ==
  IF threshold = 0 \/ threshold > total THEN "InvalidThreshold"
  ELSE IF Len(members) # total THEN "MemberCountMismatch"
  ELSE IF \E i, j \in DOMAIN members : i # j /\ members[i] = members[j] THEN "DuplicateMember"
  ELSE "Ok"

MemberVerdict(a) ==
  CASE approver[a] = "absent" -> "UnknownMember"
    [] approver[a] = "Revoked" -> "RevokedMember"
    [] approver[a] = "Active" -> "Ok"

Wallets == {NestedOf[a] : a \in Approvers} \ {NoWallet}
Nested(members) == {NestedOf[members[i]] : i \in DOMAIN members} \ {NoWallet}

\* What a visit of wallet w pushes on the stack: for every set and every member
\* nested on w, each other nested wallet of that set.
Pushed(w, known, d) ==
  LET wallet(s, i) == NestedOf[known[s].members[i]]
      hits == {h \in (DOMAIN known) \X (1 .. MaxMembers) \X (1 .. MaxMembers) :
                 /\ {h[2], h[3]} \subseteq DOMAIN known[h[1]].members
                 /\ wallet(h[1], h[2]) = w
                 /\ wallet(h[1], h[3]) \notin {w, NoWallet}}
      entry(h) == [wallet |-> wallet(h[1], h[3]), depth |-> d]
      push(e, stack) == Append(stack, e)
      any(S) == CHOOSE h \in S : TRUE
  IN  MapThenFoldSet(push, <<>>, entry, any, hits)

\* walk_nested: depth first over an explicit stack, popped at its end.
walk_nested(w, known) ==
  LET visit[v \in Seq([wallet : Wallets, depth : Nat]) \X SUBSET Wallets] ==
        LET stack == v[1]
            top == stack[Len(stack)]
        IN  IF stack = <<>> THEN "Ok"
            ELSE IF top.depth > MAX_NESTING_DEPTH THEN "NestingTooDeep"
            ELSE IF top.wallet \in v[2] THEN "NestingCycle"
            ELSE visit[<<SubSeq(stack, 1, Len(stack) - 1)
                           \o Pushed(top.wallet, known, top.depth + 1),
                         v[2] \cup {top.wallet}>>]
      start == << [wallet |-> w, depth |-> 0] >>
  IN  visit[<<start, {}>>]

\* Mutant: one nested wallet of the members is walked.
FirstWalkErrors(members) ==
  {walk_nested(w, sets) : w \in IF members # <<>> THEN Nested(<<members[1]>>) ELSE {}} \ {"Ok"}

WalkErrors(members) == {walk_nested(w, sets) : w \in Nested(members)} \ {"Ok"}
-----------------------------------------------------------------------------
AddApprover(a) ==
  /\ approver[a] = "absent"
  /\ approver' = [approver EXCEPT ![a] = "Active"]
  /\ UNCHANGED <<backend, sets, call>>

\* The members whose rows call c has locked FOR SHARE.
Locked(c) ==
  IF backend = "memory" \/ call[c].pc \notin {"members", "walk", "insert"} THEN {}
  ELSE {call[c].members[i] : i \in 1 .. call[c].checked}

\* Mutant: the members are selected without FOR SHARE.
RevokeAnytime(a) ==
  /\ approver[a] # "absent"
  /\ approver' = [approver EXCEPT ![a] = "Revoked"]
  /\ UNCHANGED <<backend, sets, call>>

\* Idempotent; an unknown id is answered ApproverNotFound.  The UPDATE waits
\* for the transactions that hold the row.
RevokeApprover(a) ==
  /\ approver[a] # "absent"
  /\ \A c \in Calls : a \notin Locked(c)
  /\ approver' = [approver EXCEPT ![a] = "Revoked"]
  /\ UNCHANGED <<backend, sets, call>>

Answered(c, answer) == call' = [call EXCEPT ![c] = [pc |-> "done", answer |-> answer]]

\* The call's state before its shape check; begun and revoked are history: how
\* many sets were stored and who was revoked when it began.
BeginCreate(c, members, threshold, total) ==
  /\ call[c] = Pending
  /\ LET shape == validate_set_shape(members, threshold, total) IN
     \/ shape # "Ok" /\ Answered(c, shape)
     \/ /\ shape = "Ok"
        /\ call' = [call EXCEPT ![c] =
             [pc |-> "members", members |-> members, checked |-> 0, begun |-> Len(sets),
              revoked |-> {a \in Approvers : approver[a] = "Revoked"}]]
  /\ UNCHANGED <<backend, approver, sets>>

\* In memory: all members, in order, under one read lock.
CheckMembers(c) ==
  /\ backend = "memory" /\ call[c].pc = "members"
  /\ LET members == call[c].members
         bad == {i \in DOMAIN members : MemberVerdict(members[i]) # "Ok"} IN
     \/ \E i \in bad :
          (\A j \in bad : i <= j) /\ Answered(c, MemberVerdict(members[i]))
     \/ /\ bad = {}
        /\ call' = [call EXCEPT ![c] =
             [@ EXCEPT !.pc = "walk", !.checked = Len(members)]]
  /\ UNCHANGED <<backend, approver, sets>>

\* In Postgres: the next member, SELECT ... FOR SHARE.
LockMember(c) ==
  /\ backend = "postgres" /\ call[c].pc = "members"
  /\ LET i == call[c].checked + 1
         verdict == MemberVerdict(call[c].members[i]) IN
     \/ verdict # "Ok" /\ Answered(c, verdict)
     \/ /\ verdict = "Ok"
        /\ call' = [call EXCEPT ![c] =
             [@ EXCEPT !.checked = i,
                       !.pc = IF i = Len(call[c].members) THEN "walk" ELSE "members"]]
  /\ UNCHANGED <<backend, approver, sets>>

\* The walk over the sets stored now, for every nested wallet of the members.
WalkSets(c) ==
  /\ call[c].pc = "walk"
  /\ LET errors == WalkErrors(call[c].members) IN
     \/ \E e \in errors : Answered(c, e)
     \/ errors = {} /\ call' = [call EXCEPT ![c] = [@ EXCEPT !.pc = "insert"]]
  /\ UNCHANGED <<backend, approver, sets>>

\* The insert, in Postgres with the commit, whose answer may be lost.  live is
\* history: whether every member is active at this moment.
InsertSet(c) ==
  /\ call[c].pc = "insert"
  /\ sets' = Append(sets,
       [members |-> call[c].members, begun |-> call[c].begun, revoked |-> call[c].revoked,
        live |-> \A i \in DOMAIN call[c].members : approver[call[c].members[i]] = "Active"])
  /\ \E answer \in {"Ok"} \cup (IF backend = "postgres" THEN {"Io"} ELSE {}) :
       Answered(c, answer)
  /\ UNCHANGED <<backend, approver>>

\* A query fails, or the handler's future is dropped: nothing is stored and the
\* locks are released.
AbandonCreate(c) ==
  /\ call[c].pc \in {"members", "walk", "insert"}
  /\ Answered(c, "Io")
  /\ UNCHANGED <<backend, approver, sets>>

RegistryNext ==
  \/ \E a \in Approvers : AddApprover(a) \/ RevokeApprover(a)
  \/ \E c \in Calls :
       \/ \E members \in MemberLists, threshold, total \in Thresholds :
            BeginCreate(c, members, threshold, total)
       \/ CheckMembers(c) \/ LockMember(c) \/ WalkSets(c) \/ InsertSet(c)
       \/ AbandonCreate(c)

RegistrySpec == RegistryInit /\ [][RegistryNext]_registryVars
-----------------------------------------------------------------------------
(* Properties *)

\* A call sees every set that was stored when it began, whatever is created
\* meanwhile: a stored set's nested wallets pass the walk over those sets.  Two
\* overlapping calls need not see each other.
SetsSawEarlierSets ==
  \A k \in DOMAIN sets : \A w \in Nested(sets[k].members) :
    walk_nested(w, SubSeq(sets, 1, sets[k].begun)) = "Ok"
=============================================================================
