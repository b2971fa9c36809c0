------------------------------ MODULE TzProofs ------------------------------
(***************************************************************************)
(* The token table and the context shim, for any number of threads, slots, *)
(* contexts and thread ids: every property the TLC run checks.             *)
(***************************************************************************)
EXTENDS TzShim, TLAPS, WellFoundedInduction

LEMMA LessRelation == \A j, i \in Nat : j < i => <<j, i>> \in OpToRel(<, Nat)
BY Zenon DEF OpToRel

\* A loop over the slots that looks for a token stops at one that has it, if
\* there is one.
LEMMA LoopFindsSlot ==
    ASSUME NEW tab, NEW token, HasToken(tab, token) # {}
    PROVE  /\ FirstSlot(tab, token) \in Slots
           /\ tab[FirstSlot(tab, token)].token = token
<1> DEFINE S == HasToken(tab, token)
<1>1. S \subseteq Nat /\ S \subseteq Slots
  BY NsidConstants DEF HasToken, Slots
<1>2. PICK i \in S : \A j \in S : ~(<<j, i>> \in OpToRel(<, Nat))
  <2> HIDE DEF S
  <2> QED BY <1>1, NatLessThanWellFounded, WFMin, Zenon DEF S
<1>3. \A j \in S : ~(j < i)
  BY <1>1, <1>2, LessRelation
<1>4. \A j \in S : i <= j
  <2> HIDE DEF S
  <2> QED BY <1>1, <1>3
<1>5. i \in Slots /\ IsFirst(i, HasToken(tab, token))
  BY <1>1, <1>4 DEF IsFirst
<1>6. FirstSlot(tab, token) \in Slots /\ IsFirst(FirstSlot(tab, token), HasToken(tab, token))
  BY <1>5, Zenon DEF FirstSlot
<1> QED BY <1>6 DEF IsFirst, HasToken

-----------------------------------------------------------------------------
\* Every token that is known anywhere is below the next thread id, and a live
\* thread's context is one ns_client_ext still has.
TokensBelowCounter ==
    /\ \A token \in contexts \cup unreleased : token < nsid_mgr_thread_id
    /\ \A t \in Threads : tz_memory[t] < nsid_mgr_thread_id
    /\ active.token < nsid_mgr_thread_id

LiveContexts == /\ \A t \in Threads : Alive(t) => tz_memory[t] \in contexts
                /\ running # Idle => Alive(running)

TzInv == /\ TypeOK
         /\ TableMatchesThreads
         /\ RunsUnderOwnNsid
         /\ TokensBelowCounter
         /\ LiveContexts

\* The NSID of a thread is a non-secure one: negative.
LEMMA ModuleNegative == \A t \in Threads : Module(t) \in Int /\ Module(t) < 0
BY NsidConstants, TzConstants DEF Module, GetThreadNsid, DefaultNsid

LEMMA InitInv == Init => TzInv
<1> SUFFICES ASSUME Init PROVE TzInv
  OBVIOUS
<1> USE NsidConstants, TzConstants DEF Init, EmptyTable, FreeEntry, NothingLoaded,
        InvalidToken, InvalidNsidMin
<1>1. TypeOK
  BY DEF TypeOK, Entry, Tokens
<1>2. TableMatchesThreads
  BY DEF TableMatchesThreads, Alive
<1>3. RunsUnderOwnNsid
  BY DEF RunsUnderOwnNsid, Alive
<1>4. TokensBelowCounter /\ LiveContexts
  BY DEF TokensBelowCounter, LiveContexts, Alive
<1> QED BY <1>1, <1>2, <1>3, <1>4 DEF TzInv

-----------------------------------------------------------------------------
\* What a creation that gets an entry does: t's new token is the thread id, and
\* a free slot holds it.
LEMMA Created ==
    ASSUME TzInv, NEW t \in Threads, AllocModuleContext(t),
           AddError(table, Module(t), AcquireCtx(nsid_mgr_thread_id)) = "SUCCESS"
    PROVE  /\ tz_memory' = [tz_memory EXCEPT ![t] = nsid_mgr_thread_id]
           /\ contexts' = contexts \cup {nsid_mgr_thread_id}
           /\ \E i \in Slots :
                 /\ table[i].token = InvalidToken
                 /\ table' = [table EXCEPT ![i] = [token |-> nsid_mgr_thread_id, nsid |-> Module(t)]]
<1> USE NsidConstants, TzConstants
<1>1. AcquireCtx(nsid_mgr_thread_id) = nsid_mgr_thread_id /\ HasToken(table, InvalidToken) # {}
  BY DEF AddError, AcquireCtx, AllocModuleContext
<1>2. nsid_mgr_thread_id # InvalidToken
  BY DEF TzInv, TypeOK, InvalidToken
<1> DEFINE i == FirstSlot(table, InvalidToken)
<1>3. i \in Slots /\ table[i].token = InvalidToken
  BY <1>1, LoopFindsSlot
<1>4. table' = [table EXCEPT ![i] = [token |-> nsid_mgr_thread_id, nsid |-> Module(t)]]
  BY <1>1 DEF AllocModuleContext, AddEntry
<1>5. /\ tz_memory' = [tz_memory EXCEPT ![t] = nsid_mgr_thread_id]
      /\ contexts' = contexts \cup {nsid_mgr_thread_id}
  BY <1>1, <1>2 DEF AllocModuleContext
<1> QED BY <1>3, <1>4, <1>5

\* What one that gets none leaves: the id is used up, the context may be kept.
LEMMA NotCreated ==
    ASSUME TzInv, NEW t \in Threads, AllocModuleContext(t),
           AddError(table, Module(t), AcquireCtx(nsid_mgr_thread_id)) # "SUCCESS"
    PROVE  /\ UNCHANGED <<table, tz_memory>>
           /\ contexts' \in {contexts, contexts \cup {nsid_mgr_thread_id}}
           /\ contexts' # contexts => HasToken(table, InvalidToken) = {}
<1> USE NsidConstants, TzConstants
<1>1. tz_memory \in [Threads -> Tokens] /\ tz_memory[t] = 0
  BY DEF TzInv, TypeOK, AllocModuleContext, Alive
<1>2. UNCHANGED <<table, tz_memory>>
  BY <1>1 DEF AllocModuleContext
<1>3. AcquireCtx(nsid_mgr_thread_id) \in {nsid_mgr_thread_id, InvalidToken}
  BY DEF AcquireCtx
<1>4. contexts' = contexts \cup ({AcquireCtx(nsid_mgr_thread_id)} \ {InvalidToken})
  BY DEF AllocModuleContext
<1>5. contexts' # contexts => AcquireCtx(nsid_mgr_thread_id) # InvalidToken
  BY <1>4
<1>6. AcquireCtx(nsid_mgr_thread_id) # InvalidToken => HasToken(table, InvalidToken) = {}
  BY ModuleNegative DEF AddError, InvalidNsidMin
<1>7. contexts' \in {contexts, contexts \cup {nsid_mgr_thread_id}}
  BY <1>3, <1>4
<1> QED BY <1>2, <1>5, <1>6, <1>7

\* The 8-bit increment does not wrap while the check before it passes.
LEMMA CounterGrows ==
    ASSUME TzInv, ThreadIdsLeft
    PROVE  NextThreadId = nsid_mgr_thread_id + 1 /\ NextThreadId \in 1..ThreadIdMax
<1>1. nsid_mgr_thread_id \in 1..ThreadIdMax /\ nsid_mgr_thread_id < ThreadIdMax /\ ThreadIdMax \in Nat
  BY TzConstants DEF TzInv, TypeOK, ThreadIdsLeft
<1> QED BY <1>1 DEF NextThreadId

LEMMA AllocInv ==
    ASSUME TzInv, NEW t \in Threads, AllocModuleContext(t)
    PROVE  TzInv'
<1> USE NsidConstants, TzConstants
<1>1. nsid_mgr_thread_id' = nsid_mgr_thread_id + 1 /\ nsid_mgr_thread_id' \in 1..ThreadIdMax
  BY CounterGrows DEF AllocModuleContext
<1>2. UNCHANGED <<current_active_token, active, unreleased, running>> /\ tz_memory[t] = 0
  BY DEF AllocModuleContext, Alive
<1>3. nsid_mgr_thread_id \in 1..ThreadIdMax /\ nsid_mgr_thread_id \in Tokens
  BY DEF TzInv, TypeOK, Tokens
<1>4. CASE AddError(table, Module(t), AcquireCtx(nsid_mgr_thread_id)) = "SUCCESS"
  <2>1. /\ tz_memory' = [tz_memory EXCEPT ![t] = nsid_mgr_thread_id]
        /\ contexts' = contexts \cup {nsid_mgr_thread_id}
    BY <1>4, Created
  <2>2. PICK i \in Slots :
           /\ table[i].token = InvalidToken
           /\ table' = [table EXCEPT ![i] = [token |-> nsid_mgr_thread_id, nsid |-> Module(t)]]
    BY <1>4, Created
  <2>3. TypeOK'
    BY <1>1, <1>2, <1>3, <2>1, <2>2, ModuleNegative DEF TzInv, TypeOK, Entry
  <2>4. \A j \in Slots : table[j].token # nsid_mgr_thread_id
    BY <1>3 DEF TzInv, TableMatchesThreads, TokensBelowCounter, TypeOK, Tokens, InvalidToken
  <2>5. TableMatchesThreads'
    <3>1. \A j \in Slots : j # i => table'[j] = table[j]
      BY <2>2 DEF TzInv, TypeOK
    <3>2. table'[i] = [token |-> nsid_mgr_thread_id, nsid |-> Module(t)]
      BY <2>2 DEF TzInv, TypeOK
    <3>3. tz_memory'[t] = nsid_mgr_thread_id /\ \A u \in Threads : u # t => tz_memory'[u] = tz_memory[u]
      BY <2>1 DEF TzInv, TypeOK
    <3>4. \A u \in Threads : Alive(u)' <=> (u = t \/ Alive(u))
      BY <1>3, <3>3, <1>2 DEF Alive
    <3>5. ~Alive(t)
      BY <1>2 DEF Alive
    <3>6. \A j \in Slots : table'[j].token # InvalidToken =>
             \E u \in Threads : Alive(u)' /\ table'[j] = [token |-> tz_memory'[u], nsid |-> Module(u)]
      <4> SUFFICES ASSUME NEW j \in Slots, table'[j].token # InvalidToken
                   PROVE  \E u \in Threads : Alive(u)' /\ table'[j] = [token |-> tz_memory'[u], nsid |-> Module(u)]
        OBVIOUS
      <4>1. CASE j = i
        BY <4>1, <3>2, <3>3, <3>4
      <4>2. CASE j # i
        <5>1. PICK u \in Threads : Alive(u) /\ table[j] = [token |-> tz_memory[u], nsid |-> Module(u)]
          BY <4>2, <3>1 DEF TzInv, TableMatchesThreads
        <5> QED BY <5>1, <4>2, <3>1, <3>3, <3>4, <3>5
      <4> QED BY <4>1, <4>2
    <3>7. \A u \in Threads : Alive(u)' => \E j \in Slots : table'[j].token = tz_memory'[u]
      <4> SUFFICES ASSUME NEW u \in Threads, Alive(u)' PROVE \E j \in Slots : table'[j].token = tz_memory'[u]
        OBVIOUS
      <4>1. CASE u = t
        BY <4>1, <3>2, <3>3
      <4>2. CASE u # t
        <5>1. PICK j \in Slots : table[j].token = tz_memory[u]
          BY <4>2, <3>4 DEF TzInv, TableMatchesThreads
        <5>2. tz_memory[u] # InvalidToken
          BY DEF TzInv, TypeOK, Tokens, InvalidToken
        <5> QED BY <5>1, <5>2, <4>2, <2>2, <3>1, <3>3
      <4> QED BY <4>1, <4>2
    <3>8. \A j, k \in Slots : table'[j].token = table'[k].token /\ table'[j].token # InvalidToken => j = k
      BY <2>4, <3>1, <3>2 DEF TzInv, TableMatchesThreads
    <3>9. \A u, v \in Threads : Alive(u)' /\ tz_memory'[u] = tz_memory'[v] => u = v
      <4>1. \A u \in Threads : tz_memory[u] < nsid_mgr_thread_id
        BY DEF TzInv, TokensBelowCounter
      <4> QED BY <4>1, <1>3, <3>3, <3>4 DEF TzInv, TableMatchesThreads, TypeOK, Tokens
    <3> QED BY <3>6, <3>7, <3>8, <3>9 DEF TableMatchesThreads, Module
  <2>6. /\ LiveContexts' /\ TokensBelowCounter'
        /\ RunsUnderOwnNsid'
    <3>1. tz_memory'[t] = nsid_mgr_thread_id /\ \A u \in Threads : u # t => tz_memory'[u] = tz_memory[u]
      BY <2>1 DEF TzInv, TypeOK
    <3>2. \A u \in Threads : Alive(u)' => u = t \/ Alive(u)
      BY <3>1 DEF Alive
    <3>3. TokensBelowCounter'
      BY <1>1, <1>2, <1>3, <2>1, <3>1 DEF TzInv, TokensBelowCounter, TypeOK, Tokens, Entry, InvalidToken
    <3>4. LiveContexts'
      BY <1>2, <1>3, <2>1, <3>1, <3>2 DEF TzInv, LiveContexts, Alive, TypeOK
    <3>5. running # t
      BY <1>2 DEF TzInv, LiveContexts, Alive
    <3>6. active.token # nsid_mgr_thread_id
      BY <1>3 DEF TzInv, TokensBelowCounter, TypeOK, Entry, Tokens, InvalidToken
    <3>7. RunsUnderOwnNsid'
      BY <1>2, <3>1, <3>2, <3>5, <3>6 DEF TzInv, RunsUnderOwnNsid, TypeOK, Module
    <3> QED BY <3>3, <3>4, <3>7
  <2> QED BY <2>3, <2>5, <2>6 DEF TzInv
<1>5. CASE AddError(table, Module(t), AcquireCtx(nsid_mgr_thread_id)) # "SUCCESS"
  <2>1. UNCHANGED <<table, tz_memory>> /\ contexts' \in {contexts, contexts \cup {nsid_mgr_thread_id}}
    BY <1>5, NotCreated
  <2>2. TypeOK'
    BY <1>1, <1>2, <1>3, <2>1 DEF TzInv, TypeOK
  <2>3. TableMatchesThreads' /\ RunsUnderOwnNsid'
    BY <1>2, <2>1 DEF TzInv, TableMatchesThreads, RunsUnderOwnNsid, Alive, Module
  <2>4. TokensBelowCounter'
    BY <1>1, <1>2, <1>3, <2>1 DEF TzInv, TokensBelowCounter, TypeOK, Tokens, Entry, InvalidToken
  <2>5. LiveContexts'
    BY <1>2, <2>1 DEF TzInv, LiveContexts, Alive
  <2> QED BY <2>2, <2>3, <2>4, <2>5 DEF TzInv
<1> QED BY <1>4, <1>5

-----------------------------------------------------------------------------
\* A termination takes exactly t's entry out of the table.
LEMMA Removed ==
    ASSUME TzInv, NEW t \in Threads, Alive(t),
           table' = RemoveEntry(table, tz_memory[t])
    PROVE  \E i \in Slots : /\ table[i].token = tz_memory[t]
                           /\ table' = [table EXCEPT ![i] = FreeEntry]
<1>1. HasToken(table, tz_memory[t]) # {}
  BY DEF TzInv, TableMatchesThreads, HasToken
<1> QED BY <1>1, LoopFindsSlot DEF RemoveEntry

\* The part of the invariant about the table, when t terminates.
LEMMA TableAfterRemoval ==
    ASSUME TzInv, NEW t \in Threads, Gone(t),
           table' = RemoveEntry(table, tz_memory[t])
    PROVE  /\ table' \in [Slots -> Entry] /\ tz_memory' \in [Threads -> Tokens]
           /\ running' \in Threads \cup {Idle}
           /\ \A u \in Threads : Alive(u)' <=> u # t /\ Alive(u)
           /\ \A u \in Threads : u # t => tz_memory'[u] = tz_memory[u]
           /\ tz_memory'[t] = 0
           /\ TableMatchesThreads'
<1> USE NsidConstants, TzConstants
<1>1. Alive(t) /\ tz_memory' = [tz_memory EXCEPT ![t] = 0]
      /\ running' = IF running = t THEN Idle ELSE running
  BY DEF Gone
<1>2. PICK i \in Slots : /\ table[i].token = tz_memory[t]
                         /\ table' = [table EXCEPT ![i] = FreeEntry]
  BY <1>1, Removed
<1>3. table' \in [Slots -> Entry] /\ tz_memory' \in [Threads -> Tokens] /\ running' \in Threads \cup {Idle}
  BY <1>1, <1>2 DEF TzInv, TypeOK, Entry, Tokens, FreeEntry, InvalidToken, InvalidNsidMin
<1>4. /\ \A u \in Threads : u # t => tz_memory'[u] = tz_memory[u]
      /\ tz_memory'[t] = 0
      /\ \A u \in Threads : Alive(u)' <=> u # t /\ Alive(u)
  BY <1>1 DEF TzInv, TypeOK, Alive
<1>5. \A j \in Slots : j # i => table'[j] = table[j]
  BY <1>2 DEF TzInv, TypeOK
<1>6. table'[i].token = InvalidToken
  BY <1>2 DEF TzInv, TypeOK, FreeEntry
<1>7. \A j \in Slots : table'[j].token # InvalidToken =>
         \E u \in Threads : Alive(u)' /\ table'[j] = [token |-> tz_memory'[u], nsid |-> Module(u)]
  <2> SUFFICES ASSUME NEW j \in Slots, table'[j].token # InvalidToken
               PROVE  \E u \in Threads : Alive(u)' /\ table'[j] = [token |-> tz_memory'[u], nsid |-> Module(u)]
    OBVIOUS
  <2>1. j # i /\ table'[j] = table[j]
    BY <1>5, <1>6
  <2>2. PICK u \in Threads : Alive(u) /\ table[j] = [token |-> tz_memory[u], nsid |-> Module(u)]
    BY <2>1 DEF TzInv, TableMatchesThreads
  <2>3. table[i].token # InvalidToken
    BY <1>2 DEF TzInv, TypeOK, Tokens, InvalidToken
  <2>4. u # t
    BY <2>1, <2>2, <2>3, <1>2 DEF TzInv, TableMatchesThreads
  <2> QED BY <2>1, <2>2, <2>4, <1>4
<1>8. \A u \in Threads : Alive(u)' => \E j \in Slots : table'[j].token = tz_memory'[u]
  <2> SUFFICES ASSUME NEW u \in Threads, Alive(u)' PROVE \E j \in Slots : table'[j].token = tz_memory'[u]
    OBVIOUS
  <2>1. u # t /\ Alive(u) /\ tz_memory'[u] = tz_memory[u] /\ tz_memory[u] # tz_memory[t]
    BY <1>4 DEF TzInv, TableMatchesThreads
  <2>2. PICK j \in Slots : table[j].token = tz_memory[u]
    BY <2>1 DEF TzInv, TableMatchesThreads
  <2> QED BY <2>1, <2>2, <1>2, <1>5
<1>9. /\ \A j, k \in Slots : table'[j].token = table'[k].token /\ table'[j].token # InvalidToken => j = k
      /\ \A u, v \in Threads : Alive(u)' /\ tz_memory'[u] = tz_memory'[v] => u = v
  <2>1. \A j, k \in Slots : table'[j].token = table'[k].token /\ table'[j].token # InvalidToken => j = k
    BY <1>5, <1>6 DEF TzInv, TableMatchesThreads
  <2>2. \A u, v \in Threads : Alive(u)' /\ tz_memory'[u] = tz_memory'[v] => u = v
    BY <1>4 DEF TzInv, TableMatchesThreads, Alive
  <2> QED BY <2>1, <2>2
<1> QED BY <1>3, <1>4, <1>7, <1>8, <1>9 DEF TableMatchesThreads, Module

LEMMA FreeInv ==
    ASSUME TzInv, NEW t \in Threads, FreeModuleContext(t) \/ FreeReleaseFails(t)
    PROVE  TzInv'
<1> USE NsidConstants, TzConstants
<1>1. Gone(t) /\ table' = RemoveEntry(table, tz_memory[t])
  BY DEF FreeModuleContext, FreeReleaseFails
<1>2. Alive(t) /\ running' = IF running = t THEN Idle ELSE running
  BY <1>1 DEF Gone
<1>3. /\ table' \in [Slots -> Entry] /\ tz_memory' \in [Threads -> Tokens]
      /\ running' \in Threads \cup {Idle}
      /\ TableMatchesThreads'
  BY <1>1, TableAfterRemoval
<1>4. /\ \A u \in Threads : Alive(u)' <=> u # t /\ Alive(u)
      /\ \A u \in Threads : u # t => tz_memory'[u] = tz_memory[u]
      /\ tz_memory'[t] = 0
  BY <1>1, TableAfterRemoval
<1>5. /\ nsid_mgr_thread_id' = nsid_mgr_thread_id
      /\ active' = active \/ (active.token = tz_memory[t] /\ active' = NothingLoaded)
      /\ current_active_token' \in {current_active_token, InvalidToken}
      /\ contexts' \in {contexts, contexts \ {tz_memory[t]}}
      /\ unreleased' \in {unreleased, unreleased \cup {tz_memory[t]}}
  BY DEF FreeModuleContext, FreeReleaseFails
<1>6. tz_memory[t] \in Tokens /\ tz_memory[t] < nsid_mgr_thread_id
  BY DEF TzInv, TypeOK, TokensBelowCounter
<1>7. NothingLoaded \in Entry
  BY DEF NothingLoaded, Entry, InvalidToken, InvalidNsidMin
<1>8. TypeOK'
  BY <1>3, <1>5, <1>6, <1>7 DEF TzInv, TypeOK
<1>9. TokensBelowCounter'
  BY <1>4, <1>5, <1>6 DEF TzInv, TypeOK, TokensBelowCounter, Tokens, NothingLoaded, InvalidToken
<1>10. \A u \in Threads : u # t /\ Alive(u) => tz_memory[u] # tz_memory[t]
  BY DEF TzInv, TableMatchesThreads
<1>11. LiveContexts'
  BY <1>2, <1>4, <1>5, <1>10 DEF TzInv, TypeOK, LiveContexts
<1>12. RunsUnderOwnNsid'
  <2>1. CASE running = t
    <3>1. running' = Idle /\ active.token = tz_memory[t]
      BY <2>1, <1>2 DEF TzInv, RunsUnderOwnNsid
    <3> QED BY <3>1, <1>4, <1>5, <1>10
            DEF RunsUnderOwnNsid, NothingLoaded, TzInv, TypeOK, Tokens, InvalidToken
  <2>2. CASE running # t /\ running # Idle
    <3>1. running' = running /\ running \in Threads /\ Alive(running)
      BY <2>2, <1>2 DEF TzInv, TypeOK, LiveContexts
    <3>2. active = [token |-> tz_memory[running], nsid |-> Module(running)]
      BY <2>2 DEF TzInv, RunsUnderOwnNsid
    <3>3. active' = active
      BY <3>1, <3>2, <2>2, <1>5, <1>10
    <3> QED BY <3>1, <3>2, <3>3, <2>2, <1>4 DEF RunsUnderOwnNsid, Module
  <2>3. CASE running = Idle
    <3>1. running' = Idle /\ active' = active
      BY <2>3, <1>2, <1>5 DEF TzInv, RunsUnderOwnNsid
    <3> QED BY <3>1, <2>3, <1>4 DEF TzInv, RunsUnderOwnNsid
  <2> QED BY <2>1, <2>2, <2>3
<1> QED BY <1>3, <1>8, <1>9, <1>11, <1>12 DEF TzInv

-----------------------------------------------------------------------------
\* The context of the thread that comes always loads, under its own NSID.
LEMMA OwnContextLoads ==
    ASSUME TzInv, NEW t \in Threads, Alive(t)
    PROVE  Loads(t) /\ QueryNsid(table, tz_memory[t]) = Module(t)
<1> USE NsidConstants, TzConstants
<1> DEFINE i == FirstSlot(table, tz_memory[t])
<1>1. HasToken(table, tz_memory[t]) # {} /\ tz_memory[t] # InvalidToken
  BY DEF TzInv, TableMatchesThreads, HasToken, TypeOK, Tokens, InvalidToken
<1>2. i \in Slots /\ table[i].token = tz_memory[t]
  BY <1>1, LoopFindsSlot
<1> HIDE DEF i
<1>3. PICK u \in Threads : Alive(u) /\ table[i] = [token |-> tz_memory[u], nsid |-> Module(u)]
  BY <1>1, <1>2 DEF TzInv, TableMatchesThreads
<1>4. u = t
  BY <1>2, <1>3 DEF TzInv, TableMatchesThreads
<1>5. QueryNsid(table, tz_memory[t]) = Module(t)
  BY <1>1, <1>3, <1>4 DEF QueryNsid, i
<1>6. tz_memory[t] \in contexts
  BY DEF TzInv, LiveContexts
<1> QED BY <1>5, <1>6, ModuleNegative DEF Loads, InvalidNsidMin

LEMMA SwitchInv ==
    ASSUME TzInv, NEW t \in Threads, ContextSwitch(t)
    PROVE  TzInv'
<1> USE NsidConstants, TzConstants
<1>1. Alive(t) /\ running' = t /\ UNCHANGED <<table, nsid_mgr_thread_id, contexts, unreleased, tz_memory>>
  BY DEF ContextSwitch
<1>2. /\ active' = [token |-> tz_memory[t], nsid |-> Module(t)]
      /\ current_active_token' = tz_memory[t]
  BY <1>1, OwnContextLoads DEF ContextSwitch
<1>3. Module(t) \in Int /\ tz_memory[t] \in Tokens /\ tz_memory[t] < nsid_mgr_thread_id
  BY ModuleNegative DEF TzInv, TypeOK, TokensBelowCounter
<1>4. TypeOK'
  BY <1>1, <1>2, <1>3 DEF TzInv, TypeOK, Entry
<1>5. TableMatchesThreads' /\ TokensBelowCounter' /\ LiveContexts'
  BY <1>1, <1>2, <1>3 DEF TzInv, TableMatchesThreads, TokensBelowCounter, LiveContexts, Alive, Module
<1>6. RunsUnderOwnNsid'
  BY <1>1, <1>2 DEF RunsUnderOwnNsid, Module
<1> QED BY <1>4, <1>5, <1>6 DEF TzInv

LEMMA IdleInv == ASSUME TzInv, SwitchToIdle PROVE TzInv'
<1> USE NsidConstants, TzConstants
<1>1. /\ running # Idle /\ running' = Idle
      /\ UNCHANGED <<table, nsid_mgr_thread_id, contexts, unreleased, tz_memory>>
  BY DEF SwitchToIdle
<1>2. Saved
  BY <1>1 DEF Saved, TzInv, RunsUnderOwnNsid
<1>3. active' = NothingLoaded /\ current_active_token' = InvalidToken
  BY <1>2 DEF SwitchToIdle, ActiveAfterStore, TokenAfterStore
<1>4. TypeOK'
  BY <1>1, <1>3 DEF TzInv, TypeOK, NothingLoaded, Entry, InvalidToken, InvalidNsidMin
<1>5. TableMatchesThreads' /\ TokensBelowCounter' /\ LiveContexts'
  BY <1>1, <1>3 DEF TzInv, TypeOK, TableMatchesThreads, TokensBelowCounter, LiveContexts,
                    Alive, Module, NothingLoaded, InvalidToken
<1>6. RunsUnderOwnNsid'
  BY <1>1, <1>3 DEF TzInv, TypeOK, RunsUnderOwnNsid, NothingLoaded, InvalidToken, Tokens
<1> QED BY <1>4, <1>5, <1>6 DEF TzInv

LEMMA NextInv == ASSUME TzInv, [Next]_vars PROVE TzInv'
<1>1. CASE UNCHANGED vars
  BY <1>1 DEF vars, TzInv, TypeOK, TableMatchesThreads, RunsUnderOwnNsid, TokensBelowCounter,
              LiveContexts, Alive, Module
<1>2. CASE SwitchToIdle
  BY <1>2, IdleInv
<1>3. ASSUME NEW t \in Threads, AllocNoThreadId(t) PROVE TzInv'
  BY <1>1, <1>3 DEF AllocNoThreadId
<1>4. ASSUME NEW t \in Threads, AllocModuleContext(t) PROVE TzInv'
  BY <1>4, AllocInv
<1>5. ASSUME NEW t \in Threads, FreeModuleContext(t) \/ FreeReleaseFails(t) PROVE TzInv'
  BY <1>5, FreeInv
<1>6. ASSUME NEW t \in Threads, ContextSwitch(t) PROVE TzInv'
  BY <1>6, SwitchInv
<1> QED BY <1>1, <1>2, <1>3, <1>4, <1>5, <1>6 DEF Next

-----------------------------------------------------------------------------
\* TzInv is inductive: it holds after any sequence of creations, terminations
\* and context switches.
THEOREM TzInvariance == Spec => []TzInv
<1>1. TzInv /\ [Next]_vars => TzInv'
  BY NextInv
<1> QED BY InitInv, <1>1, PTL DEF Spec

\* The table, the counter and the tokens keep their ranges: the 8-bit thread id
\* never wraps (TypeOK).
THEOREM TypeCorrect == Spec => []TypeOK
<1>1. TzInv => TypeOK
  BY DEF TzInv
<1> QED BY TzInvariance, <1>1, PTL

\* The entries of the table are exactly the live threads, each with its token
\* and NSID, whatever threads the kernel creates and terminates.
THEOREM TableCorrect == Spec => []TableMatchesThreads
<1>1. TzInv => TableMatchesThreads
  BY DEF TzInv
<1> QED BY TzInvariance, <1>1, PTL

\* Whatever the kernel switches to runs with its own context and NSID.
THEOREM OwnNsid == Spec => []RunsUnderOwnNsid
<1>1. TzInv => RunsUnderOwnNsid
  BY DEF TzInv
<1> QED BY TzInvariance, <1>1, PTL

\* No token is given out twice, as the counter is above all of them and grows
\* with every creation that gets one.
THEOREM FreshTokens == Spec => TokensNeverReused
<1> USE NsidConstants, TzConstants
<1> DEFINE Fresh == \A t \in Threads : tz_memory'[t] # tz_memory[t] /\ tz_memory'[t] # 0 =>
          /\ tz_memory'[t] \notin contexts \cup unreleased
          /\ nsid_mgr_thread_id' > tz_memory'[t]
          /\ \A u \in Threads : tz_memory[u] < tz_memory'[t]
<1>1. ASSUME TzInv, [Next]_vars PROVE [Fresh]_vars
  <2> SUFFICES ASSUME NEW t \in Threads, tz_memory'[t] # tz_memory[t], tz_memory'[t] # 0
               PROVE  /\ tz_memory'[t] \notin contexts \cup unreleased
                      /\ nsid_mgr_thread_id' > tz_memory'[t]
                      /\ \A u \in Threads : tz_memory[u] < tz_memory'[t]
    OBVIOUS
  <2>1. PICK u \in Threads : AllocModuleContext(u) \/ FreeModuleContext(u) \/ FreeReleaseFails(u)
    BY <1>1 DEF Next, vars, SwitchToIdle, ContextSwitch, AllocNoThreadId
  <2>2. CASE AllocModuleContext(u)
    <3>1. /\ AddError(table, Module(u), AcquireCtx(nsid_mgr_thread_id)) = "SUCCESS"
          /\ tz_memory' = [tz_memory EXCEPT ![u] = nsid_mgr_thread_id]
      BY <1>1, <2>2, Created, NotCreated
    <3>2. t = u /\ tz_memory'[t] = nsid_mgr_thread_id
      BY <1>1, <3>1 DEF TzInv, TypeOK
    <3>3. nsid_mgr_thread_id' = nsid_mgr_thread_id + 1 /\ nsid_mgr_thread_id \in Nat
      BY <1>1, <2>2, CounterGrows DEF AllocModuleContext, TzInv, TypeOK
    <3> QED BY <1>1, <3>2, <3>3 DEF TzInv, TokensBelowCounter
  <2>3. CASE FreeModuleContext(u) \/ FreeReleaseFails(u)
    BY <1>1, <2>3 DEF FreeModuleContext, FreeReleaseFails, Gone, TzInv, TypeOK
  <2> QED BY <2>1, <2>2, <2>3
<1> QED BY <1>1, TzInvariance, PTL DEF Spec, TokensNeverReused

-----------------------------------------------------------------------------
\* A context is lost only by a creation that finds the table full and by a
\* termination whose release fails: every other step takes a token out of the
\* table and the contexts together, or into both.
THEOREM LossesAccounted == Spec => ContextsAccounted
<1> USE NsidConstants, TzConstants
<1>1. ASSUME TzInv, [Next]_vars PROVE [LossAccounted]_vars
  <2> SUFFICES ASSUME Next PROVE LossAccounted
    BY <1>1
  <2>1. ASSUME NEW t \in Threads, AllocModuleContext(t) PROVE LossAccounted
    <3>1. CASE AddError(table, Module(t), AcquireCtx(nsid_mgr_thread_id)) = "SUCCESS"
      <4>1. contexts' = contexts \cup {nsid_mgr_thread_id}
        BY <1>1, <2>1, <3>1, Created
      <4>2. PICK i \in Slots :
               /\ table[i].token = InvalidToken
               /\ table' = [table EXCEPT ![i] = [token |-> nsid_mgr_thread_id, nsid |-> Module(t)]]
        BY <1>1, <2>1, <3>1, Created
      <4>3. /\ \A j \in Slots : j # i => table'[j].token = table[j].token
            /\ table'[i].token = nsid_mgr_thread_id /\ nsid_mgr_thread_id # InvalidToken
        BY <1>1, <4>2 DEF TzInv, TypeOK, InvalidToken
      <4>4. TableTokens' = TableTokens \cup {nsid_mgr_thread_id}
        BY <4>2, <4>3 DEF TableTokens
      <4>5. nsid_mgr_thread_id \notin contexts
        BY <1>1 DEF TzInv, TypeOK, TokensBelowCounter
      <4>6. Lost' = Lost
        BY <4>1, <4>4, <4>5 DEF Lost
      <4> QED BY <4>6 DEF LossAccounted
    <3>2. CASE AddError(table, Module(t), AcquireCtx(nsid_mgr_thread_id)) # "SUCCESS"
      <4>1. /\ UNCHANGED table
            /\ contexts' # contexts => HasToken(table, InvalidToken) = {}
        BY <1>1, <2>1, <3>2, NotCreated
      <4>2. contexts \subseteq contexts'
        BY <2>1 DEF AllocModuleContext
      <4>3. Lost \subseteq Lost' /\ (Lost' # Lost => contexts' # contexts)
        BY <4>1, <4>2 DEF Lost, TableTokens
      <4> QED BY <4>1, <4>3 DEF LossAccounted, TableFull, HasToken
    <3> QED BY <3>1, <3>2
  <2>2. ASSUME NEW t \in Threads, FreeModuleContext(t) \/ FreeReleaseFails(t) PROVE LossAccounted
    <3>1. Alive(t) /\ table' = RemoveEntry(table, tz_memory[t])
      BY <2>2 DEF FreeModuleContext, FreeReleaseFails, Gone
    <3>2. PICK i \in Slots : /\ table[i].token = tz_memory[t]
                             /\ table' = [table EXCEPT ![i] = FreeEntry]
      BY <1>1, <3>1, Removed
    <3>3. tz_memory[t] # InvalidToken
      BY <1>1 DEF TzInv, TypeOK, Tokens, InvalidToken
    <3>4. /\ \A j \in Slots : j # i => table'[j].token = table[j].token /\ table[j].token # tz_memory[t]
          /\ table'[i].token = InvalidToken
      BY <1>1, <3>2, <3>3 DEF TzInv, TypeOK, TableMatchesThreads, FreeEntry
    <3>5. TableTokens' = TableTokens \ {tz_memory[t]} /\ tz_memory[t] \in TableTokens
      BY <3>2, <3>3, <3>4 DEF TableTokens
    <3>6. CASE FreeModuleContext(t)
      <4>1. contexts' = contexts \ {tz_memory[t]}
        BY <3>6 DEF FreeModuleContext
      <4>2. Lost' = Lost
        BY <3>5, <4>1 DEF Lost
      <4> QED BY <4>2 DEF LossAccounted
    <3>7. CASE FreeReleaseFails(t)
      <4>1. contexts' = contexts /\ tz_memory[t] \in unreleased'
        BY <3>7 DEF FreeReleaseFails
      <4>2. Lost' = Lost \cup {tz_memory[t]}
        BY <1>1, <3>1, <3>5, <4>1 DEF Lost, TzInv, LiveContexts
      <4>3. ~Alive(t)'
        BY <1>1, <3>7 DEF FreeReleaseFails, Gone, Alive, TzInv, TypeOK
      <4> QED BY <3>1, <4>1, <4>2, <4>3 DEF LossAccounted, FailedRelease
    <3> QED BY <2>2, <3>6, <3>7
  <2>3. ASSUME UNCHANGED <<table, contexts>> PROVE LossAccounted
    BY <2>3 DEF LossAccounted, Lost, TableTokens
  <2>4. SwitchToIdle \/ (\E t \in Threads : ContextSwitch(t) \/ AllocNoThreadId(t))
           => UNCHANGED <<table, contexts>>
    BY DEF SwitchToIdle, ContextSwitch, AllocNoThreadId, vars
  <2> QED BY <2>1, <2>2, <2>3, <2>4 DEF Next
<1> QED BY <1>1, TzInvariance, PTL DEF Spec, ContextsAccounted
=============================================================================
