------------------------------- MODULE TzShim -------------------------------
(***************************************************************************)
(* The TrustZone context shim, lib/nsid_manager/tz_shim_layer.c, between   *)
(* the RTOS kernel and TF-M's ns_client_ext.  The kernel calls it from SVC *)
(* and PendSV handlers, so a function of the shim is one step.             *)
(*                                                                         *)
(* External: the kernel (which thread is created, terminated, switched to) *)
(* and ns_client_ext (a pool of contexts named by tokens, one of them      *)
(* loaded).                                                                *)
(***************************************************************************)
EXTENDS NsidManager, FiniteSets

CONSTANTS Threads,       \* thread control blocks
          Idle,          \* the kernel's own threads, which have no context
          Name,          \* Name[t]: the name t is created with
          ThreadIdMax,   \* NSID_MGR_THREAD_ID_MAX, 0xFF
          MaxContexts    \* contexts ns_client_ext has

ASSUME TzConstants ==
    /\ Idle \notin Threads
    /\ Name \in [Threads -> Names]
    /\ ThreadIdMax \in Nat \ {0} /\ TokenMax = ThreadIdMax
    /\ MaxContexts \in Nat

VARIABLES table,                 \* test_ns_token_table
          nsid_mgr_thread_id,    \* next thread id, a uint8_t
          current_active_token,
          contexts,              \* tokens ns_client_ext has assigned
          active,                \* its loaded context: a token and an NSID
          unreleased,            \* tokens whose tfm_nsce_release_ctx failed
          tz_memory,             \* tz_memory[t]: t's token, 0 when t has none
          running                \* the thread on the processor

vars == <<table, nsid_mgr_thread_id, current_active_token, contexts, active,
          unreleased, tz_memory, running>>

NothingLoaded == [token |-> InvalidToken, nsid |-> InvalidNsidMin]

Alive(t) == tz_memory[t] # 0

\* TZ_InitContextSystem_S, called when the kernel is initialised.
Init ==
    /\ table = EmptyTable
    /\ nsid_mgr_thread_id = 1
    /\ current_active_token = InvalidToken
    /\ contexts = {} /\ active = NothingLoaded /\ unreleased = {}
    /\ tz_memory = [t \in Threads |-> 0]
    /\ running = Idle

-----------------------------------------------------------------------------
\* tz_module of a thread, set by os_wrapper_thread_new.
Module(t) == GetThreadNsid(Name[t])

\* Mutant: no check before the 8-bit counter is incremented.
ThreadIdsLeftAlways == TRUE

ThreadIdsLeft == nsid_mgr_thread_id < ThreadIdMax

\* Mutant: the ids start over when they are used up.
NextThreadIdRecycling ==
    IF nsid_mgr_thread_id + 1 >= ThreadIdMax THEN 1 ELSE nsid_mgr_thread_id + 1

\* uint8_t increment
NextThreadId == (nsid_mgr_thread_id + 1) % (ThreadIdMax + 1)

\* Thread ids are used up: the thread is not created.
AllocNoThreadId(t) ==
    /\ ~Alive(t)
    /\ ~ThreadIdsLeft
    /\ UNCHANGED vars

\* tfm_nsce_acquire_ctx names the context by the thread id it is given, or
\* returns the invalid token when there is no context left.
AcquireCtx(tid) == IF Cardinality(contexts) < MaxContexts THEN tid ELSE InvalidToken

\* The id is consumed and the context kept whether or not add_entry succeeds.
AllocModuleContext(t) ==
    LET token == AcquireCtx(nsid_mgr_thread_id)
        ok == AddError(table, Module(t), token) = "SUCCESS"
    IN  /\ ~Alive(t)
        /\ ThreadIdsLeft
        /\ nsid_mgr_thread_id' = NextThreadId
        /\ contexts' = contexts \cup ({token} \ {InvalidToken})
        /\ table' = IF ok THEN AddEntry(table, Module(t), token) ELSE table
        /\ tz_memory' = [tz_memory EXCEPT ![t] = IF ok THEN token ELSE 0]
        /\ UNCHANGED <<current_active_token, active, unreleased, running>>

-----------------------------------------------------------------------------
\* The thread is gone for the kernel, whatever TZ_FreeModuleContext_S says.
Gone(t) ==
    /\ Alive(t)
    /\ tz_memory' = [tz_memory EXCEPT ![t] = 0]
    /\ running' = IF running = t THEN Idle ELSE running

\* remove_entry comes first; then the release, which clears
\* current_active_token whichever token it holds.
FreeModuleContext(t) ==
    LET token == tz_memory[t]
    IN  /\ Gone(t)
        /\ RemoveError(table, token) = "SUCCESS"
        /\ table' = RemoveEntry(table, token)
        /\ contexts' = contexts \ {token}
        /\ active' = IF active.token = token THEN NothingLoaded ELSE active
        /\ current_active_token' = InvalidToken
        /\ UNCHANGED <<nsid_mgr_thread_id, unreleased>>

FreeReleaseFails(t) ==
    LET token == tz_memory[t]
    IN  /\ Gone(t)
        /\ RemoveError(table, token) = "SUCCESS"
        /\ table' = RemoveEntry(table, token)
        /\ unreleased' = unreleased \cup {token}
        /\ UNCHANGED <<nsid_mgr_thread_id, contexts, active, current_active_token>>

-----------------------------------------------------------------------------
(* A context switch: TZ_StoreContext_S for the thread that leaves and      *)
(* TZ_LoadContext_S for the one that comes.  The kernel makes neither call *)
(* for a thread without a context.                                         *)

Saved == running # Idle /\ active.token = tz_memory[running]

\* active and current_active_token after the store.
ActiveAfterStore == IF Saved THEN NothingLoaded ELSE active
TokenAfterStore  == IF Saved THEN InvalidToken ELSE current_active_token

Loads(t) == /\ QueryNsid(table, tz_memory[t]) < InvalidNsidMin
            /\ tz_memory[t] \in contexts

ContextSwitch(t) ==
    /\ Alive(t) /\ running # t
    /\ running' = t
    /\ active' = IF Loads(t)
                 THEN [token |-> tz_memory[t], nsid |-> QueryNsid(table, tz_memory[t])]
                 ELSE ActiveAfterStore
    /\ current_active_token' = IF Loads(t) THEN tz_memory[t] ELSE TokenAfterStore
    /\ UNCHANGED <<table, nsid_mgr_thread_id, contexts, unreleased, tz_memory>>

SwitchToIdle ==
    /\ running # Idle
    /\ running' = Idle
    /\ active' = ActiveAfterStore
    /\ current_active_token' = TokenAfterStore
    /\ UNCHANGED <<table, nsid_mgr_thread_id, contexts, unreleased, tz_memory>>

Next == \/ SwitchToIdle
        \/ \E t \in Threads :
              \/ AllocNoThreadId(t) \/ AllocModuleContext(t)
              \/ FreeModuleContext(t) \/ FreeReleaseFails(t)
              \/ ContextSwitch(t)

Spec == Init /\ [][Next]_vars

-----------------------------------------------------------------------------
TypeOK ==
    /\ table \in [Slots -> Entry]
    /\ nsid_mgr_thread_id \in 1..ThreadIdMax
    /\ current_active_token \in Tokens \cup {InvalidToken}
    /\ contexts \in SUBSET Tokens
    /\ active \in Entry
    /\ unreleased \in SUBSET Tokens
    /\ tz_memory \in [Threads -> Tokens]
    /\ running \in Threads \cup {Idle}

TableTokens == {table[i].token : i \in Slots} \ {InvalidToken}

\* After any sequence of creations, failed creations and terminations the
\* table has one entry per live thread, under that thread's token and with
\* that thread's NSID, and no other; so a live thread's context always loads.
TableMatchesThreads ==
    /\ \A i \in Slots : table[i].token # InvalidToken =>
          \E t \in Threads : Alive(t) /\ table[i] = [token |-> tz_memory[t], nsid |-> Module(t)]
    /\ \A t \in Threads : Alive(t) => \E i \in Slots : table[i].token = tz_memory[t]
    /\ \A i, j \in Slots : table[i].token = table[j].token
                              /\ table[i].token # InvalidToken => i = j
    /\ \A t, u \in Threads : Alive(t) /\ tz_memory[t] = tz_memory[u] => t = u

\* A thread on the processor runs with its own context loaded, under the
\* NSID its name has in the map table; while a thread without a context
\* runs, no live thread's context is loaded.
RunsUnderOwnNsid ==
    /\ running # Idle => active = [token |-> tz_memory[running], nsid |-> Module(running)]
    /\ running = Idle => \A t \in Threads : Alive(t) => active.token # tz_memory[t]

\* The 8-bit thread id neither wraps nor comes back: a token that is given
\* out was never given out before, so a stale tz_memory finds nothing.
TokensNeverReused ==
    [][\A t \in Threads : tz_memory'[t] # tz_memory[t] /\ tz_memory'[t] # 0 =>
          /\ tz_memory'[t] \notin contexts \cup unreleased
          /\ nsid_mgr_thread_id' > tz_memory'[t]
          /\ \A u \in Threads : tz_memory[u] < tz_memory'[t]]_vars

\* Contexts that no entry of the table names: no later call releases them.
Lost == contexts \ TableTokens

TableFull == \A i \in Slots : table[i].token # InvalidToken
FailedRelease == \E t \in Threads : /\ Alive(t) /\ ~Alive(t)' /\ tz_memory[t] \in unreleased'
                                    /\ Lost' = Lost \cup {tz_memory[t]}

\* A context is lost for good in two ways and no other: to a creation that
\* finds the table full, and to a termination whose release fails when the
\* thread's entry has already been removed.
LossAccounted == /\ Lost \subseteq Lost'
                 /\ Lost' # Lost => TableFull \/ FailedRelease
ContextsAccounted == [][LossAccounted]_vars

\* What tfm_nsid_manager.h says of nsid_mgr_remove_entry, that it is called
\* once the token has been released: a context whose release failed still has
\* its entry.  The shim removes the entry first.
RemovedOnceReleased == unreleased \subseteq TableTokens
=============================================================================
