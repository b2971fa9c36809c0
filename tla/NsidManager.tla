---------------------------- MODULE NsidManager -----------------------------
(***************************************************************************)
(* The token table of lib/nsid_manager/tfm_nsid_manager.c and the name     *)
(* table of app_broker/tfm_nsid_map_table.c.  A table maps every slot to a *)
(* pair of a token and the NSID of the thread that has it.  The operations *)
(* are operators on the table, the loops over slots being "the first slot  *)
(* such that".                                                             *)
(***************************************************************************)
EXTENDS Integers

CONSTANTS ThreadNumMax,   \* THREAD_NUM_MAX, 10
          TokenMax,       \* largest token value ns_client_ext hands out
          Names,          \* thread names
          NsidTable       \* test_ns_nsid_table, a function on some of the names

InvalidToken == -1        \* TFM_NS_CLIENT_INVALID_TOKEN, no token has this value
InvalidNsidMin == 0       \* TFM_INVALID_NSID_MIN: a non-secure id is negative
DefaultNsid == -1         \* TFM_DEFAULT_NSID

ASSUME NsidConstants ==
    /\ ThreadNumMax \in Nat /\ TokenMax \in Nat
    /\ DOMAIN NsidTable \subseteq Names
    /\ \A n \in DOMAIN NsidTable : NsidTable[n] \in Int /\ NsidTable[n] < DefaultNsid

Slots == 1..ThreadNumMax
Tokens == 0..TokenMax
Entry == [token : Tokens \cup {InvalidToken}, nsid : Int]
FreeEntry == [token |-> InvalidToken, nsid |-> InvalidNsidMin]

\* nsid_mgr_init
EmptyTable == [i \in Slots |-> FreeEntry]

\* The slots a loop that looks for a token stops at; at most one is first.
HasToken(table, token) == {i \in Slots : table[i].token = token}
IsFirst(i, S) == i \in S /\ \A j \in S : i <= j
FirstSlot(table, token) == CHOOSE i \in Slots : IsFirst(i, HasToken(table, token))

\* Mutant: the loop stops one slot early.
AddErrorOffByOne(table, nsid, token) ==
    IF nsid >= InvalidNsidMin THEN "INVALID_NSID"
    ELSE IF token = InvalidToken THEN "INVALID_TOKEN"
    ELSE IF HasToken(table, InvalidToken) \ {ThreadNumMax} = {} THEN "NO_FREE_ENTRY"
    ELSE "SUCCESS"

\* nsid_mgr_add_entry: its error code and the table it leaves.
AddError(table, nsid, token) ==
    IF nsid >= InvalidNsidMin THEN "INVALID_NSID"
    ELSE IF token = InvalidToken THEN "INVALID_TOKEN"
    ELSE IF HasToken(table, InvalidToken) = {} THEN "NO_FREE_ENTRY"
    ELSE "SUCCESS"

AddEntry(table, nsid, token) ==
    [table EXCEPT ![FirstSlot(table, InvalidToken)] = [token |-> token, nsid |-> nsid]]

\* nsid_mgr_remove_entry
RemoveError(table, token) ==
    IF token = InvalidToken \/ HasToken(table, token) = {} THEN "INVALID_TOKEN"
    ELSE "SUCCESS"

\* Mutant: the slot keeps its token.
RemoveNsidOnly(table, token) ==
    [table EXCEPT ![FirstSlot(table, token)].nsid = InvalidNsidMin]

RemoveEntry(table, token) == [table EXCEPT ![FirstSlot(table, token)] = FreeEntry]

\* Mutant: the loop answers at the first slot in use.
QueryFirstUsed(table, token) ==
    IF token = InvalidToken \/ HasToken(table, token) = {} THEN InvalidNsidMin
    ELSE table[CHOOSE i \in Slots : table[i].token # InvalidToken].nsid

\* nsid_mgr_query_nsid
QueryNsid(table, token) ==
    IF token = InvalidToken \/ HasToken(table, token) = {} THEN InvalidNsidMin
    ELSE table[FirstSlot(table, token)].nsid

\* nsid_mgr_get_thread_nsid
GetThreadNsid(name) ==
    IF name \in DOMAIN NsidTable THEN NsidTable[name] ELSE DefaultNsid
=============================================================================
