------------------------------ MODULE Registry ------------------------------
(***************************************************************************)
(* The registry pallet (pallets/registry/src/lib.rs): API feeds by the     *)
(* account that registered them and a key of its choice.                   *)
(***************************************************************************)
EXTENDS Integers

CONSTANTS
    Users,      \* accounts that register and request feeds
    FeedKeys,   \* RegistryFeedKey
    Sources,    \* a feed's url and path
    Absent,     \* no ApiFeeds entry
    MaxBlock    \* bound on the block number

ASSUME RegistryAssumption == MaxBlock \in Nat \ {0}

Status == {"Registered", "Active", "Inactive", "Slashed"}
RootStatus == {"Active", "Slashed"}   \* the ones root is modelled to set
Blocks == 0 .. MaxBlock
ApiFeed == [started_at : Blocks, source : Sources, status : Status]

VARIABLES
    apiFeeds,   \* ApiFeeds: account -> key -> feed or Absent
    block       \* frame_system's block number

RegistryInit ==
    /\ apiFeeds = [u \in Users |-> [k \in FeedKeys |-> Absent]]
    /\ block = 1

\* ApiFeedStatus::is_active of an entry that exists.
IsActive(who, key) ==
    apiFeeds[who][key] # Absent /\ apiFeeds[who][key].status = "Active"

\* register_feed: a feed already under the key is overwritten, status included.
RegisterFeed(who, key, source) ==
    /\ apiFeeds' = [apiFeeds EXCEPT ![who][key] =
                      [started_at |-> block, source |-> source,
                       status |-> "Registered"]]
    /\ UNCHANGED block

\* unregister_feed
UnregisterFeed(who, key) ==
    /\ apiFeeds[who][key] # Absent
    /\ apiFeeds' = [apiFeeds EXCEPT ![who][key] = Absent]
    /\ UNCHANGED block

\* No call of the pallet writes another status. The runtime's root origin (the
\* democracy pallet) can, with frame_system::set_storage.
SetFeedStatus(who, key, status) ==
    /\ apiFeeds[who][key] # Absent
    /\ apiFeeds' = [apiFeeds EXCEPT ![who][key].status = status]
    /\ UNCHANGED block
=============================================================================
