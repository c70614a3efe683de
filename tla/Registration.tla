---------------------------- MODULE Registration ----------------------------
(***************************************************************************)
(* What the agent knows of its plugins (Agent.cpp): the vector of plugins, *)
(* the lists of their sources, the buckets made for them, the connectors   *)
(* and the receivers, over any sequence of addPlugin, init, start and stop *)
(* that the loader's table of functions offers.                            *)
(*                                                                         *)
(* A plugin's place in the vector is its provider id, which its data bear. *)
(* Each init() searches the plugin path again, puts what it finds in front *)
(* of the vector, tells every plugin its place, and adds the sources and   *)
(* buckets of all of them to those there are.  A library that is loaded    *)
(* twice is the same code: it keeps the first place it was told, like the  *)
(* CPU, environment and memory plugins, or the last, like the API's.       *)
(***************************************************************************)
EXTENDS Naturals, FiniteSets, SequencesExt

CONSTANTS
    Scanned,      \* the libraries in the plugin path, finitely many
    Added,        \* those the application adds by name
    PushIds,      \* ids of each library's push sources, all different,
    PullIds,      \* and of its pull sources
    KeepsFirst,   \* libraries that keep the first place they are told
    Connectors,   \* libraries that make a connector
    Singletons,   \* and always the same one
    System,       \* the agent's own plugin, the SystemReceiver
    MaxAdds,      \* bounds: calls of addPlugin,
    MaxInits,     \* of init
    MaxStarts     \* and of start

Libraries == Scanned \cup Added

ASSUME RegistrationAssumption ==
    /\ Scanned \cap Added = {} /\ System \notin Libraries
    /\ IsFiniteSet(Scanned)
    /\ PushIds \in [Libraries -> SUBSET Nat]
    /\ PullIds \in [Libraries -> SUBSET Nat]
    /\ \A l \in Libraries : PushIds[l] \cap PullIds[l] = {}
    /\ KeepsFirst \subseteq Libraries
    /\ Singletons \subseteq Connectors /\ Connectors \subseteq Libraries
    /\ MaxAdds \in Nat /\ MaxInits \in Nat /\ MaxStarts \in Nat

VARIABLES
    plugins,       \* the vector
    place,         \* the provider id each library's code has; -1 is none
    pushSources,   \* the lists of sources
    pullSources,
    buckets,
    connectors,    \* what the connector manager holds
    receivers,
    started,       \* connectors whose start was called last
    managing,      \* the connector manager's running flag
    running,       \* the agent's
    adds, inits, starts,
    moved,         \* history: an init moved an added plugin that had a place
    failed         \* history: a start has failed since the last stop

lists == <<plugins, place, pushSources, pullSources, buckets>>
managed == <<connectors, receivers, started, managing>>
vars == <<lists, managed, running, adds, inits, starts, moved, failed>>

None == 0 - 1
Config == [of |-> System, made |-> <<0, 0>>]  \* the ConfigurationConnector

Init ==
    /\ plugins = <<>>
    /\ place = [l \in Libraries |-> None]
    /\ pushSources = <<>> /\ pullSources = <<>> /\ buckets = <<>>
    /\ connectors = {} /\ receivers = {} /\ started = {}
    /\ managing = FALSE /\ running = FALSE
    /\ adds = 0 /\ inits = 0 /\ starts = 0
    /\ moved = FALSE /\ failed = FALSE

-----------------------------------------------------------------------------
(* Sources and buckets                                                     *)

Ids(l) == PushIds[l] \cup PullIds[l]
HasData(l) == l \in Libraries /\ Ids(l) # {}

(* addPushSource and addPullSource: the sources of a plugin, which follow  *)
(* each other in the list, are one entry, and so are their buckets.        *)
SourcesIn(ids, vector) ==
    [p \in 1..Len(vector) |->
        [prov |-> p - 1, of |-> vector[p],
         ids |-> IF HasData(vector[p]) THEN ids[vector[p]] ELSE {}]]

(* Mutant: only the provider is compared. *)
FindBucket_ByProvider(prov, id) ==
    SelectInSeq(buckets, LAMBDA b : b.prov = prov)

(* BucketList::findBucket: the first that matches, or 0. *)
FindBucket(prov, id) ==
    SelectInSeq(buckets, LAMBDA b : b.prov = prov /\ id \in b.ids)

(* What each library's code keeps of the places it was told. *)
PlacesIn(vector) ==
    [l \in Libraries |->
        LET told == {p \in 1..Len(vector) : vector[p] = l /\ HasData(l)} IN
        IF told = {} \/ (l \in KeepsFirst /\ place[l] # None) THEN place[l]
        ELSE IF l \in KeepsFirst THEN Min(told) - 1
        ELSE Max(told) - 1]

-----------------------------------------------------------------------------
(* The agent's operations                                                  *)

(* Agent::addPlugin with a library's path; a library with no start, stop   *)
(* or getVersion is no plugin, and changes nothing.                        *)
AddPlugin(l) ==
    /\ adds < MaxAdds
    /\ adds' = adds + 1
    /\ plugins' = Append(plugins, l)
    /\ UNCHANGED <<place, pushSources, pullSources, buckets, managed, running,
                   inits, starts, moved, failed>>

(* What a search of the plugin path finds, in the directory's order;       *)
(* without a path there is no search.                                      *)
Found == {<<>>} \cup SetToSeqs(Scanned)

(* Agent::init: a bucket is made for every source in the lists, those of   *)
(* an earlier init included.                                               *)
Initialize ==
    /\ inits < MaxInits
    /\ inits' = inits + 1
    /\ \E found \in Found :
          /\ plugins' = found \o plugins \o <<System>>
          /\ moved' = (moved \/ (found # <<>> /\ \E l \in Added : place[l] # None))
    /\ place' = PlacesIn(plugins')
    /\ pushSources' = pushSources \o SourcesIn(PushIds, plugins')
    /\ pullSources' = pullSources \o SourcesIn(PullIds, plugins')
    /\ buckets' = buckets \o pushSources' \o pullSources'
    /\ connectors' = connectors \cup {Config}
    /\ UNCHANGED <<receivers, started, managing, running, adds, starts, failed>>

(* startReceivers: a new one for each plugin in the vector that has any. *)
NewReceivers == {<<starts + 1, p>> : p \in {q \in 1..Len(plugins) : plugins[q] = System}}

(* startConnectors: each factory makes a connector or gives the one it has. *)
NewConnectors ==
    {[of |-> plugins[p],
      made |-> IF plugins[p] \in Singletons THEN <<0, 0>> ELSE <<starts + 1, p>>] :
        p \in {q \in 1..Len(plugins) : plugins[q] \in Connectors}}

(* Agent::start; ok tells whether its threads could be created.  A manager *)
(* that runs already starts nothing.                                       *)
Start(ok) ==
    /\ inits > 0 /\ ~running
    /\ starts < MaxStarts
    /\ starts' = starts + 1
    /\ receivers' = receivers \cup NewReceivers
    /\ connectors' = connectors \cup NewConnectors
    /\ started' = IF managing THEN started ELSE connectors'
    /\ managing' = TRUE
    /\ running' = ok
    /\ failed' = (failed \/ ~ok)
    /\ UNCHANGED <<lists, adds, inits, moved>>

(* Mutant: the receivers stay. *)
Stop_KeepsReceivers ==
    /\ running
    /\ running' = FALSE
    /\ started' = {} /\ managing' = FALSE
    /\ failed' = FALSE
    /\ UNCHANGED <<lists, connectors, receivers, adds, inits, starts, moved>>

(* Agent::stop, which does nothing unless the agent runs. *)
Stop ==
    /\ running
    /\ running' = FALSE
    /\ started' = {} /\ managing' = FALSE
    /\ receivers' = {}
    /\ failed' = FALSE
    /\ UNCHANGED <<lists, connectors, adds, inits, starts, moved>>

Next ==
    \/ \E l \in Added : AddPlugin(l)
    \/ Initialize
    \/ \E ok \in BOOLEAN : Start(ok)
    \/ Stop

Spec == Init /\ [][Next]_vars
-----------------------------------------------------------------------------
Sources == [prov : Nat, of : Libraries \cup {System}, ids : SUBSET Nat]

(* Every variable stays in its type. *)
TypeOK ==
    /\ plugins \in Seq(Libraries \cup {System})
    /\ place \in [Libraries -> Nat \cup {None}]
    /\ pushSources \in Seq(Sources) /\ pullSources \in Seq(Sources)
    /\ buckets \in Seq(Sources)
    /\ \A c \in connectors : c = Config \/ c.of \in Connectors
    /\ receivers \subseteq (1..MaxStarts) \X Nat
    /\ started \subseteq connectors
    /\ managing \in BOOLEAN /\ running \in BOOLEAN
    /\ adds \in 0..MaxAdds /\ inits \in 0..MaxInits /\ starts \in 0..MaxStarts
    /\ moved \in BOOLEAN /\ failed \in BOOLEAN

(* However often the agent is initialised, in whatever order the directory *)
(* is read, the data of a source go to a bucket, and to one of its own     *)
(* (BucketList.h:41: findBucket is to "find a bucket for a given           *)
(* provider").  It holds as long as no init puts libraries it finds in     *)
(* front of a plugin that was added by name and has its place already.     *)
OwnBucket ==
    ~moved =>
        \A l \in Libraries :
            place[l] # None =>
                \A id \in Ids(l) :
                    LET b == FindBucket(place[l], id) IN
                    b # 0 /\ buckets[b].of = l /\ id \in buckets[b].ids

(* While the agent runs, every connector is started and one receiver       *)
(* answers each request: restarts leave none behind and miss none, unless  *)
(* a start has failed since or the agent was initialised twice.            *)
ReadyToServe ==
    running /\ ~failed =>
        /\ started = connectors
        /\ inits = 1 => Cardinality(receivers) = 1

(* The same connector is there once: what ConnectorManager keeps is a set. *)
(* stop() removes no connector, and the next start() makes new ones but    *)
(* for the singletons: each message is then sent once more by the others.  *)
EachConnectorOnce ==
    \A c, d \in connectors : c.of = d.of => c = d
=============================================================================
