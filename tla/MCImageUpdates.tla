--------------------------- MODULE MCImageUpdates ---------------------------
(* One newer version, one rebuild of either, two flows, one crash. Beside it *)
(* how the newer version is found among a repository's tags: the two share   *)
(* no state, so that `part` says whose behaviour it is, and the other stays  *)
(* where it begins. Podhouse itself is not updated here.                     *)
EXTENDS Updates

VARIABLES part, kind, stateful, pushed, at, walk, answer, tagEvents

service == <<reg, sick, images, local, ctr, data, archives, pin, override, cache, chk, flow,
             stray, flows, crashes>>
versions == <<kind, stateful, pushed, at, walk, answer, tagEvents>>

MCReleases == {1}

Tag(major, minor, post) == [nums |-> <<major, minor>>, post |-> post]

(* 8.10 comes before 8.9 as a text and 10.1 before 9.1; one is an -alpine.   *)
MCTags == {Tag(8, 9, 0), Tag(8, 10, 0), Tag(9, 1, 0), Tag(10, 1, 0), Tag(11, 1, 0),
           Tag(8, 9, 11)}

Newer == INSTANCE NewerVersion WITH
    Tags <- MCTags, Registries <- {"hub", "ghcr", "other"}, MaxPages <- 3, PageSize <- 2,
    MaxTags <- 4, MaxEvents <- 4, events <- tagEvents

MCInit ==
    /\ part \in {"service", "versions"}
    /\ Init /\ Image!Init /\ Newer!Init
    /\ part # "versions" => kind = "hub" /\ ~stateful /\ at = Tag(8, 9, 0)

MCNext ==
    /\ UNCHANGED <<part, vars>>
    /\ \/ part = "service" /\ Image!Next /\ UNCHANGED versions
       \/ part = "versions" /\ Newer!Next /\ UNCHANGED service

MCSpec ==
    /\ MCInit /\ [][MCNext]_<<part, vars, service, versions>>
    /\ WF_service(part = "service" /\ Image!FlowStep)
    /\ WF_service(part = "service" /\ Image!CheckEnd)

(* The properties of the other parts, stated in their modules.               *)
NothingSkipped == Newer!NothingSkipped
Released == Image!Released
=============================================================================
