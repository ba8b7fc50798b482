------------------------ MODULE EpollReadyListProofs ------------------------
(***************************************************************************)
(* Proofs about EpollReadyList, for any descriptors, callbacks and events. *)
(***************************************************************************)
EXTENDS EpollReadyList, ListTheorems

\* The provers are given a minute for each step.
USE SMTT(60), ZenonT(60)

-----------------------------------------------------------------------------
(* The two lists.                                                          *)

ListedFDs == {fd \in FDs : node[fd].listed}

\* Lists r and t hold the descriptors L, each once, and size counts them.
ListsHold(r, t, size, L) ==
  /\ r \in Seq(FDs) /\ t \in Seq(FDs)
  /\ Distinct(r) /\ Distinct(t)
  /\ Range(r) \cap Range(t) = {} /\ Range(r) \cup Range(t) = L
  /\ size = Len(r) + Len(t)

\* LIST_REMOVE, from a list that may have the node.
LEMMA EraseFDList ==
  ASSUME NEW list \in Seq(FDs), Distinct(list), NEW fd
  PROVE  /\ EraseFD(list, fd) \in Seq(FDs) /\ Distinct(EraseFD(list, fd))
         /\ Range(EraseFD(list, fd)) = Range(list) \ {fd}
         /\ Len(EraseFD(list, fd)) =
              IF fd \in Range(list) THEN Len(list) - 1 ELSE Len(list)
         /\ list = <<>> => EraseFD(list, fd) = <<>>
<1>1. CASE fd \in Range(list)
  <2> DEFINE n == CHOOSE k \in DOMAIN list : list[k] = fd
  <2>1. n \in DOMAIN list /\ list[n] = fd
    BY <1>1 DEF Range
  <2>2. EraseFD(list, fd) = Erased(list, n)
    BY <1>1, ZenonT(60) DEF EraseFD, Erased
  <2> HIDE DEF n
  <2>3. list # <<>>
    BY <2>1
  <2> QED
    BY <1>1, <2>1, <2>2, <2>3, ErasedDistinct
<1>2. CASE fd \notin Range(list)
  BY <1>2 DEF EraseFD
<1> QED
  BY <1>1, <1>2

\* RemoveFromReadyList, whichever list the node is in.
LEMMA RemoveStep ==
  ASSUME ListsHold(ready_list_, tmp_list_, ready_list_size_, ListedFDs),
         NEW fd \in FDs, RemoveFromReadyList(fd)
  PROVE  /\ ListsHold(ready_list_', tmp_list_', ready_list_size_',
                      ListedFDs \ {fd})
         /\ tmp_list_ = <<>> => tmp_list_' = <<>>
<1> USE DEF ListsHold
<1>1. CASE node[fd].listed
  <2>1. /\ ready_list_' = EraseFD(ready_list_, fd)
        /\ tmp_list_' = EraseFD(tmp_list_, fd)
        /\ ready_list_size_' = ready_list_size_ - 1
    BY <1>1 DEF RemoveFromReadyList
  <2>2. /\ ready_list_' \in Seq(FDs) /\ Distinct(ready_list_')
        /\ Range(ready_list_') = Range(ready_list_) \ {fd}
        /\ Len(ready_list_') = IF fd \in Range(ready_list_)
                               THEN Len(ready_list_) - 1
                               ELSE Len(ready_list_)
    BY <2>1, EraseFDList, ZenonT(60)
  <2>3. /\ tmp_list_' \in Seq(FDs) /\ Distinct(tmp_list_')
        /\ Range(tmp_list_') = Range(tmp_list_) \ {fd}
        /\ Len(tmp_list_') = IF fd \in Range(tmp_list_)
                             THEN Len(tmp_list_) - 1 ELSE Len(tmp_list_)
        /\ tmp_list_ = <<>> => tmp_list_' = <<>>
    BY <2>1, EraseFDList, ZenonT(60)
  <2>4. fd \in Range(ready_list_) <=> fd \notin Range(tmp_list_)
    BY <1>1 DEF ListedFDs
  <2>5. /\ Len(ready_list_) \in Nat /\ Len(tmp_list_) \in Nat
        /\ ready_list_size_ = Len(ready_list_) + Len(tmp_list_)
    OBVIOUS
  <2>6. ready_list_size_' = Len(ready_list_') + Len(tmp_list_')
    <3> HIDE DEF ListsHold
    <3>1. CASE fd \in Range(ready_list_)
      <4>1. /\ Len(ready_list_') = Len(ready_list_) - 1
            /\ Len(tmp_list_') = Len(tmp_list_)
        BY <2>2, <2>3, <2>4, <3>1, ZenonT(60)
      <4> QED
        BY <2>1, <2>5, <4>1
    <3>2. CASE fd \notin Range(ready_list_)
      <4>1. /\ Len(ready_list_') = Len(ready_list_)
            /\ Len(tmp_list_') = Len(tmp_list_) - 1
        BY <2>2, <2>3, <2>4, <3>2, ZenonT(60)
      <4> QED
        BY <2>1, <2>5, <4>1
    <3> QED
      BY <3>1, <3>2
  <2> QED
    BY <2>2, <2>3, <2>6
<1>2. CASE ~node[fd].listed
  <2>1. UNCHANGED <<ready_list_, tmp_list_, ready_list_size_>>
    BY <1>2 DEF RemoveFromReadyList, listVars
  <2>2. ListedFDs \ {fd} = ListedFDs
    BY <1>2 DEF ListedFDs
  <2> QED
    BY <2>1, <2>2
<1> QED
  BY <1>1, <1>2

\* AddToReadyList, at the head unless the node is listed.
LEMMA AddStep ==
  ASSUME ListsHold(ready_list_, tmp_list_, ready_list_size_, ListedFDs),
         NEW fd \in FDs, NEW fields, fields.listed = node[fd].listed,
         AddToReadyList(fd, fields)
  PROVE  /\ ListsHold(ready_list_', tmp_list_', ready_list_size_',
                      ListedFDs \cup {fd})
         /\ tmp_list_' = tmp_list_
<1> USE DEF ListsHold
<1>1. CASE node[fd].listed
  <2>1. UNCHANGED <<ready_list_, tmp_list_, ready_list_size_>>
    BY <1>1 DEF AddToReadyList, listVars
  <2>2. ListedFDs \cup {fd} = ListedFDs
    BY <1>1 DEF ListedFDs
  <2> QED
    BY <2>1, <2>2
<1>2. CASE ~node[fd].listed
  <2>1. /\ ready_list_' = <<fd>> \o ready_list_ /\ tmp_list_' = tmp_list_
        /\ ready_list_size_' = ready_list_size_ + 1
    BY <1>2 DEF AddToReadyList
  <2>2. fd \notin Range(ready_list_) /\ fd \notin Range(tmp_list_)
    BY <1>2 DEF ListedFDs
  <2>3. /\ ready_list_' \in Seq(FDs) /\ Distinct(ready_list_')
        /\ Range(ready_list_') = Range(ready_list_) \cup {fd}
        /\ Len(ready_list_') = Len(ready_list_) + 1
    BY <2>1, <2>2, ConsDistinct
  <2>4. Len(ready_list_) \in Nat /\ Len(tmp_list_) \in Nat
    OBVIOUS
  <2>5. ready_list_size_' = Len(ready_list_') + Len(tmp_list_')
    BY <2>1, <2>3, <2>4
  <2> QED
    BY <2>1, <2>2, <2>3, <2>5
<1> QED
  BY <1>1, <1>2

-----------------------------------------------------------------------------
(* The inductive invariant.                                                *)

\* What holds until the server is destroyed.
Core ==
  /\ ListsHold(ready_list_, tmp_list_, ready_list_size_, ListedFDs)
  /\ phase # "calling" => tmp_list_ = <<>>
  /\ \A fd \in FDs : node[fd].listed => Registered(fd)
  /\ InterestAgrees

\* Callbacks run only from the loop over the ready list.
Inv ==
  /\ TypeOK
  /\ running # NoFD => phase = "calling"
  /\ RunningNodeSurvives
  /\ phase # "destroyed" => Core

\* The constructor establishes the invariant.
LEMMA InitInv == Init => Inv
<1> SUFFICES ASSUME Init PROVE Inv
  OBVIOUS
<1> USE CallbacksAssumption DEF Init
<1>1. NewNode(NoCallback, {}) \in CBAndEventMask
  BY DEF NewNode, CBAndEventMask, Masks, Reports
<1>2. TypeOK
  BY <1>1 DEF TypeOK
<1>3. \A fd \in FDs : ~node[fd].listed /\ ~Registered(fd)
  BY DEF NewNode, Registered
<1>4. RunningNodeSurvives
  BY DEF RunningNodeSurvives
<1>5. ListsHold(ready_list_, tmp_list_, ready_list_size_, ListedFDs)
  <2>1. <<>> \in Seq(FDs) /\ Len(<<>>) = 0 /\ Range(<<>>) = {}
        /\ Distinct(<<>>)
    BY DEF Range, Distinct
  <2>2. ListedFDs = {}
    BY <1>3 DEF ListedFDs
  <2> QED
    BY <2>1, <2>2 DEF ListsHold
<1>6. InterestAgrees
  BY <1>3 DEF InterestAgrees
<1> QED
  BY <1>2, <1>3, <1>4, <1>5, <1>6 DEF Inv, Core

\* A step that changes the node, the registration and the interest of one
\* descriptor, and possibly calls its OnEvent or returns from it.
LEMMA FDStep ==
  ASSUME Inv, phase # "destroyed", NEW fd \in FDs,
         \A f \in FDs \ {fd} : /\ node'[f] = node[f]
                               /\ epoll'[f] = epoll[f]
                               /\ f \in cb_map_' <=> f \in cb_map_
                               /\ f = running' <=> f = running,
         node' \in [FDs -> CBAndEventMask],
         epoll' \in [FDs -> Reports \cup {Unwatched}],
         cb_map_' \in SUBSET FDs, stale' \in [FDs -> BOOLEAN],
         phase' = phase, running' \in FDs \cup {NoFD},
         running' # NoFD => phase = "calling",
         node'[fd].listed =>
           ListsHold(ready_list_', tmp_list_', ready_list_size_',
                     ListedFDs \cup {fd}),
         ~node'[fd].listed =>
           ListsHold(ready_list_', tmp_list_', ready_list_size_',
                     ListedFDs \ {fd}),
         tmp_list_ = <<>> => tmp_list_' = <<>>,
         node'[fd].listed => Registered(fd)',
         epoll'[fd] = IF Registered(fd)' THEN Watched(node'[fd].event_mask)
                                         ELSE Unwatched,
         fd = running' <=> fd \in cb_map_' /\ node'[fd].in_use,
         fd \in cb_map_' /\ ~Registered(fd)' => fd = running'
  PROVE  Inv'
<1>1. \A f \in FDs \ {fd} : Registered(f)' <=> Registered(f)
  BY DEF Registered
<1>2. Core
  BY DEF Inv
<1>3. ListsHold(ready_list_', tmp_list_', ready_list_size_', ListedFDs')
  <2>1. CASE node'[fd].listed
    <3>1. ListedFDs' = ListedFDs \cup {fd}
      BY <2>1 DEF ListedFDs
    <3> QED
      BY <2>1, <3>1
  <2>2. CASE ~node'[fd].listed
    <3>1. ListedFDs' = ListedFDs \ {fd}
      BY <2>2 DEF ListedFDs
    <3> QED
      BY <2>2, <3>1
  <2> QED
    BY <2>1, <2>2
<1>4. TypeOK'
  <2>1. /\ ready_list_' \in Seq(FDs) /\ tmp_list_' \in Seq(FDs)
        /\ ready_list_size_' \in Nat
    BY <1>3 DEF ListsHold
  <2> QED
    BY <2>1 DEF Inv, TypeOK
<1>5. RunningNodeSurvives'
  BY DEF Inv, RunningNodeSurvives
<1>6. (\A f \in FDs : node[f].listed => Registered(f))'
  BY <1>1, <1>2 DEF Core
<1>7. InterestAgrees'
  BY <1>1, <1>2, ZenonT(60) DEF Core, InterestAgrees
<1>8. Core'
  BY <1>2, <1>3, <1>6, <1>7 DEF Core
<1> QED
  BY <1>4, <1>5, <1>8 DEF Inv

\* What the operations need to know of a descriptor before they change it.
LEMMA FDFacts ==
  ASSUME Inv, phase # "destroyed", NEW fd \in FDs
  PROVE  /\ node \in [FDs -> CBAndEventMask]
         /\ node[fd].in_use \in BOOLEAN /\ node[fd].listed \in BOOLEAN
         /\ epoll \in [FDs -> Reports \cup {Unwatched}]
         /\ cb_map_ \in SUBSET FDs /\ stale \in [FDs -> BOOLEAN]
         /\ running \in FDs \cup {NoFD}
         /\ running # NoFD => phase = "calling"
         /\ ListsHold(ready_list_, tmp_list_, ready_list_size_, ListedFDs)
         /\ ~node[fd].listed => ListedFDs \ {fd} = ListedFDs
         /\ node[fd].listed => ListedFDs \cup {fd} = ListedFDs
         /\ node[fd].listed => Registered(fd)
         /\ fd = running <=> fd \in cb_map_ /\ node[fd].in_use
         /\ epoll[fd] = IF Registered(fd) THEN Watched(node[fd].event_mask)
                                          ELSE Unwatched
         /\ fd \in cb_map_ /\ ~Registered(fd) => fd = running
<1>1. Core /\ TypeOK /\ RunningNodeSurvives
      /\ (running # NoFD => phase = "calling")
  BY DEF Inv
<1>2. node[fd].in_use \in BOOLEAN /\ node[fd].listed \in BOOLEAN
  BY <1>1 DEF TypeOK, CBAndEventMask
<1>3. /\ ~node[fd].listed => ListedFDs \ {fd} = ListedFDs
      /\ node[fd].listed => ListedFDs \cup {fd} = ListedFDs
  BY DEF ListedFDs
<1> QED
  BY <1>1, <1>2, <1>3
  DEF TypeOK, RunningNodeSurvives, Core, InterestAgrees

\* User code runs only while the server exists.
LEMMA UserCodeExists ==
  ASSUME Inv, UserCode
  PROVE  phase # "destroyed"
BY DEF Inv, UserCode

\* AddFD and ModFD ask for what may be reported.
LEMMA WatchedReports == \A mask \in Masks : Watched(mask) \in Reports
BY DEF Masks, Reports, Watched

\* The fields of a node may be assigned one by one.
LEMMA NodeFields ==
  ASSUME NEW n \in CBAndEventMask, NEW cb \in Callbacks \cup {NoCallback},
         NEW mask \in Masks, NEW asserted \in Reports, NEW fake \in Masks,
         NEW used \in BOOLEAN, NEW listed \in BOOLEAN
  PROVE  /\ {} \in Masks /\ {} \in Reports
         /\ [n EXCEPT !.cb = cb, !.event_mask = mask,
                      !.events_to_fake = fake, !.listed = listed]
              \in CBAndEventMask
         /\ [n EXCEPT !.events_asserted = asserted, !.events_to_fake = fake,
                      !.in_use = used, !.listed = listed]
              \in CBAndEventMask
         /\ [n EXCEPT !.event_mask = mask] \in CBAndEventMask
         /\ [n EXCEPT !.listed = listed] \in CBAndEventMask
<1>1. {} \in Masks /\ {} \in Reports
  BY DEF Masks, Reports
<1>2. [n EXCEPT !.cb = cb, !.event_mask = mask,
                !.events_to_fake = fake, !.listed = listed]
        \in CBAndEventMask
  BY ZenonT(60) DEF CBAndEventMask
<1>3. [n EXCEPT !.events_asserted = asserted, !.events_to_fake = fake,
                !.in_use = used, !.listed = listed]
        \in CBAndEventMask
  BY ZenonT(60) DEF CBAndEventMask
<1>4. [n EXCEPT !.event_mask = mask] \in CBAndEventMask
  BY DEF CBAndEventMask
<1>5. [n EXCEPT !.listed = listed] \in CBAndEventMask
  BY DEF CBAndEventMask
<1> QED
  BY <1>1, <1>2, <1>3, <1>4, <1>5

\* RegisterFD.
LEMMA RegisterInv ==
  ASSUME Inv, NEW fd \in FDs, NEW cb \in Callbacks, NEW mask \in Masks,
         RegisterFD(fd, cb, mask)
  PROVE  Inv'
<1>1. phase # "destroyed" /\ UNCHANGED <<phase, running>>
  BY UserCodeExists DEF RegisterFD, loopVars
<1> USE <1>1, FDFacts, CallbacksAssumption
<1>2. CASE fd \notin cb_map_
  <2>1. /\ cb_map_' = cb_map_ \cup {fd}
        /\ node' = [node EXCEPT ![fd] = NewNode(cb, mask)]
        /\ stale' = [stale EXCEPT ![fd] = FALSE]
        /\ epoll' = [epoll EXCEPT ![fd] = Watched(mask)]
        /\ UNCHANGED <<ready_list_, tmp_list_, ready_list_size_>>
    BY <1>2 DEF RegisterFD, AddFD, listVars
  <2>2. NewNode(cb, mask) \in CBAndEventMask
    BY DEF NewNode, CBAndEventMask, Masks, Reports
  <2>3. /\ node' \in [FDs -> CBAndEventMask]
        /\ epoll' \in [FDs -> Reports \cup {Unwatched}]
        /\ cb_map_' \in SUBSET FDs /\ stale' \in [FDs -> BOOLEAN]
        /\ \A f \in FDs \ {fd} : node'[f] = node[f] /\ epoll'[f] = epoll[f]
        /\ epoll'[fd] = Watched(mask)
    BY <2>1, <2>2, WatchedReports
  <2>4. /\ ~node'[fd].listed /\ ~node'[fd].in_use
        /\ node'[fd].cb = cb /\ node'[fd].event_mask = mask
    BY <2>1 DEF NewNode
  <2>5. ~node[fd].listed /\ fd # running
    BY <1>2 DEF Registered
  <2>6. ListsHold(ready_list_', tmp_list_', ready_list_size_',
                  ListedFDs \ {fd})
    BY <2>1, <2>5, ZenonT(60)
  <2>7. Registered(fd)'
    BY <2>1, <2>4 DEF Registered
  <2> QED
    BY <2>1, <2>3, <2>4, <2>5, <2>6, <2>7, FDStep, ZenonT(60)
<1>3. CASE fd \in cb_map_
  <2>1. /\ node' = [node EXCEPT ![fd].cb = cb, ![fd].event_mask = mask,
                                ![fd].events_to_fake = {},
                                ![fd].listed = @ /\ ~Registered(fd)]
        /\ stale' = [stale EXCEPT ![fd] = node[fd].events_asserted # {}]
        /\ epoll' = [epoll EXCEPT ![fd] = Watched(mask)]
        /\ Registered(fd) => RemoveFromReadyList(fd)
        /\ ~Registered(fd) =>
             UNCHANGED <<ready_list_, tmp_list_, ready_list_size_>>
        /\ UNCHANGED cb_map_
    BY <1>3, ZenonT(60) DEF RegisterFD, AddFD, ModFD, listVars
  <2>2. /\ node'[fd].cb = cb /\ node'[fd].event_mask = mask
        /\ node'[fd].in_use = node[fd].in_use
        /\ ~node'[fd].listed
    BY <2>1 DEF CBAndEventMask
  <2>3. node' \in [FDs -> CBAndEventMask]
    <3>1. {} \in Masks /\ {} \in Reports
      BY DEF Masks, Reports
    <3> DEFINE n == [node[fd] EXCEPT !.cb = cb, !.event_mask = mask,
                                     !.events_to_fake = {},
                                     !.listed = FALSE]
    <3>2. n \in CBAndEventMask
      BY <3>1, NodeFields, ZenonT(60)
    <3>3. node'[fd] = n
      BY <2>1, ZenonT(60) DEF CBAndEventMask
    <3> QED
      BY <2>1, <3>2, <3>3, ZenonT(60)
  <2>4. /\ epoll' \in [FDs -> Reports \cup {Unwatched}]
        /\ stale' \in [FDs -> BOOLEAN]
        /\ \A f \in FDs \ {fd} : node'[f] = node[f] /\ epoll'[f] = epoll[f]
        /\ epoll'[fd] = Watched(mask)
    BY <2>1, WatchedReports
  <2>5. /\ ListsHold(ready_list_', tmp_list_', ready_list_size_',
                     ListedFDs \ {fd})
        /\ tmp_list_ = <<>> => tmp_list_' = <<>>
    BY <2>1, RemoveStep, ZenonT(60)
  <2>6. Registered(fd)'
    BY <1>3, <2>1, <2>2 DEF Registered
  <2> QED
    BY <1>3, <2>1, <2>2, <2>3, <2>4, <2>5, <2>6, FDStep, ZenonT(60)
<1> QED
  BY <1>2, <1>3

\* UnregisterFD: the node is kept while its OnEvent is on the stack.
LEMMA UnregisterInv ==
  ASSUME Inv, NEW fd \in FDs, UnregisterFD(fd)
  PROVE  Inv'
<1>1. /\ phase # "destroyed" /\ Registered(fd)
      /\ RemoveFromReadyList(fd)
      /\ epoll' = [epoll EXCEPT ![fd] = Unwatched]
      /\ UNCHANGED <<phase, running, stale>>
  BY UserCodeExists DEF UnregisterFD, loopVars, DelFD
<1> USE <1>1, FDFacts, CallbacksAssumption
<1>2. /\ ListsHold(ready_list_', tmp_list_', ready_list_size_',
                   ListedFDs \ {fd})
      /\ tmp_list_ = <<>> => tmp_list_' = <<>>
  BY RemoveStep, ZenonT(60)
<1>3. /\ epoll' \in [FDs -> Reports \cup {Unwatched}]
      /\ epoll'[fd] = Unwatched
      /\ \A f \in FDs \ {fd} : epoll'[f] = epoll[f]
  OBVIOUS
<1>4. CASE node[fd].in_use
  <2>1. /\ node' = [node EXCEPT ![fd].cb = NoCallback,
                                ![fd].event_mask = {},
                                ![fd].events_to_fake = {},
                                ![fd].listed = FALSE]
        /\ UNCHANGED cb_map_
    BY <1>4, ZenonT(60) DEF UnregisterFD
  <2>2. /\ node'[fd].cb = NoCallback /\ ~node'[fd].listed
        /\ node'[fd].in_use = node[fd].in_use
        /\ \A f \in FDs \ {fd} : node'[f] = node[f]
    BY <2>1 DEF CBAndEventMask
  <2>3. node' \in [FDs -> CBAndEventMask]
    <3>1. {} \in Masks /\ {} \in Reports
      BY DEF Masks, Reports
    <3> DEFINE n == [node[fd] EXCEPT !.cb = NoCallback, !.event_mask = {},
                                     !.events_to_fake = {},
                                     !.listed = FALSE]
    <3>2. n \in CBAndEventMask
      BY <3>1, NodeFields, ZenonT(60)
    <3>3. node'[fd] = n
      BY <2>1, ZenonT(60) DEF CBAndEventMask
    <3> QED
      BY <2>1, <3>2, <3>3, ZenonT(60)
  <2>4. ~Registered(fd)' /\ fd = running
    BY <1>4, <2>2 DEF Registered
  <2> QED
    BY <1>2, <1>3, <2>1, <2>2, <2>3, <2>4, FDStep, ZenonT(60)
<1>5. CASE ~node[fd].in_use
  <2>1. /\ cb_map_' = cb_map_ \ {fd}
        /\ node' = [node EXCEPT ![fd] = NewNode(NoCallback, {})]
    BY <1>5 DEF UnregisterFD
  <2>2. NewNode(NoCallback, {}) \in CBAndEventMask
    BY DEF NewNode, CBAndEventMask, Masks, Reports
  <2>3. /\ node' \in [FDs -> CBAndEventMask]
        /\ \A f \in FDs \ {fd} : node'[f] = node[f]
        /\ ~node'[fd].listed
    BY <2>1, <2>2, ZenonT(60) DEF NewNode
  <2>4. ~Registered(fd)' /\ fd # running
    BY <1>5, <2>1 DEF Registered
  <2> QED
    BY <1>2, <1>3, <2>1, <2>3, <2>4, FDStep, ZenonT(60)
<1> QED
  BY <1>4, <1>5

\* ModifyCallback, StopRead, StopWrite, StartRead and StartWrite.
LEMMA ModifyInv ==
  ASSUME Inv, NEW fd \in FDs, NEW m \in Modifications,
         ModifyFD(fd, m[1], m[2])
  PROVE  Inv'
<1> DEFINE mask == (node[fd].event_mask \ m[1]) \cup m[2]
           n == [node[fd] EXCEPT !.event_mask = mask]
<1>1. phase # "destroyed"
  BY UserCodeExists DEF ModifyFD
<1>2. /\ Registered(fd)
      /\ node' = [node EXCEPT ![fd] = n]
      /\ epoll' = [epoll EXCEPT ![fd] = Watched(mask)]
      /\ UNCHANGED <<cb_map_, ready_list_, tmp_list_, ready_list_size_,
                     phase, running, stale>>
  BY DEF ModifyFD, ModFD, listVars, loopVars
<1>3. mask \in Masks /\ node[fd] \in CBAndEventMask
  BY <1>1, FDFacts DEF Modifications, Masks, CBAndEventMask
<1>4. n \in CBAndEventMask
  BY <1>3, ZenonT(60) DEF CBAndEventMask
<1>5. /\ n.listed = node[fd].listed /\ n.cb = node[fd].cb
      /\ n.in_use = node[fd].in_use /\ n.event_mask = mask
  BY <1>3 DEF CBAndEventMask
<1> HIDE DEF mask, n
<1>6. /\ node' \in [FDs -> CBAndEventMask] /\ node'[fd] = n
      /\ epoll' \in [FDs -> Reports \cup {Unwatched}] /\ epoll'[fd] = Watched(mask)
      /\ \A f \in FDs \ {fd} : node'[f] = node[f] /\ epoll'[f] = epoll[f]
  BY <1>1, <1>2, <1>3, <1>4, FDFacts, WatchedReports
<1>7. Registered(fd)'
  BY <1>2, <1>5, <1>6 DEF Registered
<1>8. /\ node'[fd].listed = node[fd].listed
      /\ node'[fd].in_use = node[fd].in_use /\ node'[fd].event_mask = mask
  BY <1>5, <1>6
<1>9. /\ node'[fd].listed =>
           ListsHold(ready_list_', tmp_list_', ready_list_size_',
                     ListedFDs \cup {fd})
      /\ ~node'[fd].listed =>
           ListsHold(ready_list_', tmp_list_', ready_list_size_',
                     ListedFDs \ {fd})
  BY <1>1, <1>2, <1>8, FDFacts, ZenonT(60)
<1>10. /\ fd = running' <=> fd \in cb_map_' /\ node'[fd].in_use
       /\ running' \in FDs \cup {NoFD}
       /\ running' # NoFD => phase = "calling"
       /\ cb_map_' \in SUBSET FDs /\ stale' \in [FDs -> BOOLEAN]
  BY <1>1, <1>2, <1>8, FDFacts
<1> QED
  BY <1>1, <1>2, <1>6, <1>7, <1>8, <1>9, <1>10, FDStep, ZenonT(60)

\* A registered descriptor is put on the ready list: SetFDReady, HandleEvent,
\* and OnEvent returning with events that are still ready.
LEMMA PutOnList ==
  ASSUME Inv, phase # "destroyed", NEW fd \in FDs, Registered(fd),
         NEW n \in CBAndEventMask,
         n.listed = node[fd].listed, n.cb = node[fd].cb,
         n.event_mask = node[fd].event_mask,
         AddToReadyList(fd, n),
         \/ running' = running /\ n.in_use = node[fd].in_use
         \/ running = fd /\ running' = NoFD /\ n.in_use = FALSE,
         stale' \in [FDs -> BOOLEAN],
         UNCHANGED <<cb_map_, epoll, phase>>
  PROVE  Inv'
<1> DEFINE added == [n EXCEPT !.listed = TRUE]
<1>1. node' = [node EXCEPT ![fd] = added]
  BY DEF AddToReadyList
<1>2. /\ added \in CBAndEventMask
      /\ added.listed /\ added.cb = n.cb /\ added.in_use = n.in_use
      /\ added.event_mask = n.event_mask
  BY ZenonT(60) DEF CBAndEventMask
<1> HIDE DEF added
<1>3. /\ node' \in [FDs -> CBAndEventMask] /\ node'[fd] = added
      /\ \A f \in FDs \ {fd} : node'[f] = node[f]
  BY <1>1, <1>2, FDFacts
<1>4. /\ ListsHold(ready_list_', tmp_list_', ready_list_size_',
                   ListedFDs \cup {fd})
      /\ tmp_list_' = tmp_list_
  BY FDFacts, AddStep, ZenonT(60)
<1>5. Registered(fd)' /\ fd \in cb_map_
  BY <1>2, <1>3 DEF Registered
<1>6. /\ running' \in FDs \cup {NoFD}
      /\ running' # NoFD => phase = "calling"
      /\ \A f \in FDs \ {fd} : f = running' <=> f = running
      /\ fd = running' <=> fd \in cb_map_' /\ node'[fd].in_use
  BY <1>2, <1>3, <1>5, FDFacts, CallbacksAssumption
<1>7. /\ node'[fd].listed /\ epoll'[fd] = Watched(node'[fd].event_mask)
      /\ epoll' \in [FDs -> Reports \cup {Unwatched}]
      /\ cb_map_' \in SUBSET FDs
  <2>1. node'[fd].listed /\ node'[fd].event_mask = node[fd].event_mask
    BY <1>2, <1>3
  <2>2. /\ epoll[fd] = Watched(node[fd].event_mask)
        /\ epoll \in [FDs -> Reports \cup {Unwatched}]
        /\ cb_map_ \in SUBSET FDs
    BY FDFacts, ZenonT(60)
  <2> QED
    BY <2>1, <2>2, ZenonT(60)
<1> QED
  BY <1>3, <1>4, <1>5, <1>6, <1>7, FDStep, ZenonT(60)

\* SetFDReady.
LEMMA SetReadyInv ==
  ASSUME Inv, NEW fd \in FDs, NEW mask \in Masks, SetFDReady(fd, mask)
  PROVE  Inv'
<1> DEFINE n == [node[fd] EXCEPT !.events_to_fake = mask]
<1>1. phase # "destroyed"
  BY UserCodeExists DEF SetFDReady
<1>2. node[fd] \in CBAndEventMask /\ stale \in [FDs -> BOOLEAN]
  BY <1>1, FDFacts
<1>3. /\ n \in CBAndEventMask
      /\ n.listed = node[fd].listed /\ n.cb = node[fd].cb
      /\ n.event_mask = node[fd].event_mask /\ n.in_use = node[fd].in_use
  BY <1>2 DEF CBAndEventMask
<1>4. /\ Registered(fd) /\ AddToReadyList(fd, n)
      /\ UNCHANGED <<cb_map_, epoll, phase, running, stale>>
  BY DEF SetFDReady, loopVars
<1> HIDE DEF n
<1> QED
  BY <1>1, <1>2, <1>3, <1>4, PutOnList, ZenonT(60)

\* An event of epoll_wait, or a faked one, puts its descriptor on the ready
\* list.
LEMMA HandleEventInv ==
  ASSUME Inv, NEW fd \in FDs, NEW mask \in Reports, HandleEvent(fd, mask)
  PROVE  Inv'
<1> DEFINE n == [node[fd] EXCEPT !.events_asserted = mask]
<1>1. phase # "destroyed"
  BY UserCodeExists DEF HandleEvent
<1>2. node[fd] \in CBAndEventMask /\ stale \in [FDs -> BOOLEAN]
  BY <1>1, FDFacts
<1>3. /\ n \in CBAndEventMask
      /\ n.listed = node[fd].listed /\ n.cb = node[fd].cb
      /\ n.event_mask = node[fd].event_mask /\ n.in_use = node[fd].in_use
  BY <1>2 DEF CBAndEventMask
<1>4. /\ Registered(fd) /\ AddToReadyList(fd, n)
      /\ stale' = [stale EXCEPT ![fd] = FALSE]
      /\ UNCHANGED <<cb_map_, epoll, phase, running>>
  BY DEF HandleEvent, loopVars
<1>5. stale' \in [FDs -> BOOLEAN]
  BY <1>2, <1>4
<1> HIDE DEF n
<1> QED
  BY <1>1, <1>3, <1>4, <1>5, PutOnList, ZenonT(60)

\* SetFDNotReady.
LEMMA SetNotReadyInv ==
  ASSUME Inv, NEW fd \in FDs, SetFDNotReady(fd)
  PROVE  Inv'
<1> DEFINE n == [node[fd] EXCEPT !.listed = FALSE]
<1>1. phase # "destroyed"
  BY UserCodeExists DEF SetFDNotReady
<1>2. /\ RemoveFromReadyList(fd)
      /\ node' = [node EXCEPT ![fd] = n]
      /\ UNCHANGED <<cb_map_, epoll, phase, running, stale>>
  BY DEF SetFDNotReady, loopVars
<1>3. /\ n \in CBAndEventMask
      /\ ~n.listed /\ n.cb = node[fd].cb
      /\ n.event_mask = node[fd].event_mask /\ n.in_use = node[fd].in_use
  <2>1. node[fd] \in CBAndEventMask
    BY <1>1, FDFacts
  <2> QED
    BY <2>1, ZenonT(60) DEF CBAndEventMask
<1> HIDE DEF n
<1>4. /\ node' \in [FDs -> CBAndEventMask] /\ node'[fd] = n
      /\ \A f \in FDs \ {fd} : node'[f] = node[f]
  BY <1>1, <1>2, <1>3, FDFacts
<1>5. Registered(fd)' <=> Registered(fd)
  BY <1>2, <1>3, <1>4 DEF Registered
<1>6. /\ ListsHold(ready_list_', tmp_list_', ready_list_size_',
                   ListedFDs \ {fd})
      /\ tmp_list_ = <<>> => tmp_list_' = <<>>
  BY <1>1, <1>2, FDFacts, RemoveStep
<1> QED
  BY <1>1, <1>2, <1>3, <1>4, <1>5, <1>6, FDFacts, FDStep, ZenonT(60)

\* CallReadyListCallbacks takes the first node off its list and calls OnEvent.
LEMMA CallOnEventInv ==
  ASSUME Inv, CallOnEvent
  PROVE  Inv'
<1>1. PICK fd \in FDs : fd = Head(tmp_list_) /\ node[fd].listed
  <2>1. phase = "calling" /\ tmp_list_ # <<>>
    BY DEF CallOnEvent
  <2>2. ListsHold(ready_list_, tmp_list_, ready_list_size_, ListedFDs)
    BY <2>1 DEF Inv, Core
  <2>3. Head(tmp_list_) \in Range(tmp_list_)
    BY <2>1, <2>2 DEF ListsHold, Range
  <2> QED
    BY <2>2, <2>3 DEF ListsHold, ListedFDs
<1> DEFINE n == [node[fd] EXCEPT !.events_asserted = {},
                                 !.events_to_fake = {},
                                 !.in_use = TRUE, !.listed = FALSE]
<1>2. /\ phase = "calling" /\ running = NoFD /\ tmp_list_ # <<>>
      /\ RemoveFromReadyList(fd)
      /\ node' = [node EXCEPT ![fd] = n]
      /\ running' = fd
      /\ UNCHANGED <<cb_map_, epoll, phase, stale>>
  BY <1>1, ZenonT(60) DEF CallOnEvent
<1>3. /\ n \in CBAndEventMask
      /\ ~n.listed /\ n.cb = node[fd].cb
      /\ n.event_mask = node[fd].event_mask /\ n.in_use
  <2>1. node[fd] \in CBAndEventMask /\ {} \in Masks /\ {} \in Reports
    BY <1>1, <1>2, FDFacts DEF Masks, Reports
  <2> QED
    BY <2>1, ZenonT(60) DEF CBAndEventMask
<1> HIDE DEF n
<1>4. /\ node' \in [FDs -> CBAndEventMask] /\ node'[fd] = n
      /\ \A f \in FDs \ {fd} : node'[f] = node[f]
  BY <1>1, <1>2, <1>3, FDFacts
<1>5. /\ Registered(fd) /\ Registered(fd)' /\ fd \in cb_map_
      /\ fd # NoFD
  <2>1. Registered(fd)
    BY <1>1, <1>2, FDFacts
  <2> QED
    BY <1>1, <1>2, <1>3, <1>4, <2>1, CallbacksAssumption DEF Registered
<1>6. /\ ListsHold(ready_list_', tmp_list_', ready_list_size_',
                   ListedFDs \ {fd})
      /\ tmp_list_ = <<>> => tmp_list_' = <<>>
  BY <1>1, <1>2, FDFacts, RemoveStep
<1>7. \A f \in FDs \ {fd} : f = running' <=> f = running
  BY <1>2, CallbacksAssumption
<1>8. epoll'[fd] = Watched(node'[fd].event_mask)
  BY <1>1, <1>2, <1>3, <1>4, <1>5, FDFacts
<1>9. /\ epoll' \in [FDs -> Reports \cup {Unwatched}]
      /\ cb_map_' \in SUBSET FDs /\ stale' \in [FDs -> BOOLEAN]
  BY <1>1, <1>2, FDFacts
<1> QED
  BY <1>1, <1>2, <1>3, <1>4, <1>5, <1>6, <1>7, <1>8, <1>9, FDStep, ZenonT(60)

\* OnEvent returns: a node that was unregistered meanwhile is erased now.
LEMMA OnEventReturnsInv ==
  ASSUME Inv, NEW mask \in Masks, OnEventReturns(mask)
  PROVE  Inv'
<1>0. PICK fd \in FDs : fd = running
  BY DEF OnEventReturns, Inv, TypeOK
<1> DEFINE n == [node[fd] EXCEPT !.in_use = FALSE]
<1>1. /\ fd = running /\ phase = "calling"
      /\ running' = NoFD
      /\ UNCHANGED <<epoll, phase, stale>>
  BY <1>0 DEF OnEventReturns, Inv
<1>2. /\ node[fd] \in CBAndEventMask /\ stale \in [FDs -> BOOLEAN]
      /\ fd \in cb_map_
  BY <1>1, FDFacts
<1>3. /\ n \in CBAndEventMask
      /\ n.listed = node[fd].listed /\ n.cb = node[fd].cb
      /\ n.event_mask = node[fd].event_mask /\ n.in_use = FALSE
  BY <1>2, ZenonT(60) DEF CBAndEventMask
<1>4. /\ epoll' \in [FDs -> Reports \cup {Unwatched}]
      /\ cb_map_ \in SUBSET FDs /\ stale' \in [FDs -> BOOLEAN]
      /\ \A f \in FDs \ {fd} : /\ f = running' <=> f = running
                               /\ epoll'[f] = epoll[f]
      /\ fd # running' /\ running' \in FDs \cup {NoFD}
  BY <1>1, FDFacts, CallbacksAssumption
<1>5. CASE n.cb = NoCallback
  <2>1. /\ cb_map_' = cb_map_ \ {fd}
        /\ node' = [node EXCEPT ![fd] = NewNode(NoCallback, {})]
        /\ UNCHANGED <<ready_list_, tmp_list_, ready_list_size_>>
    BY <1>1, <1>5 DEF OnEventReturns, listVars
  <2>2. NewNode(NoCallback, {}) \in CBAndEventMask
    BY DEF NewNode, CBAndEventMask, Masks, Reports
  <2>3. /\ node' \in [FDs -> CBAndEventMask]
        /\ \A f \in FDs \ {fd} : node'[f] = node[f]
        /\ ~node'[fd].listed
    BY <2>1, <2>2, <1>1, FDFacts, ZenonT(60) DEF NewNode
  <2>4. ~Registered(fd) /\ ~Registered(fd)'
    BY <1>3, <1>5, <2>1 DEF Registered
  <2>5. epoll'[fd] = Unwatched
    BY <1>1, <2>4, FDFacts, ZenonT(60)
  <2>6. ListsHold(ready_list_', tmp_list_', ready_list_size_',
                  ListedFDs \ {fd})
    BY <1>1, <2>1, <2>4, FDFacts, ZenonT(60)
  <2>7. /\ cb_map_' \in SUBSET FDs /\ fd \notin cb_map_'
        /\ \A f \in FDs \ {fd} : f \in cb_map_' <=> f \in cb_map_
    BY <1>4, <2>1
  <2> HIDE DEF n
  <2> QED
    BY <1>1, <1>4, <2>1, <2>3, <2>4, <2>5, <2>6, <2>7, FDStep, ZenonT(60)
<1>6. CASE n.cb # NoCallback /\ mask # {}
  <2> DEFINE m == [n EXCEPT !.events_to_fake = mask]
  <2>1. AddToReadyList(fd, m) /\ UNCHANGED cb_map_
    BY <1>1, <1>6 DEF OnEventReturns
  <2> HIDE DEF n
  <2>2. /\ m \in CBAndEventMask
        /\ m.listed = n.listed /\ m.cb = n.cb
        /\ m.event_mask = n.event_mask /\ m.in_use = n.in_use
    BY <1>3 DEF CBAndEventMask
  <2> HIDE DEF m
  <2>3. Registered(fd)
    BY <1>2, <1>3, <1>6 DEF Registered
  <2> QED
    BY <1>1, <1>3, <1>4, <2>1, <2>2, <2>3, PutOnList, ZenonT(60)
<1>7. CASE n.cb # NoCallback /\ mask = {}
  <2>1. /\ node' = [node EXCEPT ![fd] = n]
        /\ UNCHANGED <<cb_map_, ready_list_, tmp_list_, ready_list_size_>>
    BY <1>1, <1>7 DEF OnEventReturns, listVars
  <2> HIDE DEF n
  <2>2. /\ node' \in [FDs -> CBAndEventMask] /\ node'[fd] = n
        /\ \A f \in FDs \ {fd} : node'[f] = node[f]
    BY <1>1, <1>3, <2>1, FDFacts
  <2>3. Registered(fd) /\ Registered(fd)'
    BY <1>2, <1>3, <1>7, <2>1, <2>2 DEF Registered
  <2>4. /\ node'[fd].listed = node[fd].listed /\ ~node'[fd].in_use
        /\ epoll'[fd] = Watched(node'[fd].event_mask)
    BY <1>1, <1>3, <2>2, <2>3, FDFacts, ZenonT(60)
  <2>5. /\ node'[fd].listed =>
             ListsHold(ready_list_', tmp_list_', ready_list_size_',
                       ListedFDs \cup {fd})
        /\ ~node'[fd].listed =>
             ListsHold(ready_list_', tmp_list_', ready_list_size_',
                       ListedFDs \ {fd})
    BY <1>1, <2>1, <2>4, FDFacts, ZenonT(60)
  <2> QED
    BY <1>1, <1>4, <2>1, <2>2, <2>3, <2>4, <2>5, FDStep, ZenonT(60)
<1> QED
  BY <1>5, <1>6, <1>7

-----------------------------------------------------------------------------
(* The loop, and the destruction.                                          *)

\* epoll_wait, the swap of the lists before the loop, and the end of the loop.
LEMMA LoopInv ==
  ASSUME Inv, EpollWait \/ CallReadyListCallbacks \/ EndRound
  PROVE  Inv'
<1>1. /\ phase # "destroyed" /\ phase' \in {"idle", "waited", "calling"}
      /\ running = NoFD
      /\ UNCHANGED <<cb_map_, node, ready_list_size_, epoll, running, stale>>
  BY DEF Inv, EpollWait, CallReadyListCallbacks, EndRound, listVars
<1>2. Core /\ TypeOK
  BY <1>1 DEF Inv
<1>3. /\ ListsHold(ready_list_', tmp_list_', ready_list_size_', ListedFDs')
      /\ phase' # "calling" => tmp_list_' = <<>>
  <2>1. ListedFDs' = ListedFDs
    BY <1>1 DEF ListedFDs
  <2>2. CASE CallReadyListCallbacks
    <3>1. ready_list_' = tmp_list_ /\ tmp_list_' = ready_list_
          /\ phase' = "calling"
      BY <2>2 DEF CallReadyListCallbacks
    <3>2. ListsHold(ready_list_, tmp_list_, ready_list_size_, ListedFDs)
      BY <1>2 DEF Core
    <3>3. ListsHold(tmp_list_, ready_list_, ready_list_size_, ListedFDs)
      BY <3>2 DEF ListsHold
    <3> QED
      BY <1>1, <2>1, <3>1, <3>3
  <2>3. CASE EpollWait \/ EndRound
    <3>1. UNCHANGED <<ready_list_, tmp_list_>> /\ tmp_list_ = <<>>
      BY <1>2, <2>3 DEF EpollWait, EndRound, listVars, Core
    <3> QED
      BY <1>1, <1>2, <2>1, <3>1 DEF Core
  <2> QED
    BY <2>2, <2>3
<1>4. TypeOK'
  <2>1. /\ ready_list_' \in Seq(FDs) /\ tmp_list_' \in Seq(FDs)
    BY <1>3 DEF ListsHold
  <2> QED
    BY <1>1, <1>2, <2>1 DEF TypeOK
<1>5. \A fd \in FDs : Registered(fd)' <=> Registered(fd)
  BY <1>1 DEF Registered
<1>6. InterestAgrees' /\ (\A fd \in FDs : node[fd].listed => Registered(fd))'
  BY <1>1, <1>2, <1>5 DEF Core, InterestAgrees
<1>7. RunningNodeSurvives'
  BY <1>1 DEF Inv, RunningNodeSurvives
<1> QED
  BY <1>1, <1>3, <1>4, <1>6, <1>7 DEF Inv, Core

\* The destructor leaves no node, and none was in use.
LEMMA DestroyInv ==
  ASSUME Inv, Destroy
  PROVE  Inv'
<1>1. /\ phase' = "destroyed" /\ running = NoFD /\ cb_map_' = {}
      /\ node' = [fd \in FDs |-> NewNode(NoCallback, {})]
      /\ ready_list_' = <<>> /\ tmp_list_' = <<>>
      /\ UNCHANGED <<ready_list_size_, epoll, running, stale>>
  BY DEF Inv, Destroy
<1>2. NewNode(NoCallback, {}) \in CBAndEventMask
  BY DEF NewNode, CBAndEventMask, Masks, Reports
<1>3. TypeOK'
  BY <1>1, <1>2 DEF Inv, TypeOK
<1>4. RunningNodeSurvives'
  BY <1>1, CallbacksAssumption DEF RunningNodeSurvives
<1> QED
  BY <1>1, <1>3, <1>4 DEF Inv

\* Every step preserves the invariant.
LEMMA NextInv == Inv /\ [Next]_vars => Inv'
<1> SUFFICES ASSUME Inv, [Next]_vars PROVE Inv'
  OBVIOUS
<1>1. ASSUME NEW fd \in FDs, NEW cb \in Callbacks, NEW mask \in Masks,
             RegisterFD(fd, cb, mask)
      PROVE  Inv'
  BY <1>1, RegisterInv
<1>2. ASSUME NEW fd \in FDs, UnregisterFD(fd)
      PROVE  Inv'
  BY <1>2, UnregisterInv
<1>3. ASSUME NEW fd \in FDs, NEW m \in Modifications,
             ModifyFD(fd, m[1], m[2])
      PROVE  Inv'
  BY <1>3, ModifyInv
<1>4. ASSUME NEW fd \in FDs, SetFDNotReady(fd)
      PROVE  Inv'
  BY <1>4, SetNotReadyInv
<1>5. ASSUME NEW fd \in FDs, NEW mask \in Masks, SetFDReady(fd, mask)
      PROVE  Inv'
  BY <1>5, SetReadyInv
<1>6. ASSUME NEW fd \in FDs, NEW mask \in Reports, HandleEvent(fd, mask)
      PROVE  Inv'
  BY <1>6, HandleEventInv
<1>7. CASE EpollWait \/ CallReadyListCallbacks \/ EndRound
  BY <1>7, LoopInv
<1>8. CASE CallOnEvent
  BY <1>8, CallOnEventInv
<1>9. ASSUME NEW mask \in Masks, OnEventReturns(mask)
      PROVE  Inv'
  BY <1>9, OnEventReturnsInv
<1>10. CASE Destroy
  BY <1>10, DestroyInv
<1>11. CASE UNCHANGED vars
  BY <1>11
  DEF vars, listVars, loopVars, Inv, Core, TypeOK, RunningNodeSurvives,
      InterestAgrees, Registered, ListedFDs
<1> QED
  BY <1>1, <1>2, <1>3, <1>4, <1>5, <1>6, <1>7, <1>8, <1>9, <1>10, <1>11
  DEF Next

-----------------------------------------------------------------------------
(* The theorems.                                                           *)

\* Whatever callbacks do to each other's descriptors while the loop is
\* between them, the invariant holds throughout.
THEOREM Invariance == Spec => []Inv
BY InitInv, NextInv, PTL DEF Spec

\* The nodes, the lists and the loop keep their types.
THEOREM TypeCorrect == Spec => []TypeOK
<1>1. Inv => TypeOK
  BY DEF Inv
<1> QED
  BY <1>1, Invariance, PTL

\* The node whose OnEvent is on the stack outlives the call, and no other is
\* marked in use.
THEOREM RunningNodeOutlivesCall == Spec => []RunningNodeSurvives
<1>1. Inv => RunningNodeSurvives
  BY DEF Inv
<1> QED
  BY <1>1, Invariance, PTL

\* AddFD, ModFD and DelFD never meet a descriptor in the wrong state.
THEOREM KernelAgrees == Spec => []InterestAgrees
<1>1. Inv => InterestAgrees
  BY DEF Inv, Core, InterestAgrees
<1> QED
  BY <1>1, Invariance, PTL

\* What CallReadyListCallbacks dereferences exists, and VerifyReadyList
\* succeeds.
THEOREM ReadyListIsExact == Spec => []ReadyListAgrees
<1>1. ASSUME Inv PROVE ReadyListAgrees
  <2> SUFFICES ASSUME phase # "destroyed"
               PROVE  /\ \A j, k \in DOMAIN Listed :
                           Listed[j] = Listed[k] => j = k
                      /\ Range(Listed) = {fd \in FDs : node[fd].listed}
                      /\ ready_list_size_ = Len(Listed)
                      /\ phase # "calling" => tmp_list_ = <<>>
                      /\ \A k \in DOMAIN Listed : Registered(Listed[k])
    BY DEF ReadyListAgrees
  <2>1. Core
    BY <1>1 DEF Inv
  <2>2. /\ ready_list_ \in Seq(FDs) /\ tmp_list_ \in Seq(FDs)
        /\ Distinct(ready_list_) /\ Distinct(tmp_list_)
        /\ Range(ready_list_) \cap Range(tmp_list_) = {}
        /\ Range(ready_list_) \cup Range(tmp_list_) = ListedFDs
        /\ ready_list_size_ = Len(ready_list_) + Len(tmp_list_)
    BY <2>1 DEF Core, ListsHold
  <2>3. /\ Distinct(Listed) /\ Range(Listed) = ListedFDs
        /\ Len(Listed) = Len(ready_list_) + Len(tmp_list_)
    <3> DEFINE c == ready_list_ \o tmp_list_
    <3>1. /\ Distinct(c) /\ Len(c) = Len(ready_list_) + Len(tmp_list_)
          /\ Range(c) = Range(ready_list_) \cup Range(tmp_list_)
      BY <2>2, ConcatDistinct
    <3> HIDE DEF c
    <3>2. Listed = c
      BY DEF Listed, c
    <3> QED
      BY <2>2, <3>1, <3>2, ZenonT(60)
  <2>4. \A k \in DOMAIN Listed : Listed[k] \in ListedFDs
    BY <2>3 DEF Range
  <2>5. \A k \in DOMAIN Listed : Registered(Listed[k])
    BY <2>1, <2>4 DEF Core, ListedFDs
  <2> QED
    BY <2>1, <2>2, <2>3, <2>5 DEF Core, ListedFDs, Distinct
<1> QED
  BY <1>1, Invariance, PTL

=============================================================================
