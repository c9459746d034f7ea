--------------------------- MODULE PassiveModeProofs ---------------------------
(***************************************************************************)
(* Theorems about the search for a transfer strategy and for a list        *)
(* command (module PassiveMode), for every set of hosts and every limit.   *)
(***************************************************************************)
EXTENDS PassiveMode, TLAPS

-----------------------------------------------------------------------------
(* The lists of strategies and of commands there can be *)

RestLists == {<<>>, <<"EPSV">>, <<"PASV">>, Strategies}

\* Only the list of both strategies leaves another one to try.
LEMMA RestFacts ==
    ASSUME NEW s \in RestLists \ {<<>>}
    PROVE  /\ Head(s) \in {"EPSV", "PASV"}
           /\ \/ s = Strategies /\ Len(s) > 1 /\ Head(s) = "EPSV" /\ Tail(s) = <<"PASV">>
              \/ s = <<Head(s)>> /\ ~(Len(s) > 1)
  <1>1. CASE s = Strategies
    BY <1>1 DEF Strategies
  <1>2. CASE s = <<"EPSV">>
    BY <1>2
  <1>3. CASE s = <<"PASV">>
    BY <1>3
  <1> QED
    BY <1>1, <1>2, <1>3 DEF RestLists

LEMMA BothStrategies ==
    /\ ToSet(Strategies) = {"EPSV", "PASV"}
    /\ \A s \in {"EPSV", "PASV"} : <<s>> \in RestLists \ {<<>>, Strategies} /\ Head(<<s>>) = s
    /\ Strategies \in RestLists \ {<<>>}
    /\ Head(Strategies) = "EPSV"
  BY DEF Strategies, RestLists, ToSet

ListCommands == {"MLSD", "LIST-a", "LIST"}

\* The tail of a list has the same commands without its head.
LEMMA ListFacts ==
    ASSUME NEW s \in CommandLists \ {<<>>}
    PROVE  /\ Head(s) \in ListCommands
           /\ Tail(s) \in CommandLists
           /\ ToSet(s) = {Head(s)} \cup ToSet(Tail(s))
           /\ Len(s) > 1 <=> Tail(s) # <<>>
  <1> USE DEF CommandLists, LIST_COMMANDS_DEFAULT, LIST_COMMANDS_MLSD, ListCommands, ToSet
  <1>1. CASE s = LIST_COMMANDS_DEFAULT
    BY <1>1
  <1>2. CASE s = LIST_COMMANDS_MLSD
    BY <1>2
  <1>3. CASE s \in {<<"MLSD">>, <<"LIST-a">>, <<"LIST">>}
    BY <1>3
  <1> QED
    BY <1>1, <1>2, <1>3

LEMMA NoElements == ToSet(<<>>) = {}
  BY DEF ToSet

LEMMA SingleList ==
    ASSUME NEW c \in ListCommands
    PROVE  <<c>> \in CommandLists \ {<<>>} /\ <<c>>[1] = c /\ ToSet(<<c>>) = {c}
  BY DEF CommandLists, ListCommands, ToSet

LEMMA DefaultLists ==
    ASSUME NEW s \in {LIST_COMMANDS_DEFAULT, LIST_COMMANDS_MLSD}
    PROVE  s \in CommandLists \ {<<>>} /\ Len(s) # 1
  BY DEF CommandLists, LIST_COMMANDS_DEFAULT, LIST_COMMANDS_MLSD

-----------------------------------------------------------------------------
(* Addresses *)

LEMMA StripFacts ==
    ASSUME NEW h \in Addresses
    PROVE  /\ Strip(h) \in Addresses /\ Strip(Strip(h)) = Strip(h)
           /\ ipIsPrivateV4Address(Strip(h)) = ipIsPrivateV4Address(h)
  BY DEF Strip, Addresses, ipIsPrivateV4Address

\* What a PASV answer makes the client dial, if anything.
LEMMA PasvTargetFacts ==
    ASSUME NEW host \in Hosts, ~host.mapped, control \in Hosts, PasvTarget(host) # None
    PROVE  /\ PasvTarget(host) \in Addresses
           /\ ~separateHost => Strip(PasvTarget(host)) = Strip(control)
           /\ ipIsPrivateV4Address(PasvTarget(host)) => ipIsPrivateV4Address(control)
  <1>1. host \in Addresses /\ control \in Addresses
    BY HostsAssumption
  <1>2. CASE separateHost
    BY <1>1, <1>2 DEF PasvTarget
  <1>3. CASE ~separateHost
    <2>1. PasvTarget(host) = Strip(control)
      BY <1>3 DEF PasvTarget
    <2> QED
      BY <1>1, <1>3, <2>1, StripFacts
  <1> QED
    BY <1>2, <1>3

-----------------------------------------------------------------------------
(* The inductive invariant.  The strategies still to be tried are those of *)
(* a search that has not failed yet, the list commands still to be tried   *)
(* are those that have not failed, and no operation has an outcome while   *)
(* it runs.                                                                *)

SearchIsDue ==
    phase \in {"strategy", "dial"} =>
        IF prepareTransfer = "search"
        THEN rest = Strategies \/ (rest = <<"PASV">> /\ "EPSV" \in failed)
        ELSE rest = <<prepareTransfer>>

UntriedAreCandidates ==
    phase # "idle" /\ candidates # <<>> =>
        ToSet(availableListCommands) \subseteq ToSet(candidates) \cup failed

UndecidedWhileRunning == phase # "idle" => result = "none"

Searching ==
    /\ PassiveTypeOK
    /\ target \in Addresses \cup {None}
    /\ SearchIsDue
    /\ UntriedAreCandidates
    /\ UndecidedWhileRunning
    /\ SettlesOnWhatWorked
    /\ GivesUpWhenAllFailed
    /\ DialsReachableHost

LEMMA InitSearching == PassiveInit => Searching
  <1> SUFFICES ASSUME PassiveInit PROVE Searching
    OBVIOUS
  <1>1. LIST_COMMANDS_DEFAULT \in CommandLists \ {<<>>} /\ Len(LIST_COMMANDS_DEFAULT) # 1
    BY DefaultLists
  <1>2. <<>> \in CommandLists
    BY DEF CommandLists
  <1> QED
    BY <1>1, <1>2, MaxListingBytesAssumption
       DEF PassiveInit, Searching, PassiveTypeOK, SearchIsDue, UntriedAreCandidates,
           UndecidedWhileRunning, SettlesOnWhatWorked, GivesUpWhenAllFailed,
           DialsReachableHost

\* The search of an operation that is begun, or that tries its next command.
LEMMA PrepareSearches ==
    ASSUME Searching, Prepare, UNCHANGED prepareTransfer
    PROVE  /\ rest' \in RestLists \ {<<>>} /\ SearchIsDue' /\ phase' = "strategy"
           /\ target' = None
  BY BothStrategies DEF Prepare, SearchIsDue, Searching, PassiveTypeOK

LEMMA ThrowSearches ==
    ASSUME Searching, phase \in {"strategy", "dial"}, StrategyThrows
    PROVE  Searching'
  <1>1. /\ UNCHANGED <<separateHost, prepareTransfer, availableListCommands, worked, control,
                       candidates, listing>>
        /\ failed' = failed \cup {Head(rest)}
    BY DEF StrategyThrows, client
  <1>2. rest \in RestLists \ {<<>>}
    BY BothStrategies DEF Searching, SearchIsDue, PassiveTypeOK, RestLists
  <1>3. CASE SearchGoesOn
    <2>1. /\ phase' = "strategy" /\ rest' = <<"PASV">> /\ target' = None /\ UNCHANGED result
          /\ rest = Strategies /\ "EPSV" \in failed'
      BY <1>1, <1>2, <1>3, RestFacts DEF StrategyThrows, SearchGoesOn, Untried
    <2>2. prepareTransfer = "search"
      BY <2>1, BothStrategies DEF Searching, SearchIsDue, PassiveTypeOK
    <2> QED
      BY <1>1, <2>1, <2>2
         DEF Searching, PassiveTypeOK, SearchIsDue, UntriedAreCandidates,
             UndecidedWhileRunning, SettlesOnWhatWorked, GivesUpWhenAllFailed,
             DialsReachableHost
  <1>4. CASE ~SearchGoesOn
    <2>1. /\ phase' = "idle" /\ target' = None /\ UNCHANGED rest
          /\ result' = IF prepareTransfer = "search" THEN "noStrategy" ELSE "error"
      BY <1>4 DEF StrategyThrows, End
    <2>2. prepareTransfer = "search" => {"EPSV", "PASV"} \subseteq failed'
      BY <1>1, <1>2, <1>4, RestFacts, BothStrategies
         DEF SearchGoesOn, Searching, SearchIsDue
    <2> QED
      BY <1>1, <2>1, <2>2, BothStrategies
         DEF Searching, PassiveTypeOK, SearchIsDue, UntriedAreCandidates,
             UndecidedWhileRunning, SettlesOnWhatWorked, GivesUpWhenAllFailed,
             DialsReachableHost
  <1> QED
    BY <1>3, <1>4

LEMMA NextSearching == Searching /\ [PassiveNext]_vars => Searching'
  <1> SUFFICES ASSUME Searching, [PassiveNext]_vars PROVE Searching'
    OBVIOUS
  <1> USE HostsAssumption
          DEF Searching, PassiveTypeOK, SearchIsDue, UntriedAreCandidates,
              UndecidedWhileRunning, SettlesOnWhatWorked, GivesUpWhenAllFailed,
              DialsReachableHost
  <1>1. CASE Begin
    <2>1. /\ SearchIsDue' /\ phase' = "strategy" /\ target' = None
          /\ rest' \in {<<>>, <<"EPSV">>, <<"PASV">>, Strategies}
      BY <1>1, PrepareSearches DEF Begin, client, RestLists
    <2>2. <<>> \in CommandLists
      BY DEF CommandLists
    <2> QED
      BY <1>1, <2>1, <2>2 DEF Begin, client
  <1>2. ASSUME NEW host \in Hosts, Access(host)
        PROVE  Searching'
    <2>1. availableListCommands' \in CommandLists \ {<<>>} /\ Len(availableListCommands') # 1
      BY <1>2, DefaultLists DEF Access
    <2>2. <<>> \in CommandLists
      BY DEF CommandLists
    <2> QED
      BY <1>2, <2>1, <2>2 DEF Access
  <1>3. ASSUME NEW host \in Addresses, ~Closed, phase = "strategy", Dial(host),
               ~separateHost => Strip(host) = Strip(control),
               ipIsPrivateV4Address(host) => ipIsPrivateV4Address(control)
        PROVE  Searching'
    BY <1>3 DEF Dial, client, operation
  <1>4. CASE EpsvAnswered
    BY <1>3, <1>4 DEF EpsvAnswered, Closed
  <1>5. ASSUME NEW host \in Hosts, PasvAnswered(host)
        PROVE  Searching'
    <2>1. ~Closed /\ phase = "strategy" /\ ~host.mapped /\ control \in Hosts
      BY <1>5 DEF PasvAnswered, Closed
    <2>2. CASE PasvTarget(host) # None
      BY <1>3, <1>5, <2>1, <2>2, PasvTargetFacts DEF PasvAnswered
    <2>3. CASE PasvTarget(host) = None
      BY <1>5, <2>1, <2>3, ThrowSearches DEF PasvAnswered
    <2> QED
      BY <2>2, <2>3
  <1>6. CASE StrategyFails
    BY <1>6, ThrowSearches DEF StrategyFails
  <1>7. CASE DialOpens
    BY <1>7, BothStrategies, RestFacts, MaxListingBytesAssumption
       DEF DialOpens, operation, RestLists
  <1>8. ASSUME NEW bytes \in 1 .. 2, _write(bytes)
        PROVE  Searching'
    BY <1>8, MaxListingBytesAssumption DEF _write, Commands, client, operation
  <1>9. ASSUME NEW bytes \in 1 .. 2, ListingTooLong(bytes)
        PROVE  Searching'
    BY <1>9 DEF ListingTooLong, Commands, End, client, operation
  <1>10. CASE CommandSucceeds
    <2>1. candidates # <<>> => /\ <<Head(candidates)>> \in CommandLists \ {<<>>}
                               /\ <<Head(candidates)>>[1] = Head(candidates)
      BY ListFacts, SingleList
    <2> QED
      BY <1>10, <2>1 DEF CommandSucceeds, Narrow, End, operation
  <1>11. CASE CommandRefused
    <2>1. UNCHANGED <<separateHost, prepareTransfer, availableListCommands, worked, control, listing>>
      BY <1>11 DEF CommandRefused, client
    <2>2. phase = "command"
      BY <1>11 DEF CommandRefused, shouldTryNext, Commands
    <2>3. candidates = <<>> => ~HasNext
      BY DEF HasNext
    <2>4. candidates # <<>> =>
             /\ Tail(candidates) \in CommandLists
             /\ HasNext <=> Tail(candidates) # <<>>
             /\ failed' = failed \cup {Head(candidates)}
             /\ ToSet(availableListCommands) \subseteq ToSet(Tail(candidates)) \cup failed'
      BY <1>11, <2>2, ListFacts DEF CommandRefused, HasNext
    <2>5. CASE HasNext
      <3>1. candidates' = Tail(candidates) /\ UNCHANGED result /\ Prepare
        BY <1>11, <2>5 DEF CommandRefused
      <3>2. /\ SearchIsDue' /\ phase' = "strategy" /\ target' = None
            /\ rest' \in {<<>>, <<"EPSV">>, <<"PASV">>, Strategies}
        BY <2>1, <3>1, PrepareSearches DEF RestLists
      <3> QED
        BY <2>1, <2>2, <2>3, <2>4, <2>5, <3>1, <3>2
    <2>6. CASE ~HasNext
      <3>1. phase' = "idle" /\ target' = None /\ result' = "refused" /\ UNCHANGED <<candidates, rest>>
        BY <1>11, <2>6 DEF CommandRefused, End
      <3>2. candidates # <<>> => ToSet(availableListCommands) \subseteq failed'
        BY <2>4, <2>6, NoElements
      <3> QED
        BY <2>1, <3>1, <3>2
    <2> QED
      BY <2>5, <2>6
  <1>12. CASE CommandFails
    BY <1>12 DEF CommandFails, End, client, operation
  <1>13. CASE Closes
    BY <1>13 DEF Closes, Closed, client, operation
  <1>14. CASE UNCHANGED vars
    <2>1. UNCHANGED <<separateHost, control, prepareTransfer, availableListCommands, phase,
                      rest, candidates, target, listing, result, failed, worked>>
      BY <1>14 DEF vars, client, operation
    <2> QED
      BY <2>1 DEF Closed
  <1> QED
    BY <1>1, <1>2, <1>4, <1>5, <1>6, <1>7, <1>8, <1>9, <1>10, <1>11, <1>12, <1>13, <1>14
       DEF PassiveNext

LEMMA SearchingAlways == PassiveSpec => []Searching
  BY InitSearching, NextSearching, PTL DEF PassiveSpec

-----------------------------------------------------------------------------
(* The theorems *)

\* Every variable keeps its type, for every set of hosts.
THEOREM PassiveTypeCorrect == PassiveSpec => []PassiveTypeOK
  BY SearchingAlways, PTL DEF Searching

\* The client only settles on strategies and list commands that have worked
\* (_enterFirstCompatibleMode, list).
THEOREM SettledOnWhatWorked == PassiveSpec => []SettlesOnWhatWorked
  BY SearchingAlways, PTL DEF Searching

\* An operation gives up only when all it could have tried has failed in it
\* (the loops of enterFirstCompatibleMode and list).
THEOREM GivesUpAfterAll == PassiveSpec => []GivesUpWhenAllFailed
  BY SearchingAlways, PTL DEF Searching

\* Whatever address a server names, the client dials the host it is connected
\* to, or with allowSeparateTransferHost at least one it can reach
\* (enterPassiveModeIPv4 and its variant).
THEOREM DialedIsReachable == PassiveSpec => []DialsReachableHost
  BY SearchingAlways, PTL DEF Searching

\* A list() that loses its connection ends with it (shouldTryNext).
THEOREM ListEndsOnClosedClient == PassiveSpec => ListEndsWithConnection
  <1>1. [PassiveNext]_vars =>
            [phase = "command" /\ Closed /\ phase' # phase => phase' = "idle"]_vars
    BY DEF PassiveNext, Begin, Access, PasvAnswered, EpsvAnswered, StrategyFails, DialOpens,
           _write, ListingTooLong, CommandSucceeds, CommandRefused, shouldTryNext, Commands,
           CommandFails, Closes, End, client, operation
  <1> QED
    BY <1>1, PTL DEF PassiveSpec, ListEndsWithConnection
=============================================================================
