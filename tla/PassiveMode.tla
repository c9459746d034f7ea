----------------------------- MODULE PassiveMode -----------------------------
(***************************************************************************)
(* How Client finds a way to open data connections, and a command to list  *)
(* directories, that the server understands: prepareTransfer begins as a   *)
(* search through the transfer strategies and becomes the first one that   *)
(* worked; availableListCommands is narrowed to the first command that     *)
(* worked (src/Client.ts, src/transfer.ts).                                *)
(*                                                                         *)
(* The context below is reduced to the remote address of its control       *)
(* connection, and to the outcome of each request: FtpContext says that    *)
(* there is one for each.  A host is the list of numbers of an IPv4        *)
(* address, possibly in the form mapped to IPv6; ::1 has no numbers.       *)
(***************************************************************************)
EXTENDS Integers, Sequences, SequencesExt

CONSTANTS
    None,               \* `undefined'
    Hosts,              \* the addresses that occur
    MaxListingBytes     \* maxListingBytes

Addresses == [mapped : BOOLEAN, octets : Seq(Int)]

ASSUME HostsAssumption == Hosts \subseteq Addresses /\ None \notin Addresses
ASSUME MaxListingBytesAssumption == MaxListingBytes \in Nat

Strategies == <<"EPSV", "PASV">>

\* "LIST-a" is the command `LIST -a'.
LIST_COMMANDS_DEFAULT == <<"LIST-a", "LIST">>
LIST_COMMANDS_MLSD == <<"MLSD", "LIST-a", "LIST">>

VARIABLES
    separateHost,           \* allowSeparateTransferHost
    control,                \* the address connected to, None when closed
    prepareTransfer,        \* "search", or the strategy that worked
    availableListCommands,
    phase,                  \* what the running operation waits for
    rest,                   \* the strategies it can still try, the tried one first
    candidates,             \* the list commands likewise; <<>> for other transfers
    target,                 \* the address it dials
    listing,                \* the bytes of the listing received
    result,                 \* how the last operation ended
    failed,                 \* the strategies and commands that failed in it
    worked                  \* all that ever worked

client == <<separateHost, prepareTransfer, availableListCommands, worked>>
operation == <<rest, candidates, failed>>
vars == <<client, control, operation, phase, target, listing, result>>

CommandLists ==
    {<<>>, LIST_COMMANDS_DEFAULT, LIST_COMMANDS_MLSD, <<"MLSD">>, <<"LIST-a">>, <<"LIST">>}

PassiveTypeOK ==
    /\ separateHost \in BOOLEAN
    /\ control \in Hosts \cup {None}
    /\ prepareTransfer \in {"search", "EPSV", "PASV"}
    /\ availableListCommands \in CommandLists \ {<<>>}
    /\ phase \in {"idle", "strategy", "dial", "command"}
    /\ rest \in {<<>>, <<"EPSV">>, <<"PASV">>, Strategies}
    /\ candidates \in CommandLists
    /\ phase = "dial" <=> target # None
    /\ listing \in 0 .. MaxListingBytes
    /\ result \in {"none", "ok", "refused", "noStrategy", "error"}

PassiveInit ==
    /\ separateHost \in BOOLEAN
    /\ control = None
    /\ prepareTransfer = "search"
    /\ availableListCommands = LIST_COMMANDS_DEFAULT
    /\ worked = {} /\ failed = {}
    /\ rest = <<>> /\ candidates = <<>>
    /\ phase = "idle"
    /\ target = None
    /\ listing = 0
    /\ result = "none"

-----------------------------------------------------------------------------
(* Addresses *)

Strip(host) == [mapped |-> FALSE, octets |-> host.octets]

isLoopback(host) == ~host.mapped /\ (host.octets = <<>> \/ host.octets[1] = 127)

\* Looks into the form mapped to IPv6 as well.
ipIsPrivateV4Address(host) ==
    LET o == host.octets
    IN  o # <<>> /\
        \/ o[1] = 10
        \/ o[1] = 172 /\ o[2] \in 16 .. 31
        \/ o[1] = 192 /\ o[2] = 168
        \/ o = <<127, 0, 0, 1>>

\* Variant: the host is never compared.
PasvTargetUnchecked(host) ==
    IF ipIsPrivateV4Address(host) /\ ~ipIsPrivateV4Address(control) THEN control ELSE host

\* The host to dial for a PASV answer, None when the answer is refused.
PasvTarget(host) ==
    IF separateHost
    THEN IF ipIsPrivateV4Address(host) /\ ~ipIsPrivateV4Address(control)
         THEN control ELSE host
    ELSE IF Strip(control) = host \/ (isLoopback(Strip(control)) /\ isLoopback(host))
         THEN Strip(control) ELSE None

-----------------------------------------------------------------------------
(* The running operation *)

Closed == control = None

End(how) == phase' = "idle" /\ result' = how /\ target' = None

\* prepareTransfer is called.
Prepare ==
    /\ phase' = "strategy"
    /\ rest' = IF prepareTransfer = "search" THEN Strategies ELSE <<prepareTransfer>>
    /\ target' = None

\* Variant: a failed dial ends the search.
SearchStopsAtDial == Len(rest) > 1 /\ phase # "dial"

SearchGoesOn == Len(rest) > 1

\* Variant: the strategy that failed is tried again.
RetriesStrategy == rest

Untried == Tail(rest)

\* The strategy tried threw an error: the search goes on no matter which.
StrategyThrows ==
    /\ failed' = failed \cup {Head(rest)}
    /\ IF SearchGoesOn
       THEN phase' = "strategy" /\ rest' = Untried /\ target' = None /\ UNCHANGED result
       ELSE End(IF prepareTransfer = "search" THEN "noStrategy" ELSE "error") /\ UNCHANGED rest
    /\ UNCHANGED <<client, control, candidates, listing>>

\* list(), or another transfer, which has no candidates.
Begin ==
    /\ phase = "idle"
    /\ candidates' \in {<<>>, availableListCommands}
    /\ failed' = {}
    /\ result' = "none"
    /\ Prepare
    /\ UNCHANGED <<client, control, listing>>

\* access(): a new connection, whose features choose the list commands; the
\* strategy is kept.
Access(host) ==
    /\ phase = "idle"
    /\ control' = host
    /\ availableListCommands' \in {LIST_COMMANDS_DEFAULT, LIST_COMMANDS_MLSD}
    /\ candidates' = <<>>
    /\ UNCHANGED <<separateHost, prepareTransfer, worked, rest, failed, phase,
                   target, listing, result>>

-----------------------------------------------------------------------------
(* Strategies *)

\* Variant: the strategy is kept as soon as it is answered.
KeptBeforeDial(host) ==
    /\ phase' = "dial"
    /\ target' = host
    /\ prepareTransfer' = Head(rest)
    /\ UNCHANGED <<separateHost, availableListCommands, worked, control, operation,
                   listing, result>>

Dial(host) ==
    /\ phase' = "dial"
    /\ target' = host
    /\ UNCHANGED <<client, control, operation, listing, result>>

\* EPSV names a port of the host connected to.
EpsvAnswered ==
    /\ phase = "strategy" /\ Head(rest) = "EPSV" /\ ~Closed
    /\ Dial(control)

PasvAnswered(host) ==
    /\ phase = "strategy" /\ Head(rest) = "PASV" /\ ~Closed
    /\ ~host.mapped /\ host.octets # <<>>
    /\ IF PasvTarget(host) # None THEN Dial(PasvTarget(host)) ELSE StrategyThrows

\* The request is refused, its answer cannot be parsed, or the client is
\* closed; the dial is refused, its port out of range, or it times out.
StrategyFails == phase \in {"strategy", "dial"} /\ StrategyThrows

\* The strategy is kept, also when the client was closed during the dial; the
\* command that follows is then refused by the closed client.
DialOpens ==
    /\ phase = "dial"
    /\ prepareTransfer' = Head(rest)
    /\ worked' = worked \cup {Head(rest)}
    /\ phase' = "command"
    /\ listing' = 0
    /\ target' = None
    /\ UNCHANGED <<separateHost, availableListCommands, control, operation, result>>

-----------------------------------------------------------------------------
(* The command of the transfer *)

Commands == phase = "command" /\ ~Closed

\* Variant: no limit.
WriteUnlimited(bytes) ==
    /\ Commands /\ candidates # <<>>
    /\ listing' = listing + bytes
    /\ UNCHANGED <<client, control, operation, phase, target, result>>

\* StringWriter accepts a chunk ...
_write(bytes) ==
    /\ Commands /\ candidates # <<>>
    /\ listing + bytes <= MaxListingBytes
    /\ listing' = listing + bytes
    /\ UNCHANGED <<client, control, operation, phase, target, result>>

\* ... or refuses it, which ends the transfer and possibly the connection.
ListingTooLong(bytes) ==
    /\ Commands /\ candidates # <<>>
    /\ listing + bytes > MaxListingBytes
    /\ control' \in {control, None}
    /\ End("error")
    /\ UNCHANGED <<client, operation, listing>>

\* A candidate that worked is used for all lists to come.
Narrow ==
    /\ availableListCommands' = <<Head(candidates)>>
    /\ worked' = worked \cup {Head(candidates)}

CommandSucceeds ==
    /\ Commands
    /\ End("ok")
    /\ IF candidates = <<>> THEN UNCHANGED <<availableListCommands, worked>> ELSE Narrow
    /\ UNCHANGED <<separateHost, prepareTransfer, control, operation, listing>>

\* Variant: any error leads to the next list command.
AnyError == phase = "command"

\* The error is an FTPError: the server's, not one of a closed client.
shouldTryNext == Commands

\* Variant: the last candidate is not tried.
StopsBeforeLast == Len(candidates) > 2

HasNext == Len(candidates) > 1

CommandRefused ==
    /\ shouldTryNext
    /\ failed' = IF candidates = <<>> THEN failed ELSE failed \cup {Head(candidates)}
    /\ IF HasNext
       THEN candidates' = Tail(candidates) /\ Prepare /\ UNCHANGED result
       ELSE End("refused") /\ UNCHANGED <<candidates, rest>>
    /\ UNCHANGED <<client, control, listing>>

\* Any other error: a listing that cannot be parsed, a closed client, a
\* timeout.
CommandFails ==
    /\ phase = "command"
    /\ End("error")
    /\ UNCHANGED <<client, control, operation, listing>>

\* The client closes: lost, timed out, or by its user.
Closes ==
    /\ ~Closed
    /\ control' = None
    /\ UNCHANGED <<client, operation, phase, target, listing, result>>

-----------------------------------------------------------------------------
(* The specification *)

PassiveNext ==
    \/ Begin
    \/ \E host \in Hosts : Access(host) \/ PasvAnswered(host)
    \/ EpsvAnswered \/ StrategyFails \/ DialOpens
    \/ \E bytes \in 1 .. 2 : _write(bytes) \/ ListingTooLong(bytes)
    \/ CommandSucceeds \/ CommandRefused \/ CommandFails \/ Closes

\* A wait for the server ends at the latest with the timeout that is set
\* during a task, and one for the data connection with that of its dial.
PassiveFairness == WF_vars(StrategyFails) /\ WF_vars(CommandFails)

PassiveSpec == PassiveInit /\ [][PassiveNext]_vars /\ PassiveFairness

-----------------------------------------------------------------------------
(* Properties *)

\* The client only settles on what has worked: a strategy that opened a data
\* connection, a list command that listed a directory; a failing operation
\* takes no choice away (_enterFirstCompatibleMode, list).
SettlesOnWhatWorked ==
    /\ prepareTransfer # "search" => prepareTransfer \in worked
    /\ Len(availableListCommands) = 1 => availableListCommands[1] \in worked

\* "None of the available transfer strategies work" is said only when every
\* strategy has failed in this very operation, whatever the errors were, and
\* a list is refused only when every command it could have used was.
GivesUpWhenAllFailed ==
    /\ result = "noStrategy" => ToSet(Strategies) \subseteq failed
    /\ result = "refused" /\ candidates # <<>> => ToSet(availableListCommands) \subseteq failed

\* Without allowSeparateTransferHost, data connections are opened to the host
\* of the control connection; with it, a client of a public host is not sent
\* to a private address, which it could not reach (enterPassiveModeIPv4 and
\* its variant that forces the control host).
DialsReachableHost ==
    phase = "dial" /\ ~Closed =>
        /\ ~separateHost => Strip(target) = Strip(control)
        /\ ipIsPrivateV4Address(target) => ipIsPrivateV4Address(control)

\* A list() that loses its connection ends with it: no other command is tried
\* on a closed client (shouldTryNext).
ListEndsWithConnection ==
    [][phase = "command" /\ Closed /\ phase' # phase => phase' = "idle"]_vars

\* Every transfer comes to an end, whatever the server answers or fails to.
OperationsEnd == phase # "idle" ~> phase = "idle"
=============================================================================
