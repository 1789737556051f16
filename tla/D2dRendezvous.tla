---------------------------- MODULE D2dRendezvous ----------------------------
(***************************************************************************)
(* The connection rendezvous protocol of libthreema (lib/src/              *)
(* d2d_rendezvous): the initiator (RID) and the responder device (RRD) run *)
(* the handshake on all paths at once, until the one that is the nominator *)
(* picks a path, on which the two exchange the frames of the upper layer   *)
(* protocol (ULP).                                                         *)
(*                                                                         *)
(* A path carries bytes in order.  It may also deliver a frame that does   *)
(* not belong there: one of those the other end has sent, again or on      *)
(* another path.  The callers follow the documentation of the library:     *)
(* they process all complete frames before they add more, and abort with   *)
(* the first error.  Only the nominator may be hasty and nominate a path   *)
(* that is not ready.                                                      *)
(*                                                                         *)
(* A frame is a record of the key and the nonce it is sealed with and its  *)
(* content.  A challenge and an ephemeral key are named by who drew them.  *)
(***************************************************************************)
EXTENDS Naturals, Sequences, FiniteSets

CONSTANTS
    Pids, NoPid,        \* path IDs
    MaxSn,              \* the largest value of a sequence number (2^32 - 1)
    UlpLength,          \* units of a ULP frame; the other frames have one unit
    MaxBefore, MaxAfter,\* units that may be buffered before and after nomination
    MaxUlp,             \* bound: ULP frames an end sends
    MaxStray, StrayPids \* bounds: frames delivered where they do not belong, on these paths

ASSUME RendezvousAssumption ==
    /\ NoPid \notin Pids
    /\ StrayPids \subseteq Pids
    /\ MaxSn \in Nat \ {0, 1}
    /\ UlpLength \in Nat \ {0}  \* a frame has the tag it is sealed with
    /\ MaxBefore \in Nat /\ MaxAfter \in Nat
    /\ MaxUlp \in Nat /\ MaxStray \in Nat

VARIABLES
    nominator,  \* the role that nominates, agreed on beforehand
    path,       \* the paths of each role's protocol
    nominated,  \* the path its state names, or NoPid while the paths are racing
    cause,      \* the error a role aborted with, or "none"
    wire,       \* units on their way to a role on a path
    sent,       \* frames a role has sent on a path, in order
    created,    \* number of ULP frames a role has sent
    delivered,  \* ULP data handed to the upper layer of a role, in order
    stray       \* number of frames delivered where they do not belong

vars == <<nominator, path, nominated, cause, wire, sent, created, delivered, stray>>

Roles == {"RID", "RRD"}
Peer(r) == IF r = "RID" THEN "RRD" ELSE "RID"

-----------------------------------------------------------------------------
(* Frames                                                                  *)

\* RIDAK and RRDAK, or, derived from the shared ephemeral key, RIDTK and RRDTK
Key(of, etk) == [of |-> of, etk |-> etk]
NoEtk == {}
Nonce(pid, sn) == [pid |-> pid, sn |-> sn]

Random(r, pid) == [by |-> r, pid |-> pid]
Hello(pid) == [type |-> "Hello", challenge |-> Random("RRD", pid), etk |-> Random("RRD", pid)]
AuthHello(pid, response) ==
    [type |-> "AuthHello", response |-> response,
     challenge |-> Random("RID", pid), etk |-> Random("RID", pid)]
Auth(response) == [type |-> "Auth", response |-> response]
NominateMessage == [type |-> "Nominate"]
Ulp(n) == [type |-> "Ulp", data |-> n]

FrameLength(frame) == IF frame.content.type = "Ulp" THEN UlpLength ELSE 1

Body(frame) == [i \in 1 .. FrameLength(frame) |-> [frame |-> frame, part |-> i]]
EncodeFrame(frame) == <<[frame |-> frame, part |-> 0]>> \o Body(frame)

DecodeDelimiter(units) == FrameLength(units[1].frame)

INSTANCE FrameDecoder WITH DelimiterLength <- 1, Decode <- DecodeDelimiter

-----------------------------------------------------------------------------
(* The paths of either role                                                *)

Racing == {"AwaitingHello", "AwaitingAuth", "AwaitingAuthHello"}
PathStates == Racing \cup {"AwaitingNominate", "Nominated", "Closed", "Invalid", "Dropped"}

\* The transport keys take the place of the authentication keys with the last
\* message of the handshake; the sequence numbers go on.
KeyOf(p, of) == Key(of, IF p.state \in Racing THEN NoEtk ELSE p.etk)

\* decrypt: the frame must be sealed by the peer with the nonce that is next.
\* The sequence number must not overflow, even if it is never used.
OpenError(r, pid, p, frame) ==
    IF frame.key # KeyOf(p, Peer(r)) \/ frame.nonce # Nonce(pid, p.received + 1)
    THEN "DecryptionFailed"
    ELSE IF p.received + 1 = MaxSn THEN "SequenceNumberOverflow" ELSE "none"

\* encrypt, with the same check
CanSeal(p) == p.sealed + 1 < MaxSn
Seal(r, pid, p, content) ==
    [key |-> KeyOf(p, r), nonce |-> Nonce(pid, p.sealed + 1), content |-> content]

\* (Mutant: the sequence number stays.)
AfterSealKept(p) == p
AfterSeal(p) == [p EXCEPT !.sealed = @ + 1]
AfterOpen(p) == [p EXCEPT !.received = @ + 1]

NewPath(state, sealed) ==
    [state |-> state, decoder |-> NewDecoder(<<>>), sealed |-> sealed, received |-> 0,
     etk |-> NoEtk]

\* The result of a call on a path: the path it leaves, what it sends and hands out
Ok(p, frames, data) == [path |-> p, frames |-> frames, data |-> data, error |-> "none"]
Failed(p, state, error) ==
    [path |-> [p EXCEPT !.state = state], frames |-> <<>>, data |-> <<>>, error |-> error]

-----------------------------------------------------------------------------
(* RidPath                                                                 *)

RidNew == NewPath("AwaitingHello", 0)

\* Hello is answered by AuthHello, which repeats its challenge.
RidHandleHello(pid, p, frame) ==
    IF ~CanSeal(p) THEN Failed(p, "Closed", "SequenceNumberOverflow")
    ELSE Ok([AfterOpen(AfterSeal(p)) EXCEPT
                 !.state = "AwaitingAuth", !.etk = {Random("RID", pid), frame.content.etk}],
            <<Seal("RID", pid, p, AuthHello(pid, frame.content.challenge))>>, <<>>)

RidHandleAuth(pid, p, frame) ==
    IF frame.content.response # Random("RID", pid)
    THEN Failed(p, "Closed", "InvalidRrdAuthMessage")
    ELSE Ok([AfterOpen(p) EXCEPT !.state = "AwaitingNominate"], <<>>, <<>>)

RidHandleNominate(pid, p, frame) == Ok([AfterOpen(p) EXCEPT !.state = "Nominated"], <<>>, <<>>)

RidHandleUlpData(pid, p, frame) == Ok(AfterOpen(p), <<>>, <<frame.content.data>>)

\* The nominator returns early, with the state already taken out of the path.
RidProcessFrame(pid, p, frame) ==
    LET error == OpenError("RID", pid, p, frame)
    IN  IF p.state = "AwaitingNominate" /\ nominator = "RID"
        THEN Failed(p, "Invalid", "UnexpectedFrame")
        ELSE IF error # "none" THEN Failed(p, "Closed", error)
        ELSE CASE p.state = "Nominated"     -> RidHandleUlpData(pid, p, frame)
               [] p.state = "AwaitingHello" -> RidHandleHello(pid, p, frame)
               [] p.state = "AwaitingAuth"  -> RidHandleAuth(pid, p, frame)
               [] OTHER                     -> RidHandleNominate(pid, p, frame)

RidNominate(pid, p) ==
    IF p.state # "AwaitingNominate" THEN Failed(p, "Dropped", "InvalidStateForNomination")
    ELSE IF ~CanSeal(p) THEN Failed(p, "Dropped", "SequenceNumberOverflow")
    ELSE Ok([AfterSeal(p) EXCEPT !.state = "Nominated"],
            <<Seal("RID", pid, p, NominateMessage)>>, <<>>)

RidCreateUlpFrame(pid, p, n) ==
    IF CanSeal(p) THEN Ok(AfterSeal(p), <<Seal("RID", pid, p, Ulp(n))>>, <<>>)
                  ELSE Failed(p, p.state, "SequenceNumberOverflow")

-----------------------------------------------------------------------------
(* RrdPath                                                                 *)

\* Created with a Hello to be sent immediately
RrdNew == NewPath("AwaitingAuthHello", 1)
RrdCreateHello(pid) ==
    [key |-> Key("RRD", NoEtk), nonce |-> Nonce(pid, 1), content |-> Hello(pid)]

\* The answer is still sealed with the authentication key.
RrdHandleAuthHello(pid, p, frame) ==
    IF frame.content.response # Random("RRD", pid)
    THEN Failed(p, "Closed", "InvalidRidAuthHelloMessage")
    ELSE IF ~CanSeal(p) THEN Failed(p, "Closed", "SequenceNumberOverflow")
    ELSE Ok([AfterOpen(AfterSeal(p)) EXCEPT
                 !.state = "AwaitingNominate",
                 !.etk = {Random("RRD", pid), frame.content.etk}],
            <<Seal("RRD", pid, p, Auth(frame.content.challenge))>>, <<>>)

RrdHandleNominate(pid, p, frame) == Ok([AfterOpen(p) EXCEPT !.state = "Nominated"], <<>>, <<>>)

RrdHandleUlpData(pid, p, frame) == Ok(AfterOpen(p), <<>>, <<frame.content.data>>)

RrdProcessFrame(pid, p, frame) ==
    LET error == OpenError("RRD", pid, p, frame)
    IN  IF p.state = "AwaitingNominate" /\ nominator = "RRD"
        THEN Failed(p, "Invalid", "UnexpectedFrame")
        ELSE IF error # "none" THEN Failed(p, "Closed", error)
        ELSE CASE p.state = "Nominated"         -> RrdHandleUlpData(pid, p, frame)
               [] p.state = "AwaitingAuthHello" -> RrdHandleAuthHello(pid, p, frame)
               [] OTHER                         -> RrdHandleNominate(pid, p, frame)

RrdNominate(pid, p) ==
    IF p.state # "AwaitingNominate" THEN Failed(p, "Dropped", "InvalidStateForNomination")
    ELSE IF ~CanSeal(p) THEN Failed(p, "Dropped", "SequenceNumberOverflow")
    ELSE Ok([AfterSeal(p) EXCEPT !.state = "Nominated"],
            <<Seal("RRD", pid, p, NominateMessage)>>, <<>>)

RrdCreateUlpFrame(pid, p, n) ==
    IF CanSeal(p) THEN Ok(AfterSeal(p), <<Seal("RRD", pid, p, Ulp(n))>>, <<>>)
                  ELSE Failed(p, p.state, "SequenceNumberOverflow")

-----------------------------------------------------------------------------
(* RendezvousProtocol                                                      *)

\* new_as_rid and new_as_rrd
Init ==
    /\ nominator \in Roles
    /\ path = [r \in Roles |-> [pid \in Pids |-> IF r = "RID" THEN RidNew ELSE RrdNew]]
    /\ nominated = [r \in Roles |-> NoPid]
    /\ cause = [r \in Roles |-> "none"]
    /\ sent = [r \in Roles |-> [pid \in Pids |->
                  IF r = "RRD" THEN <<RrdCreateHello(pid)>> ELSE <<>>]]
    /\ wire = [r \in Roles |-> [pid \in Pids |->
                  IF r = "RID" THEN EncodeFrame(RrdCreateHello(pid)) ELSE <<>>]]
    /\ created = [r \in Roles |-> 0]
    /\ delivered = [r \in Roles |-> <<>>]
    /\ stray = 0

Running(r) == cause[r] = "none"

\* lookup_path: with a path nominated, all others have been dropped.
Known(r, pid) == path[r][pid].state # "Dropped"

\* Once its path is nominated, the protocol lets go of all others.
AfterNomination(r, pid, p) ==
    [path EXCEPT ![r] = [other \in Pids |->
        IF other = pid THEN p ELSE [path[r][other] EXCEPT !.state = "Dropped"]]]

Abort(r, error) ==
    /\ cause' = [cause EXCEPT ![r] = error]
    /\ UNCHANGED <<wire, sent, created, delivered>>

\* What the caller does with the result of a call: it sends the frame, hands
\* over the data, or aborts.
Handle(r, pid, result) ==
    IF result.error # "none" THEN Abort(r, result.error)
    ELSE /\ sent' = [sent EXCEPT ![r][pid] = @ \o result.frames]
         /\ wire' = IF result.frames = <<>> THEN wire
                    ELSE [wire EXCEPT ![Peer(r)][pid] = @ \o EncodeFrame(result.frames[1])]
         /\ delivered' = [delivered EXCEPT ![r] = @ \o result.data]
         /\ UNCHANGED <<cause, created>>

\* What is checked against the maximum is all that is buffered.
MaxLength(p) == IF p.state = "Nominated" THEN MaxAfter ELSE MaxBefore

\* The next n units of a path are received and added to its decoder.
AddChunks(r, pid, n) ==
    LET p       == path[r][pid]
        decoder == AddChunk(p.decoder, First(wire[r][pid], n))
    IN  /\ Running(r)
        /\ n \in 1 .. Len(wire[r][pid])
        /\ Known(r, pid) => ~HasFrame(p.decoder)
        /\ wire' = [wire EXCEPT ![r][pid] = Drain(@, n)]
        /\ IF Known(r, pid)
           THEN /\ path' = [path EXCEPT ![r][pid].decoder = decoder]
                /\ cause' = IF Len(decoder.data) > MaxLength(p)
                            THEN [cause EXCEPT ![r] = "OversizedFrame"] ELSE cause
           ELSE /\ cause' = [cause EXCEPT ![r] = "UnknownOrDroppedPath"]
                /\ UNCHANGED path
        /\ UNCHANGED <<nominator, nominated, sent, created, delivered, stray>>

\* process_frame, with a complete frame or without; a remote nomination ends the race.
\* (Mutant: it does not.)
ProcessFrameRacing(r, pid) ==
    LET p     == path[r][pid]
        taken == [p EXCEPT !.decoder = AfterNext(p.decoder)]
        frame == NextFrame(p.decoder)[1].frame
        result == IF r = "RID" THEN RidProcessFrame(pid, taken, frame)
                               ELSE RrdProcessFrame(pid, taken, frame)
    IN  /\ Running(r)
        /\ Known(r, pid)
        /\ HasFrame(p.decoder)
        /\ Handle(r, pid, result)
        /\ path' = [path EXCEPT ![r][pid] = result.path]
        /\ UNCHANGED <<nominator, nominated, stray>>
ProcessFrame(r, pid) ==
    LET p     == path[r][pid]
        taken == [p EXCEPT !.decoder = AfterNext(p.decoder)]
        frame == NextFrame(p.decoder)[1].frame
        result == IF r = "RID" THEN RidProcessFrame(pid, taken, frame)
                               ELSE RrdProcessFrame(pid, taken, frame)
        ends  == nominated[r] = NoPid /\ result.path.state = "Nominated"
    IN  /\ Running(r)
        /\ Known(r, pid)
        /\ IF HasFrame(p.decoder)
           THEN /\ Handle(r, pid, result)
                /\ path' = IF ends THEN AfterNomination(r, pid, result.path)
                           ELSE [path EXCEPT ![r][pid] = result.path]
                /\ nominated' = IF ends THEN [nominated EXCEPT ![r] = pid] ELSE nominated
           ELSE /\ path' = [path EXCEPT ![r][pid] = taken]
                /\ UNCHANGED <<nominated, cause, wire, sent, created, delivered>>
        /\ UNCHANGED <<nominator, stray>>

\* nominate_path takes the path out of the racing ones before it looks at its state.
\* (Mutant: a nominee may call it, too.)
NominatePathEither(r, pid) ==
    LET p      == path[r][pid]
        result == IF r = "RID" THEN RidNominate(pid, p) ELSE RrdNominate(pid, p)
    IN  /\ Running(r)
        /\ nominated[r] = NoPid
        /\ Known(r, pid)
        /\ Handle(r, pid, result)
        /\ IF result.error = "none"
           THEN /\ path' = AfterNomination(r, pid, result.path)
                /\ nominated' = [nominated EXCEPT ![r] = pid]
           ELSE /\ path' = [path EXCEPT ![r][pid] = result.path]
                /\ UNCHANGED nominated
        /\ UNCHANGED <<nominator, stray>>
NominatePath(r, pid) ==
    LET p      == path[r][pid]
        result == IF r = "RID" THEN RidNominate(pid, p) ELSE RrdNominate(pid, p)
    IN  /\ Running(r)
        /\ r = nominator
        /\ nominated[r] = NoPid
        /\ Known(r, pid)
        /\ Handle(r, pid, result)
        /\ IF result.error = "none"
           THEN /\ path' = AfterNomination(r, pid, result.path)
                /\ nominated' = [nominated EXCEPT ![r] = pid]
           ELSE /\ path' = [path EXCEPT ![r][pid] = result.path]
                /\ UNCHANGED nominated
        /\ UNCHANGED <<nominator, stray>>

CreateUlpFrame(r) ==
    LET pid    == nominated[r]
        n      == created[r] + 1
        result == IF r = "RID" THEN RidCreateUlpFrame(pid, path[r][pid], n)
                               ELSE RrdCreateUlpFrame(pid, path[r][pid], n)
    IN  /\ Running(r)
        /\ pid # NoPid
        /\ created[r] < MaxUlp
        /\ path' = [path EXCEPT ![r][pid] = result.path]
        /\ IF result.error = "none"
           THEN /\ created' = [created EXCEPT ![r] = n]
                /\ sent' = [sent EXCEPT ![r][pid] = @ \o result.frames]
                /\ wire' = [wire EXCEPT ![Peer(r)][pid] = @ \o EncodeFrame(result.frames[1])]
                /\ UNCHANGED <<cause, delivered>>
           ELSE Abort(r, result.error)
        /\ UNCHANGED <<nominator, nominated, stray>>

\* A path delivers a frame that the other end has sent, there before or elsewhere.
StrayFrame(r, pid) ==
    /\ stray < MaxStray
    /\ Running(r)
    /\ wire[r][pid] = <<>>
    /\ \E other \in Pids : \E i \in DOMAIN sent[Peer(r)][other] :
           wire' = [wire EXCEPT ![r][pid] = EncodeFrame(sent[Peer(r)][other][i])]
    /\ stray' = stray + 1
    /\ UNCHANGED <<nominator, path, nominated, cause, sent, created, delivered>>

Next ==
    \/ \E r \in Roles, pid \in Pids :
           \/ \E n \in 1 .. Len(wire[r][pid]) : AddChunks(r, pid, n)
           \/ ProcessFrame(r, pid)
           \/ NominatePath(r, pid)
           \/ pid \in StrayPids /\ StrayFrame(r, pid)
    \/ \E r \in Roles : CreateUlpFrame(r)

\* What has arrived is read and processed, and the nominator nominates a path
\* that awaits it.  No one has to send.
Progress ==
    \E r \in Roles, pid \in Pids :
        \/ \E n \in 1 .. Len(wire[r][pid]) : AddChunks(r, pid, n)
        \/ ProcessFrame(r, pid)
        \/ path[r][pid].state = "AwaitingNominate" /\ NominatePath(r, pid)

Fairness == WF_vars(Progress)

Spec == Init /\ [][Next]_vars /\ Fairness

-----------------------------------------------------------------------------
(* Properties                                                              *)

Frames == [key : [of : Roles, etk : SUBSET [by : Roles, pid : Pids]],
           nonce : [pid : Pids, sn : 1 .. MaxSn],
           content : [type : {"Hello"}, challenge : [by : Roles, pid : Pids],
                      etk : [by : Roles, pid : Pids]]
               \cup [type : {"AuthHello"}, response : [by : Roles, pid : Pids],
                     challenge : [by : Roles, pid : Pids], etk : [by : Roles, pid : Pids]]
               \cup [type : {"Auth"}, response : [by : Roles, pid : Pids]]
               \cup [type : {"Nominate"}]
               \cup [type : {"Ulp"}, data : 1 .. MaxUlp]]

\* The type invariant.
TypeOK ==
    /\ nominator \in Roles
    /\ \A r \in Roles, pid \in Pids :
           /\ path[r][pid].state \in PathStates
           /\ path[r][pid].sealed \in 0 .. MaxSn - 1
           /\ path[r][pid].received \in 0 .. MaxSn - 1
           /\ \A i \in DOMAIN sent[r][pid] : sent[r][pid][i] \in Frames
           /\ \A i \in DOMAIN wire[r][pid] : wire[r][pid][i].part \in 0 .. UlpLength + 1
    /\ nominated \in [Roles -> Pids \cup {NoPid}]
    /\ created \in [Roles -> 0 .. MaxUlp]
    /\ delivered \in [Roles -> Seq(1 .. MaxUlp)]
    /\ stray \in 0 .. MaxStray

\* No two frames leave either end under the same key and nonce, on any path, through
\* the change of the keys and up to the overflow of the sequence numbers (rxdxk.rs,
\* encrypt and new_from).
NonceUnique ==
    \A r1, r2 \in Roles, p1, p2 \in Pids :
        \A i \in DOMAIN sent[r1][p1], j \in DOMAIN sent[r2][p2] :
            <<r1, p1, i>> # <<r2, p2, j>> =>
                \/ sent[r1][p1][i].key # sent[r2][p2][j].key
                \/ sent[r1][p1][i].nonce # sent[r2][p2][j].nonce

\* As long as each path delivers what was sent on it, the handshake fails on no path:
\* all frames open, all challenges are answered, and no frame is unexpected.  What is
\* left are a hasty nomination, a full buffer, an overflow, and frames on a path that
\* was dropped.
NoSpuriousError ==
    stray = 0 => \A r \in Roles :
        cause[r] \in {"none", "InvalidStateForNomination", "OversizedFrame",
                      "SequenceNumberOverflow", "UnknownOrDroppedPath"}

\* The protocol implements the nominated channel, whatever the paths deliver.
RoleOf(end) == IF end = "nominator" THEN nominator ELSE Peer(nominator)
Ends == {"nominator", "nominee"}
Channel == INSTANCE NominatedChannel WITH
    chosen   <- nominated[nominator],
    learnt   <- nominated[Peer(nominator)],
    sent     <- [end \in Ends |-> created[RoleOf(end)]],
    received <- [end \in Ends |-> delivered[RoleOf(end)]]
ChannelSpec == Channel!Spec

\* The handshake fails on no path that delivers what was sent on it, and a nomination
\* reaches the nominee, unless that aborts before (mod.rs, process_frame).
NominationLearnt ==
    /\ []NoSpuriousError
    /\ nominated[nominator] # NoPid ~>
          (nominated[Peer(nominator)] = nominated[nominator] \/ ~Running(Peer(nominator)))

\* add_chunks compares with the limit "if the frame exceeds the maximum supported
\* length of this state" (mod.rs): frames within the limits of the states they are
\* sent for are not rejected.
FramesWithinLimitsPass ==
    1 + 1 <= MaxBefore /\ 1 + UlpLength <= MaxAfter =>
        \A r \in Roles : cause[r] # "OversizedFrame"
=============================================================================
