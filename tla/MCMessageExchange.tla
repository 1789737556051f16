-------------------------- MODULE MCMessageExchange --------------------------
(* Two or three messages of every kind, from the library, the bridge and    *)
(* other clients.                                                           *)
EXTENDS MessageExchange

CONSTANTS alice, bob, g

Text == [kind |-> "Text", text |-> <<"hi">>]
Empty == [kind |-> "Text", text |-> <<>>]
Location(accuracy, name, address) ==
    [kind |-> "Location", latitude |-> "1.5", longitude |-> "-2", accuracy |-> accuracy,
     name |-> name, address |-> address]
Street == <<"street", "NL", "city">>
Read == [kind |-> "DeliveryReceipt", type |-> "Read", ids |-> <<"id1", "id2">>]
Like == [kind |-> "LegacyReaction", type |-> "Acknowledge", ids |-> <<"id1">>]
Resume == [kind |-> "WebSessionResume", payload |-> <<"push">>]
Home == [creator |-> alice, id |-> g]

ToContact(body) == [conversation |-> "Contact", body |-> body]
ToList(body) == [conversation |-> "DistributionList", body |-> body]
ToGroup(body) == [conversation |-> "Group", group |-> Home, body |-> body]

Library(id, content, delta, quiet) ==
    [via |-> "Library", id |-> id, createdAt |-> 1500, disableReceipts |-> quiet,
     content |-> content, nickname |-> delta, legacyNickname |-> {}]
Command(id) == [via |-> "SendMessage", id |-> id, createdAt |-> 1500, text |-> <<"hi", "NL">>]
Raw(id, type, data, meant) ==
    [via |-> "SendRaw", id |-> id, createdAt |-> 1500, type |-> type, data |-> data,
     meant |-> meant]
RawUnknown(id, type, data) ==
    Raw(id, type, data, ToContact([kind |-> "Unknown", type |-> type, data |-> data]))

\* What another client may send: with or without metadata, readable or not
Foreign(id, container) ==
    [via |-> "Foreign", id |-> id,
     payload |-> [sender |-> alice, receiver |-> bob, id |-> id, nonce |-> 0,
                  legacyCreated |-> 1, flags |-> {"push"}, fits |-> TRUE,
                  legacyNickname |-> <<>>, metadata |-> {}, container |-> container]]
Sealed(nonce, bytes) == Seal("message", {alice, bob}, nonce, bytes)
Spaces == <<<<" ", 1>>>>

First == {ToContact(Text), ToContact(Location({"9"}, {<<"park">>}, {Street})),
          ToContact(Location({}, {}, {Street})), ToContact(Location({}, {}, {})),
          ToContact(Read), ToContact(Like), ToContact(Resume), ToList(Text),
          ToGroup(Text), ToGroup(Empty), ToGroup(Like)}
Deltas == {Unchanged, Removal, Update(<<" ", "b", " ">>), Update(<<" ">>)}

Raws == {Raw("id2", "GroupText", <<alice, g, "hi">>, ToGroup(Text)),
         Raw("id2", "GroupFile", <<alice, g, "blob">>,
             ToGroup([kind |-> "Unknown", type |-> "GroupFile", data |-> <<alice, g, "blob">>])),
         Raw("id2", "GroupLocation", <<alice, g, "1.5", "COMMA", "-2">>,
             ToGroup(Location({}, {}, {}))),
         RawUnknown("id2", "TypingIndicator", <<"on">>), RawUnknown("id2", "File", <<"blob">>)}

\* The payload and the nonce of a message that is second
Foreigns ==
    {Foreign("id2", Sealed(2, bytes)) :
        bytes \in {<<>>, <<"Text", 0>>, <<"Text", 3>>, <<1>>, <<"0xff", 1>>, <<"Text", "BAD", 1>>,
                   <<"Location", "x", 1>>, <<"DeliveryReceipt", 1>>,
                   <<"DeliveryReceipt", "Other", 1>>, <<"DeliveryReceipt", "Read", "half", 1>>,
                   <<"GroupText", "hi", 1>>,
                   <<"GroupDeliveryReceipt", alice, g, "Read", 1>>, <<"Text", "hi", 1>>}}
    \cup {Foreign("id2", Sealed(3, <<"Text", "hi", 1>>)),
          [Foreign("id2", Sealed(2, <<"Text", "hi", 1>>)) EXCEPT !.payload.fits = FALSE],
          [Foreign("id2", Sealed(2, <<"Text", "hi", 1>>)) EXCEPT !.payload.receiver = alice],
          [Foreign("id2", Sealed(2, <<"Text", "hi", 1>>)) EXCEPT !.payload.metadata =
              {Seal("metadata", {alice, bob}, 2,
                    [id |-> "id1", createdAt |-> 7, nickname |-> {}])}],
          [Foreign("id2", Sealed(2, <<"Text", "hi", 1>>)) EXCEPT !.payload.metadata =
              {Seal("metadata", {alice, bob}, 3,
                    [id |-> "id2", createdAt |-> 7, nickname |-> {}])}]}

MCScenarios ==
    {<<Library("id1", content, delta, quiet), Command("id2")>> :
        content \in First, delta \in Deltas, quiet \in BOOLEAN}
    \cup {<<Command("id1"), second, Library("id3", ToContact(Like), Update(<<"b">>), FALSE)>> :
             second \in Raws \cup Foreigns}

\* All of these can be understood; those further down cannot.
ASSUME ScenariosAreLegible ==
    \A drafts \in MCScenarios : \A n \in DOMAIN drafts : Legible(drafts[n], n)

MCNickname == <<"w", "a">>
MCOldNickname == {<<"old">>}
LongNickname == <<"w", "w">>

\* Bodies the encoding does not keep, what it says without metadata, and what the
\* receiver should not hand over
GroupLocations == {<<Library("id1", ToGroup(Location({}, {}, {})), Unchanged, FALSE)>>}
Locations ==
    {<<Library("id1", ToContact(location), Unchanged, FALSE)>> :
        location \in {Location({}, {<<"park">>}, {}), Location({}, {<<"a", "NL", "b">>}, {Street}),
                      Location({}, {}, {<<"ESC">>})}}
RawTexts == {<<draft>> : draft \in {Raw("id1", "GroupText", <<alice, g, "hi">>, ToGroup(Text))}}
Unnamed == {<<[Foreign("id1", Sealed(1, <<"Text", "hi", 1>>)) EXCEPT
                  !.payload.legacyNickname = Spaces]>>}
ForwardSecurity == {<<RawUnknown("id1", "ForwardSecurityEnvelope", <<alice, g>>)>>}
ChangedOnTheWay == Locations \cup RawTexts \cup Unnamed \cup ForwardSecurity
=============================================================================
