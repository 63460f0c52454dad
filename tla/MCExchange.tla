------------------------------ MODULE MCExchange ------------------------------
EXTENDS Exchange

CONSTANTS l1, l2, l3, f1, f2

mcAbbreviations == [DIDCommMessaging |-> "dm"]

Messaging(uri) == Service(Id(Absent, <<"service", 1>>), Type(TRUE, <<"DIDCommMessaging">>), uri)
KeyPair(n) == <<Key("X25519", n), Key("Ed25519", n + 1)>>
Peer(n, services) ==
  PeerCreate(<<[usage |-> "KEY_AGREEMENT_KEY", list |-> <<KeyPair(n)[1]>>],
               [usage |-> "AUTHENTICATION_KEY", list |-> <<KeyPair(n)[2]>>]>>, services)
Party(n, services) == [did |-> Peer(n, services), keys |-> KeyPair(n)]

TheMediator ==
  Party(1, <<Messaging([url |-> "mediator"])>>) @@ [host |-> Peer(3, <<>>), hostKeys |-> KeyPair(3)]

\* Its own url, the mediator's services, and no service at all.
Direct == Party(5, <<Messaging([url |-> "inviter"])>>)
Mediated == Party(7, <<Messaging(TheMediator.did)>>)
Deaf == Party(9, <<>>)
mcInviters == {Direct, Mediated, Deaf}

Invitation(from, attachments) ==
  [type |-> "oob", piuri |-> Absent, id |-> 1, from |-> from, accept |-> TRUE,
   attachments |-> attachments, expired |-> FALSE, endpoint |-> Absent]
Plain(from) == Invitation(from, <<>>)
Onboarding == [Plain(Absent) EXCEPT !.type = "prism", !.endpoint = "onboard"]
Offer == [body |-> TRUE, piuri |-> "offer", attachments |-> <<>>, from |-> Direct.did]
Url(json) == [form |-> "url", json |-> json]

FromDirect == Url(Plain(Direct.did))
FromMediated == [form |-> "base64", json |-> Plain(Mediated.did)]
WithOffer == Url(Invitation(Direct.did, <<Attachment("json", Offer)>>))

\* What one call may be given: all the ways to go wrong, and to go right.
Values ==
  {FromDirect, FromMediated, WithOffer,
   [form |-> "object", json |-> Onboarding],
   Url(Plain(Deaf.did)), Url(Plain(Thrown)),
   Url(Invitation(Direct.did, <<Attachment("text", Offer)>>)),
   Url(Invitation(Direct.did, <<Attachment("base64", Absent)>>)),
   Url(Invitation(Direct.did, <<Attachment("links", Absent)>>)),
   [form |-> "garbage", json |-> Absent]}
  \cup {Url([Plain(Direct.did) EXCEPT ![field] = Absent]) : field \in {"id", "from"}}
  \cup {Url([Plain(Direct.did) EXCEPT !.accept = FALSE]), Url([Plain(Direct.did) EXCEPT !.expired = TRUE]),
        Url([Plain(Direct.did) EXCEPT !.type = Absent, !.piuri = "oob"]),
        Url([Plain(Direct.did) EXCEPT !.type = "other"]), Url([Onboarding EXCEPT !.endpoint = Absent])}

Idle == [f \in Flows |-> FlowInit([form |-> "none"], Absent)]
NoCall == CallInit([form |-> "garbage", json |-> Absent], Absent)
Two(v, a, w, b) == [c \in Calls |-> IF c = 2 THEN CallInit(v, a) ELSE CallInit(w, b)]
One(v) == [c \in Calls |-> IF c = 2 THEN CallInit(v, Absent) ELSE [NoCall EXCEPT !.at = "threw"]]

Scenario(mediator, given, listeners, fs) ==
  [mediator |-> mediator, calls |-> given, listeners |-> listeners, flows |-> fs]

OneInvitation ==
  {Scenario(m, One(v), <<>>, Idle) : m \in {TheMediator, Absent}, v \in Values}
  \cup {Scenario(TheMediator, One(v), <<l1, l2, l3>>, Idle) : v \in {FromDirect, WithOffer}}
TwoInvitations ==
  {Scenario(TheMediator, Two(v, a, w, Absent), <<>>, Idle) :
     v \in {FromDirect, FromMediated}, a \in {Absent, "Ann"}, w \in {FromDirect, WithOffer}}

-----------------------------------------------------------------------------
NoGrants == Absent
CodeGrant(state, server) ==
  [authorization_code |-> [issuer_state |-> state, authorization_server |-> server],
   pre_authorized_code |-> Absent]
PreGrant(server) ==
  [authorization_code |-> Absent, pre_authorized_code |-> [authorization_server |-> server]]
CredentialOffer(issuer, ids, grants) ==
  [credential_issuer |-> issuer, credential_configuration_ids |-> ids, grants |-> grants]

Config(scope, type, jwt) == [scope |-> scope, type |-> type, jwt |-> jwt]
Meta(endpoint, servers) ==
  [credential_endpoint |-> endpoint, authorization_servers |-> servers,
   configurations |-> [degree |-> Config("degree", "Degree", TRUE), id |-> Config(Absent, "Id", FALSE)]]
mcIssuers ==
  [I1 |-> Meta("e1", <<"A">>), I2 |-> Meta("e2", <<"B">>), I3 |-> Meta("e3", Absent), I4 |-> Absent,
   I5 |-> [credential_endpoint |-> "e5"]]
Server(issuer, endpoint, token, iss) ==
  [issuer |-> issuer, authorization_endpoint |-> endpoint, token_endpoint |-> token, iss_supported |-> iss]
mcAuthServers ==
  [A |-> Server("A", "a", "t", TRUE), B |-> Server("B", "b", "t", FALSE),
   C |-> Server("C", Absent, "t", TRUE), D |-> Server("D", "d", Absent, TRUE), E |-> Absent,
   F |-> [token_endpoint |-> "t"]]
mcOfferAt == [o1 |-> CredentialOffer("I1", <<"id", "degree">>, NoGrants), o2 |-> Absent]

Inline(offer) == [form |-> "object", offer |-> offer]
Linked(offer, uri) == [form |-> "url", offer |-> offer, uri |-> uri]
Degree(issuer) == CredentialOffer(issuer, <<"degree">>, CodeGrant("s", Absent))

\* One flow: all the ways to go wrong.
Offers ==
  {Inline(CredentialOffer(i, ids, g)) :
     i \in {"I1", "I3", "I4", "I5"}, ids \in {<<>>, <<"id">>, <<"degree">>, <<"other">>},
     g \in {NoGrants, CodeGrant("s", "A"), CodeGrant(Absent, "C"), PreGrant("D"), PreGrant("E"), PreGrant("F"), PreGrant(Absent)}}
  \cup {Linked(Degree("I1"), Absent), Linked(Degree("I1"), "o1"), Linked(Absent, "o1"), Linked(Absent, "o2"),
        Linked(Absent, Absent), Inline([credential_issuer |-> "I1"]), [form |-> "none"]}

FlowsOf(a, b) == [f \in Flows |-> IF f = f1 THEN a ELSE b]
Ended == [FlowInit([form |-> "none"], Absent) EXCEPT !.at = "threw"]
OneOffer ==
  {Scenario(Absent, One(NoCall.value), <<>>, FlowsOf(FlowInit(o, client), Ended)) :
     o \in Offers, client \in {"wallet", Absent}}
\* Two flows with one issuer, with two, and one beside an invitation.
TwoOffers ==
  {Scenario(Absent, One(NoCall.value), <<>>,
            FlowsOf(FlowInit(Inline(Degree("I1")), "wallet"), FlowInit(Inline(o), "wallet"))) :
     o \in {Degree("I1"), Degree("I2"), CredentialOffer("I1", <<"id">>, NoGrants)}}
Both ==
  {Scenario(TheMediator, One(FromDirect), <<>>, FlowsOf(FlowInit(Inline(Degree("I1")), "wallet"), Ended))}

mcScenarios == OneInvitation \cup TwoInvitations \cup OneOffer \cup TwoOffers \cup Both
===============================================================================
