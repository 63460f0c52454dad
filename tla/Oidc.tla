---------------------------------- MODULE Oidc ----------------------------------
(***************************************************************************)
(* The OIDC plugin: from a credential offer to an authorization request,   *)
(* from the callback url to a token and a connection, and from there to a  *)
(* stored credential.  An action is what runs between two awaits; an       *)
(* application may follow several offers side by side.                     *)
(*                                                                         *)
(* Issuers, authorization servers and the user agent are external.  A      *)
(* server issues a code for an authorization request and a token for a     *)
(* code, once each; an answer is Absent when it is an error, and requests  *)
(* fail.                                                                   *)
(***************************************************************************)
EXTENDS Connections

CONSTANTS
  Flows,        \* the offers that an application follows
  OfferAt,      \* what a url answers that an offer names by reference
  Issuers,      \* what each issuer answers when asked for its metadata
  AuthServers,  \* what each authorization server answers
  ClientId,     \* ctx.OIDC.clientId
  MaxLosses     \* bound: requests that fail

\* The metadata of an authorization server.
IsAuthServerMetadata(json) == "issuer" \in DOMAIN json

\* An issuer identifier is that of one server (RFC 8414), which says of itself
\* whether it names itself in the urls it sends a user agent back to.
ASSUME ServersAssumption ==
  LET Known == {s \in DOMAIN AuthServers :
                  AuthServers[s] # Absent /\ IsAuthServerMetadata(AuthServers[s])}
  IN  \A s \in Known :
        /\ AuthServers[s].issuer # Absent
        /\ AuthServers[s].iss_supported \in BOOLEAN
        /\ \A t \in Known : AuthServers[t].issuer = AuthServers[s].issuer =>
             AuthServers[t].iss_supported = AuthServers[s].iss_supported

VARIABLES
  flows,        \* what each flow was given, how far it is, what it has
  codes,        \* codes issued: by which server, for which request
  callbacks,    \* the urls that a user agent was sent back to
  redeemed,     \* token requests that have arrived, with the server they went to
  requested,    \* credential requests that have arrived
  credentials,  \* Pluto's credentials
  losses

oidcVars == <<flows, codes, callbacks, redeemed, requested, credentials, losses>>

-----------------------------------------------------------------------------
(* Offers and metadata                                                     *)

\* What the schemas require; any other field may be missing, Absent.
IsCredentialOffer(json) ==
  {"credential_issuer", "credential_configuration_ids"} \subseteq DOMAIN json
IsIssuerMetadata(json) == {"credential_endpoint", "configurations"} \subseteq DOMAIN json
IsTokenResponse(json) == "access_token" \in DOMAIN json
IsCredential(json) == "of" \in DOMAIN json

\* A value is an object, or a url that holds the offer or names where it is; a
\* url that does both is refused.
ExtractJson(value) ==
  IF value.form = "object" THEN value.offer
  ELSE IF value.form # "url" THEN Thrown
  ELSE IF value.offer # Absent /\ value.uri # Absent THEN Thrown
  ELSE IF value.uri # Absent THEN OfferAt[value.uri]
  ELSE value.offer

ParseCredentialOffer(value) ==
  LET json == ExtractJson(value)
  IN  IF json \in {Thrown, Absent} THEN Thrown
      ELSE IF IsCredentialOffer(json) THEN json ELSE Thrown

\* grants.authorization_code and the pre-authorized one are Absent, or name an
\* authorization server, which may be Absent too.
NamedServer(grants) ==
  IF grants = Absent THEN Absent
  ELSE IF grants.authorization_code # Absent THEN grants.authorization_code.authorization_server
  ELSE IF grants.pre_authorized_code # Absent THEN grants.pre_authorized_code.authorization_server
  ELSE Absent

\* The grant that was meant plays no part in what follows; without a server in
\* the offer the issuer's first one is taken.
AuthorizationServer(offer, issuerMeta) ==
  LET named == NamedServer(offer.grants)
  IN  IF named # Absent THEN named
      ELSE IF issuerMeta.authorization_servers \in {Absent, <<>>} THEN Thrown
      ELSE Head(issuerMeta.authorization_servers)

AllSupported(offer, issuerMeta) ==
  ToSet(offer.credential_configuration_ids) \subseteq DOMAIN issuerMeta.configurations

-----------------------------------------------------------------------------
(* The authorization request                                               *)

\* The scopes of the configurations offered; if there are none, of all.
ScopesOf(issuerMeta, ids) ==
  {issuerMeta.configurations[id].scope : id \in ids} \ {Absent}

ProcessScopes(offer, issuerMeta) ==
  LET scopes == ScopesOf(issuerMeta, ToSet(offer.credential_configuration_ids))
  IN  IF scopes = {} THEN ScopesOf(issuerMeta, DOMAIN issuerMeta.configurations) ELSE scopes

IssuerState(offer) ==
  IF offer.grants = Absent THEN Absent
  ELSE IF offer.grants.authorization_code = Absent THEN Absent
  ELSE offer.grants.authorization_code.issuer_state

\* No state and no code challenge is sent.
CreateAuthorizationRequest(flow, authServerMeta) ==
  IF authServerMeta.authorization_endpoint = Absent THEN Thrown
  ELSE [authServerMeta |-> authServerMeta, issuerMeta |-> flow.issuerMeta,
        client_id |-> flow.clientId, scope |-> ProcessScopes(flow.offer, flow.issuerMeta),
        issuer_state |-> IssuerState(flow.offer)]

FlowInit(value, clientId) ==
  [value |-> value, clientId |-> clientId, at |-> "idle", offer |-> Absent, issuerMeta |-> Absent,
   request |-> Absent, code |-> Absent, connection |-> Absent, body |-> Absent]

OidcInit(given) ==
  /\ flows = given
  /\ codes = {} /\ callbacks = {} /\ redeemed = {} /\ requested = {} /\ credentials = {}
  /\ losses = 0

FlowGoes(f, at) == flows' = [flows EXCEPT ![f].at = at]

\* A request is answered, with an error (Absent) or with what may not fit its
\* schema, or it fails: Given and Threw are the steps that follow.
Answers(answer, fits, Given, Threw) ==
  \/ /\ UNCHANGED losses
     /\ IF answer = Absent THEN Threw ELSE IF fits THEN Given ELSE Threw
  \/ /\ losses < MaxLosses /\ losses' = losses + 1 /\ Threw

ParseOffer(f) ==
  LET offer == ParseCredentialOffer(flows[f].value)
  IN  /\ flows[f].at = "idle"
      /\ flows' = [flows EXCEPT ![f].at = IF offer = Thrown THEN "threw" ELSE "offered",
                                ![f].offer = offer]
      /\ UNCHANGED <<codes, callbacks, redeemed, requested, credentials, losses, connectionVars>>

\* ResolveAuthorizationRequest: the issuer is asked,
FetchIssuerMetadata(f) ==
  /\ flows[f].at = "offered"
  /\ LET meta == Issuers[flows[f].offer.credential_issuer]
     IN  Answers(meta, IsIssuerMetadata(meta),
           IF AllSupported(flows[f].offer, meta) /\ AuthorizationServer(flows[f].offer, meta) # Thrown
           THEN flows' = [flows EXCEPT ![f].at = "discovering", ![f].issuerMeta = meta]
           ELSE FlowGoes(f, "threw"),
           FlowGoes(f, "threw"))
  /\ UNCHANGED <<codes, callbacks, redeemed, requested, credentials, connectionVars>>

AuthServerAt(url) == IF url \in DOMAIN AuthServers THEN AuthServers[url] ELSE Absent

\* and then the authorization server.
FetchAuthServerMeta(f) ==
  /\ flows[f].at = "discovering"
  /\ LET meta == AuthServerAt(AuthorizationServer(flows[f].offer, flows[f].issuerMeta))
         request == CreateAuthorizationRequest(flows[f], meta)
     IN  Answers(meta, IsAuthServerMetadata(meta),
           flows' = [flows EXCEPT ![f].at = IF request = Thrown THEN "threw" ELSE "authorizing",
                                  ![f].request = request],
           FlowGoes(f, "threw"))
  /\ UNCHANGED <<codes, callbacks, redeemed, requested, credentials, connectionVars>>

-----------------------------------------------------------------------------
(* The callback and the token                                              *)

\* The server (external) sends the user agent back, with a code or an error,
\* and says who it is if it supports that.
Authorize(f, error) ==
  LET request == flows[f].request
      code == [server |-> request.authServerMeta.issuer, flow |-> f]
  IN  /\ flows[f].at = "authorizing" /\ code \notin codes
      /\ codes' = codes \cup {code}
      /\ callbacks' = callbacks \cup
           {[code |-> IF error THEN Absent ELSE code, error |-> error, state |-> Absent,
             iss |-> IF request.authServerMeta.iss_supported THEN request.authServerMeta.issuer ELSE Absent]}
      /\ UNCHANGED <<flows, redeemed, requested, credentials, losses, connectionVars>>

\* Mutant of ProcessCallbackUrl: iss must be there, and is not compared.
ProcessCallbackUrlAnyIssuer(authServerMeta, callback) ==
  IF callback.error \/ callback.code = Absent THEN Thrown
  ELSE IF callback.iss = Absent /\ authServerMeta.iss_supported THEN Thrown
  ELSE IF callback.state # Absent THEN Thrown
  ELSE callback.code

\* No state was sent, so none is expected.
ProcessCallbackUrl(authServerMeta, callback) ==
  IF callback.error \/ callback.code = Absent THEN Thrown
  ELSE IF callback.iss = Absent /\ authServerMeta.iss_supported THEN Thrown
  ELSE IF callback.iss \notin {Absent, authServerMeta.issuer} THEN Thrown
  ELSE IF callback.state # Absent THEN Thrown
  ELSE callback.code

\* ResolveTokenRequest, with a callback url that the application has got for one
\* of its flows, which need not be this one.
ResolveTokenRequest(f, callback) ==
  LET request == flows[f].request
      code == ProcessCallbackUrl(request.authServerMeta, callback)
  IN  /\ flows[f].at = "authorizing"
      /\ flows' = [flows EXCEPT ![f].at =
           IF code = Thrown \/ request.authServerMeta.token_endpoint = Absent THEN "threw" ELSE "redeeming",
           ![f].code = code]
      /\ UNCHANGED <<codes, callbacks, redeemed, requested, credentials, losses, connectionVars>>

\* A server (external) takes a code that it issued, from the client it issued it
\* to, once.
TokenFor(f) ==
  LET request == flows[f].request
      code == flows[f].code
  IN  IF \/ code.server # request.authServerMeta.issuer
         \/ flows[code.flow].request.client_id # request.client_id
         \/ \E r \in redeemed : r.code = code
      THEN Absent ELSE [access_token |-> code, c_nonce |-> code]

OIDCConnection(request, tokenResponse) ==
  [Connection("OIDC", [url |-> request.issuerMeta.credential_endpoint], Absent, Absent)
     EXCEPT !.state = "GRANTED", !.tokenResponse = tokenResponse]

\* The token request is sent without a token.  The connection is only added
\* when the answer is a 200 that fits.
ReceiveToken(f) ==
  LET request == flows[f].request
      token == TokenFor(f)
  IN  /\ flows[f].at = "redeeming"
      /\ redeemed' = redeemed \cup {[code |-> flows[f].code, server |-> request.authServerMeta.issuer]}
      /\ Answers(token, IsTokenResponse(token),
           Add(OIDCConnection(request, token)) /\ FlowGoes(f, "connected"),
           FlowGoes(f, "threw") /\ UNCHANGED connections)
      /\ UNCHANGED <<codes, callbacks, requested, credentials, mediators>>

-----------------------------------------------------------------------------
(* The credential request                                                  *)

\* ResolveCredentialRequest asks the issuer again, and takes the first
\* connection of its endpoint.
FindConnection(f) ==
  /\ flows[f].at = "connected"
  /\ LET meta == Issuers[flows[f].offer.credential_issuer]
         found == Find([url |-> meta.credential_endpoint])
     IN  Answers(meta, IsIssuerMetadata(meta),
           flows' = [flows EXCEPT ![f].at = IF found = Absent THEN "threw" ELSE "preparing",
                                  ![f].connection = found, ![f].issuerMeta = meta],
           FlowGoes(f, "threw"))
  /\ UNCHANGED <<codes, callbacks, redeemed, requested, credentials, connectionVars>>

\* CreateCredentialRequest looks for the connection once more, for its token; of
\* the configurations offered it asks for the first.  The proof, if one is asked
\* for, is a JWT of a prism DID that is created for it (PrismDIDs creates it).
CredentialBody(f, token) ==
  LET offer == flows[f].offer
      clientId == IF flows[f].clientId # Absent THEN flows[f].clientId ELSE ClientId
      config == flows[f].issuerMeta.configurations[Head(offer.credential_configuration_ids)]
  IN  [type |-> config.type,
       proof |-> IF config.jwt
                 THEN [aud |-> offer.credential_issuer, iss |-> clientId, nonce |-> token.c_nonce]
                 ELSE Absent]

CreateCredentialRequest(f) ==
  LET found == Find([url |-> flows[f].issuerMeta.credential_endpoint])
      offer == flows[f].offer
      fails == \/ flows[f].clientId = Absent /\ ClientId = Absent
               \/ offer.credential_configuration_ids = <<>>
               \/ Head(offer.credential_configuration_ids) \notin DOMAIN flows[f].issuerMeta.configurations
               \/ IF found = Absent THEN TRUE ELSE found.tokenResponse = Absent
  IN  /\ flows[f].at = "preparing"
      /\ flows' = IF fails THEN [flows EXCEPT ![f].at = "threw"]
                  ELSE [flows EXCEPT ![f].at = "asking",
                                     ![f].body = CredentialBody(f, found.tokenResponse)]
      /\ UNCHANGED <<codes, callbacks, redeemed, requested, credentials, losses, connectionVars>>

\* connection.send adds the token of the connection that was found first.  The
\* issuer (external) gives a credential of the type for a token of its own.
AskCredential(f) ==
  LET request == [body |-> flows[f].body, url |-> flows[f].connection.uri,
                  bearer |-> flows[f].connection.tokenResponse]
      credential == [type |-> request.body.type, of |-> request.bearer.access_token]
  IN  /\ flows[f].at = "asking"
      /\ requested' = requested \cup {request}
      /\ Answers(credential, IsCredential(credential),
           credentials' = credentials \cup {credential} /\ FlowGoes(f, "stored"),
           FlowGoes(f, "threw") /\ UNCHANGED credentials)
      /\ UNCHANGED <<codes, callbacks, redeemed, connectionVars>>

FlowStep(f) ==
  \/ ParseOffer(f) \/ FetchIssuerMetadata(f) \/ FetchAuthServerMeta(f)
  \/ \E error \in BOOLEAN : Authorize(f, error)
  \/ \E callback \in callbacks : ResolveTokenRequest(f, callback)
  \/ ReceiveToken(f) \/ FindConnection(f) \/ CreateCredentialRequest(f) \/ AskCredential(f)

\* With its process a flow is lost: nothing of it is in Pluto but its credential.
Forget ==
  /\ flows' = [f \in Flows |-> IF flows[f].at = "idle" THEN flows[f] ELSE [flows[f] EXCEPT !.at = "lost"]]
  /\ UNCHANGED <<codes, callbacks, redeemed, requested, credentials, losses>>

OidcNext == \E f \in Flows : FlowStep(f)
===============================================================================
