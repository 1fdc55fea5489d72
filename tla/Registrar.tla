------------------------------ MODULE Registrar ------------------------------
(***************************************************************************)
(* The client records of primitives/registrar.rs and what ClientMap answers  *)
(* from them.  The stored passdata decides about a passphrase as the         *)
(* passphrase itself would (Argon2 is external).                             *)
(***************************************************************************)
EXTENDS Scopes

CONSTANTS
  Client,     \* client ids
  Pass,       \* passphrases
  UriText,    \* redirect uri strings that parse
  ToUrl(_)    \* the Url such a string parses to

\* RegisteredUrl::Exact or ::Semantic.
RegisteredUrl == [exact : BOOLEAN, text : UriText]

\* EncodedClient: pass = Nil is ClientType::Public.
EncodedClient == [uri : RegisteredUrl, more : SUBSET RegisteredUrl,
                  scope : Scope, pass : Pass \cup {Nil}]

Url == {ToUrl(x) : x \in UriText}

Matches(registered, text) ==
  IF registered.exact THEN registered.text = text
  ELSE ToUrl(registered.text) = ToUrl(text)

\* Mutant: a uri that is not registered is taken as it is.
BoundRedirectAny(client, text) ==
  IF client = Nil THEN Nil
  ELSE IF text = Nil \/ Matches(client.uri, text) THEN client.uri
  ELSE [exact |-> TRUE, text |-> text]

\* bound_redirect: the registered url for the requested one, the default if
\* none is requested, Nil for Err(Unspecified).
BoundRedirect(client, text) ==
  IF client = Nil THEN Nil
  ELSE IF text = Nil \/ Matches(client.uri, text) THEN client.uri
  ELSE IF \E u \in client.more : Matches(u, text)
       THEN CHOOSE u \in client.more : Matches(u, text)
       ELSE Nil

\* negotiate: the default scope, whatever was asked for.
Negotiate(c, client, uri) ==
  [client |-> c, uri |-> ToUrl(uri.text), scope |-> client.scope]

\* Mutant: no passphrase is as good as the right one.
CheckLenient(client, pass) == client # Nil /\ (pass = Nil \/ pass = client.pass)

\* check: a public client shows nothing, a confidential one its passphrase.
Check(client, pass) == client # Nil /\ pass = client.pass
=============================================================================
