------------------------------ MODULE Adapters ------------------------------
(***************************************************************************)
(* The web framework adapters oxide-auth-actix, -iron, -rouille and -rocket: *)
(* how each turns an HTTP message into a WebRequest, what a WebRequest still *)
(* yields after its body was read, which calls on its WebResponse can fail,  *)
(* and the status it gives an error that no response describes.  "any" is a  *)
(* WebRequest and WebResponse of the application's own, such as those of     *)
(* frontends/simple.                                                         *)
(***************************************************************************)
EXTENDS Params, Naturals, Sequences

Adapter == {"actix", "iron", "rouille", "rocket"}

\* A message: its query and body are sequences of pairs, or Bad if they are
\* not urlencoded; `auth` has the values of its Authorization headers, whose
\* scheme "nontext" means bytes that are not text.
ContentType == {"form", "none", "other"}

NoHeader == [scheme |-> "none"]

\* A WebRequest, by what query(), urlbody() and authheader() return: Bad is an
\* error; a body of Nil is one that the application has yet to add.
WebRequest(query, body, header) == [query |-> query, body |-> body, header |-> header]

\* Mutant: the first of several headers is taken.
TakeFirstAuthorization(auth) ==
  IF auth # <<>> /\ auth[1].scheme # "nontext" THEN auth[1] ELSE NoHeader

\* Several headers, or one that is not text, count as none.
OnlyAuthorization(auth) ==
  IF Len(auth) = 1 /\ auth[1].scheme # "nontext" THEN auth[1] ELSE NoHeader

\* OAuthRequest::new fails on two Authorization headers (Nil).  OAuthResource
\* leaves query and body alone.
ActixRequest(msg, resource) ==
  IF Len(msg.auth) > 1 THEN Nil
  ELSE WebRequest(IF resource THEN Bad ELSE msg.query,
                  IF resource \/ msg.ctype # "form" THEN Bad ELSE msg.body,
                  OnlyAuthorization(msg.auth))

\* hyper takes several Authorization headers for none.
IronRequest(msg) ==
  WebRequest(msg.query, IF msg.ctype = "form" THEN msg.body ELSE Bad,
             OnlyAuthorization(msg.auth))

\* header() returns the first header of that name.
RouilleRequest(msg) ==
  WebRequest(msg.query, IF msg.ctype \in {"form", "none"} THEN msg.body ELSE Bad,
             IF msg.auth = <<>> THEN NoHeader ELSE msg.auth[1])

RocketRequest(msg) ==
  WebRequest(msg.query, IF msg.ctype = "form" THEN Nil ELSE Bad,
             OnlyAuthorization(msg.auth))

NewRequest(adapter, msg, resource) ==
  CASE adapter = "actix" -> ActixRequest(msg, resource)
    [] adapter = "iron" -> IronRequest(msg)
    [] adapter = "rouille" -> RouilleRequest(msg)
    [] adapter = "rocket" -> RocketRequest(msg)

\* add_body: nothing to do if there is a body or an error already.
AddBody(object, msg) == IF object.body = Nil THEN [object EXCEPT !.body = msg.body] ELSE object

\* What a flow finds: the body that was forgotten is an error.
Found(object) == IF object.body = Nil THEN [object EXCEPT !.body = Bad] ELSE object

\* Mutant: the body that was read is kept.
AfterReadKept(adapter, object, msg) == object

\* urlbody() of iron and rouille reads the body of the connection, if the
\* content type is right.  The next call finds an empty stream, or none.
AfterRead(adapter, object, msg) ==
  CASE adapter = "iron" /\ msg.ctype = "form" -> [object EXCEPT !.body = <<>>]
    [] adapter = "rouille" /\ msg.ctype \in {"form", "none"} -> [object EXCEPT !.body = Bad]
    [] OTHER -> object

\* The calls on a response that can fail: header values of actix.
MayFail(adapter, call) ==
  \/ adapter = "any"
  \/ adapter = "actix" /\ call \in {"redirect", "unauthorized"}

\* A response has a status, and perhaps a Location or WWW-Authenticate header.
Response(template) ==
  [template |-> template, status |-> "Ok", location |-> FALSE, challenge |-> FALSE]

\* Adapters set a status and a header; the responses of frontends/simple also
\* drop the headers that belong to another status.
SetStatus(adapter, resp, status) ==
  LET own(header, of) == status = of \/ (adapter # "any" /\ header) IN
  [resp EXCEPT !.status = status,
               !.location = own(@, "Redirect"),
               !.challenge = own(@, "Unauthorized")]

\* The status of an error that execute or prepare returned; Nil: the
\* application's choice.  "Web" is an error of the response.
ErrorStatus(adapter, error) ==
  IF adapter \in {"any", "rouille"} THEN Nil
  ELSE IF adapter = "actix" \/ error = "PrimitiveError" THEN "ServerError"
  ELSE "BadRequest"
=============================================================================
