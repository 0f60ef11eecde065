-------------------------- MODULE MCRequestTranslation --------------------------
(***************************************************************************)
(* Calls of the three APIs, two in a row: conversations with instructions  *)
(* in front and in between, in strings and in parts, parameters one at a   *)
(* time and all at once, and what makes each parser refuse a request.      *)
(***************************************************************************)
EXTENDS RequestTranslation

A == <<"a">>
B == <<"b">>

Part(type, text) == [type |-> type, text |-> text]
String(text) == [shape |-> "text", parts |-> <<Part("text", text)>>]
Parts(parts) == [shape |-> "parts", parts |-> parts]
Other == [shape |-> "other", parts |-> <<>>]

TwoParts == Parts(<<Part("text", A), Part("text", B)>>)

\* The same words as TwoParts.
Joined == String(A \o B)

M(role, content) == [role |-> role, content |-> content, extra |-> None]

Named(message) == [message EXCEPT !.extra = "name"]

Talk ==
  {<<M("user", String(A))>>, <<Named(M("user", String(A)))>>, <<M("user", TwoParts)>>,
   <<M("user", Joined)>>, <<M("user", Parts(<<>>))>>,
   <<M("user", String(A)), M("assistant", String(B)), M("user", TwoParts)>>}

ChatTalk ==
  Talk \cup
  {<<M("system", String(A)), M("user", String(B))>>,
   <<M("user", String(A)), M("system", TwoParts), M("assistant", String(A)),
     M("system", String(B))>>,
   <<M("tool", String(A))>>,
   <<M("user", Parts(<<Part("image", A)>>))>>,
   <<M("user", Other)>>}

MessagesTalk == Talk \cup {<<M("system", String(A))>>, <<M("user", Parts(<<Part("bare", A)>>))>>}

SystemField ==
  {None, String(A), Parts(<<>>), Parts(<<Part("bare", A), Part("text", B)>>), Joined, Other}

One(n) == [NoParams EXCEPT ![n] = 1]

ParamSets == {NoParams, [n \in ParamName |-> 1], [NoParams EXCEPT !.max_tokens = 2]}
               \cup {One(n) : n \in ParamName}

Call(api, system, messages, params, stream) ==
  [api |-> api, version |-> "2023-06-01", unsupported |-> FALSE, system |-> system,
   messages |-> messages, params |-> params, stream |-> stream]

First == <<M("user", String(A))>>

MCRequest ==
  {Call("chat", None, t, NoParams, s) : t \in ChatTalk, s \in BOOLEAN}
  \cup {Call("chat", None, First, One("temperature"), FALSE)}
  \cup {Call("messages", None, t, NoParams, FALSE) : t \in MessagesTalk}
  \cup {Call("messages", y, First, NoParams, s) : y \in SystemField, s \in BOOLEAN}
  \cup {Call("messages", String(B), First, p, s) : p \in ParamSets, s \in BOOLEAN}
  \cup {Call("embeddings", None, t, NoParams, FALSE) : t \in {First, <<M("user", TwoParts)>>}}
  \cup {[Call("messages", None, First, NoParams, FALSE) EXCEPT !.version = None],
        [Call("messages", None, First, NoParams, FALSE) EXCEPT !.unsupported = TRUE]}

Body(text, finish, counts) ==
  [text |-> text, finish |-> finish, usage |-> counts, error_type |-> None]

MCAnswer ==
  {[status |-> 200, body |-> Body(A, "stop", [input |-> 3, output |-> 1])],
   [status |-> 200, body |-> Body(B, "length", [input |-> 3, output |-> None])],
   [status |-> 202, body |-> Body(None, None, [input |-> None, output |-> 1])],
   [status |-> 200, body |-> Garbage],
   [status |-> 503, body |-> Garbage],
   [status |-> 429, body |-> [Body(None, None, None) EXCEPT !.error_type = "tokens"]]}
=============================================================================
