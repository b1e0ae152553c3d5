---------------------------- MODULE CoapRequest ----------------------------
(***************************************************************************)
(* What a request says on the wire, from the user's QCoapRequest through   *)
(* the operations of QCoapClient and the worker to the datagram, and what  *)
(* of an answer the user sees in a QCoapReply or a                         *)
(* QCoapResourceDiscoveryReply.                                            *)
(*                                                                         *)
(* The course of the exchange (retransmission, matching, cancellation) is  *)
(* module QCoapProtocol's and transfers in blocks are CoapBlockwise's: an  *)
(* answer here belongs to its exchange and is whole.                       *)
(***************************************************************************)
EXTENDS CoapUrl, CoapFrame, CoreLinkFormat

CONSTANTS
    Urls, Proxies,     \* URLs the user has
    UserOptions,       \* options the user adds
    OptionLists,       \* lists of options the user sets, in any order
    Versions,          \* versions the user sets
    UserTokens,        \* tokens the user sets
    Payloads,          \* contents of requests and answers
    Links,             \* the links in a content that is a core link document
    DiscoveryPath,     \* /.well-known/core
    DiscoveryPorts,    \* ports of a group
    Tokens, Ids,       \* what the worker draws from
    Codes,             \* response codes
    AnswerOptions,     \* lists of options of an answer
    MaxEdits, MaxRequests, MaxAnswers, MaxInputs    \* bounds; the last one on edits and answers together

ASSUME InputAssumption ==
    /\ Urls \subseteq URLs /\ Proxies \subseteq URLs
    /\ UserOptions \subseteq CoapOptions /\ Versions \subseteq Byte
    /\ OptionLists \cup AnswerOptions \subseteq Seq(CoapOptions)
    /\ \A list \in AnswerOptions : Sorted(list)
    /\ UserTokens \cup Payloads \subseteq Seq(Byte) /\ Tokens \subseteq Seq(Byte) \ {<<>>}
    /\ Ids \subseteq UInt16 /\ Codes \subseteq Byte /\ DiscoveryPorts \subseteq UInt16
    /\ {MaxEdits, MaxRequests, MaxAnswers, MaxInputs} \subseteq Nat
    /\ DiscoveryPath \in Seq(Texts) /\ DiscoveryPath # <<>> /\ Head(DiscoveryPath) = ""

VARIABLES
    secure,     \* isSecure() of the connection
    request,    \* the user's QCoapRequest
    edits,      \* number of changes made to it
    replies,    \* the replies returned to the user
    calls,      \* calls of sendRequest posted to the worker
    exchanges,  \* the exchange map: by token, what the worker keeps of a request
    sent,       \* history: the frames handed to the connection
    answers,    \* number of answers so far
    posted      \* calls posted to the replies

vars == <<secure, request, edits, replies, calls, exchanges, sent, answers, posted>>

Methods == [Get |-> 1, Post |-> 2, Put |-> 3, Delete |-> 4]

\* "ordered" is a history: the list of options the user set last was in order.
QCoapRequests == [version : Byte, type : 0..3, code : 0..4, token : Seq(Byte),
                  options : Seq(CoapOptions), ordered : BOOLEAN, payload : Seq(Byte),
                  url : URLs, proxyUrl : URLs]

\* QCoapRequest(url), non-confirmable by default.
NewRequest(url) ==
    [version |-> 1, type |-> Types["NonConfirmable"], code |-> 0, token |-> <<>>, options |-> <<>>,
     ordered |-> TRUE, payload |-> <<>>, url |-> SetUrl(NoUrl, url), proxyUrl |-> NoUrl]

Init ==
    /\ secure \in BOOLEAN
    /\ request = NewRequest(NoUrl) /\ edits = 0
    /\ replies = <<>> /\ calls = <<>> /\ exchanges = <<>> /\ sent = <<>>
    /\ answers = 0 /\ posted = <<>>

(***************************************************************************)
(* The user changes the request.                                           *)
(***************************************************************************)

EnableObserve(options) ==
    IF HasOption(options, "Observe") THEN options ELSE AddOption(options, Option("Observe", <<>>))

Edit(changed) ==
    /\ edits < MaxEdits /\ edits + answers < MaxInputs /\ edits' = edits + 1
    /\ request' = changed
    /\ UNCHANGED <<secure, replies, calls, exchanges, sent, answers, posted>>

EditUrl ==
    \/ \E url \in Urls : Edit([request EXCEPT !.url = SetUrl(@, url)])
    \/ \E url \in Proxies : Edit([request EXCEPT !.proxyUrl = url])

\* setOptions stores the list as it is, in whatever order; clearOptions.
SetOptions(r, list) == [r EXCEPT !.options = list, !.ordered = Sorted(list)]

EditOptions ==
    \/ \E option \in UserOptions : Edit([request EXCEPT !.options = AddOption(@, option)])
    \/ \E option \in UserOptions : Edit([request EXCEPT !.options = RemoveOption(@, option)])
    \/ \E name \in {"Observe", "Etag"} : Edit([request EXCEPT !.options = RemoveOptionsNamed(@, name)])
    \/ \E list \in OptionLists \cup {<<>>} : Edit(SetOptions(request, list))
    \/ Edit([request EXCEPT !.options = EnableObserve(@)])

\* A message id set by the user is not looked at: the worker draws its own.
EditMessage ==
    \/ \E version \in Versions : Edit([request EXCEPT !.version = version])
    \/ \E type \in DOMAIN Types : Edit([request EXCEPT !.type = Types[type]])
    \/ \E payload \in Payloads : Edit([request EXCEPT !.payload = payload])
    \/ \E token \in UserTokens : Edit([request EXCEPT !.token = token])

(***************************************************************************)
(* The operations of QCoapClient.                                          *)
(***************************************************************************)

CreateRequest(other, method) ==
    [other EXCEPT !.code = Methods[method], !.url = AdjustedUrl(@, secure)]

\* QCoapClientPrivate::send: a request that is not accepted returns no reply.
Accepts(r) ==
    /\ r.url.scheme = (IF secure THEN "coaps" ELSE "coap")
    /\ IsUrlValid(r.url)
    /\ ~ (IsMulticast(r.url.host) /\ r.type = Types["Confirmable"])

\* The reply, which copies the request; "asked" is the URL the user named, if any.
Send(r, discovery, asked) ==
    /\ Len(replies) < MaxRequests
    /\ Accepts(r)
    /\ replies' = Append(replies, [request |-> r, discovery |-> discovery, asked |-> asked,
                                   message |-> EmptyMessage("NonConfirmable", 0),
                                   finished |-> FALSE, aborted |-> FALSE, error |-> FALSE,
                                   resources |-> <<>>, answered |-> <<>>])
    /\ calls' = Append(calls, Len(replies) + 1)
    /\ UNCHANGED <<secure, request, edits, exchanges, sent, answers, posted>>

WithData(r, data) == IF data = <<>> THEN r ELSE [r EXCEPT !.payload = data]

Get == Send(CreateRequest(request, "Get"), FALSE, NoUrl)
Put == \E data \in Payloads : Send(WithData(CreateRequest(request, "Put"), data), FALSE, NoUrl)
Post == \E data \in Payloads : Send(WithData(CreateRequest(request, "Post"), data), FALSE, NoUrl)
DeleteResource == Send(CreateRequest(request, "Delete"), FALSE, NoUrl)

\* observe() creates a request and hands it to get(), which creates one more.
Observed(r) ==
    LET copy == CreateRequest(r, "Get")
    IN CreateRequest([copy EXCEPT !.options = EnableObserve(@)], "Get")

Observe ==
    \/ Send(Observed(request), FALSE, NoUrl)
    \/ \E url \in Urls : Send(Observed(NewRequest(url)), FALSE, url)

\* The text of one path after that of another; the second one starts with '/'.
Joined(path, more) == IF path = <<>> THEN more ELSE path \o Tail(more)

\* A path set on a URL is its whole path; a host asks for an absolute one.
Discover ==
    \/ \E url \in Urls :
          /\ ~IsEmpty(url)
          /\ Send(CreateRequest(NewRequest([url EXCEPT !.path = Joined(@, DiscoveryPath)]), "Get"),
                  TRUE, NoUrl)
    \/ \E group \in Groups, port \in DiscoveryPorts :
          Send(CreateRequest(NewRequest([NoUrl EXCEPT !.valid = TRUE, !.host = group, !.port = port,
                                                      !.path = DiscoveryPath]), "Get"), TRUE, NoUrl)

Operation == Get \/ Put \/ Post \/ DeleteResource \/ Observe \/ Discover

(***************************************************************************)
(* The worker.                                                             *)
(***************************************************************************)

FreeIds == Ids \ {exchanges[t].message.messageId : t \in DOMAIN exchanges}
FreeTokens == Tokens \ DOMAIN exchanges

\* Fault: no token is generated.
FaultyTokensFor(r) == {r.token}

\* A token is generated unless the user set one.
TokensFor(r) == IF r.token # <<>> THEN {r.token} ELSE FreeTokens

\* The private sendRequest: the frame, and where it goes; the port is cast to 16 bits.
Datagram(reply, m, target) ==
    [reply |-> reply, message |-> m, bytes |-> ToQByteArray(m),
     host |-> target.host, port |-> target.port % 65536]

\* The guard of QCoapProtocol::sendRequest.
Startable(r) == r.code # 0 /\ IsUrlValid(r.url)

StartRequest ==
    /\ calls # <<>> /\ calls' = Tail(calls)
    /\ LET n == Head(calls)
           r == replies[n].request
           uri == AddUriOptions(r.options, r.url, r.proxyUrl)
       IN IF ~Startable(r) THEN UNCHANGED <<exchanges, sent>>
          ELSE \E id \in FreeIds, token \in TokensFor(r) :
               LET m == [version |-> r.version, type |-> r.type, code |-> r.code, messageId |-> id,
                         token |-> token, options |-> uri.options, payload |-> r.payload]
               IN /\ exchanges' = [t \in DOMAIN exchanges \cup {token} |->
                                     IF t = token THEN [reply |-> n, message |-> m, targetUri |-> uri.targetUri]
                                     ELSE exchanges[t]]
                  /\ sent' = Append(sent, Datagram(n, m, uri.targetUri))
    /\ UNCHANGED <<secure, request, edits, replies, answers, posted>>

Forget(token) == exchanges' = [t \in DOMAIN exchanges \ {token} |-> exchanges[t]]

IsError(code) == code >= 128

\* What the worker does with a whole answer of a host the request was sent to.  A confirmable
\* one is acknowledged, to the URL of the request, unless it is an error.
Receive(token, sender, answer) ==
    LET x == exchanges[token]
        reply == CreateFromFrame(ServerFrame(answer))
        content == [op |-> "setContent", reply |-> x.reply, sender |-> sender,
                    message |-> reply, answer |-> answer]
        end == [op |-> "setFinished", reply |-> x.reply]
        ends == IsError(reply.code)
                \/ ~ (HasOption(x.message.options, "Observe") \/ IsMulticast(x.targetUri.host))
    IN /\ IsMulticast(x.targetUri.host) \/ sender = x.targetUri.host
       /\ sent' = IF reply.type = Types["Confirmable"] /\ ~IsError(reply.code)
                  THEN Append(sent, Datagram(0, EmptyMessage("Acknowledgment", reply.messageId),
                                             x.targetUri))
                  ELSE sent
       /\ posted' = posted \o (IF ends THEN <<content, end>> ELSE <<content>>)
       /\ replies' = [replies EXCEPT ![x.reply].answered =
                         Append(@, [sender |-> sender, code |-> answer.code, payload |-> answer.payload])]
       /\ IF ends THEN Forget(token) ELSE UNCHANGED exchanges

OnFrameReceived ==
    /\ answers < MaxAnswers /\ edits + answers < MaxInputs /\ answers' = answers + 1
    /\ \E token \in DOMAIN exchanges, sender \in Addresses \ Groups, type \in 0..2, id \in Ids,
          code \in Codes, payload \in Payloads, options \in AnswerOptions :
          Receive(token, sender,
                  [version |-> 1, type |-> type, code |-> code, messageId |-> id, token |-> token,
                   options |-> options, payload |-> payload])
    /\ UNCHANGED <<secure, request, edits, calls>>

OnMulticastRequestExpired ==
    /\ \E token \in DOMAIN exchanges :
          /\ IsMulticast(exchanges[token].targetUri.host)
          /\ posted' = Append(posted, [op |-> "setFinished", reply |-> exchanges[token].reply])
          /\ Forget(token)
    /\ UNCHANGED <<secure, request, edits, replies, calls, sent, answers>>

(***************************************************************************)
(* The replies, in the thread of the user.                                 *)
(***************************************************************************)

\* _q_setContent of the two classes: a finished reply takes nothing any more.
SetContent(reply, e) ==
    IF reply.finished THEN reply
    ELSE IF IsError(e.message.code) THEN [reply EXCEPT !.message = e.message, !.error = TRUE]
    ELSE IF ~reply.discovery THEN [reply EXCEPT !.message = e.message]
    ELSE [reply EXCEPT !.message = e.message,
                       !.resources = @ \o ResourcesFromCoreLinkList(e.sender, Document(Links[e.message.payload]))]

HandlePosted ==
    /\ posted # <<>> /\ posted' = Tail(posted)
    /\ LET e == Head(posted) IN
       replies' = [replies EXCEPT ![e.reply] = IF e.op = "setContent" THEN SetContent(@, e)
                                               ELSE [@ EXCEPT !.finished = TRUE]]
    /\ UNCHANGED <<secure, request, edits, calls, exchanges, sent, answers>>

\* The part of abortRequest() the reply sees: aborted(token) may reach the worker late.
AbortRequest ==
    /\ \E n \in DOMAIN replies :
          /\ ~replies[n].finished
          /\ replies' = [replies EXCEPT ![n].finished = TRUE, ![n].aborted = TRUE]
    /\ UNCHANGED <<secure, request, edits, calls, exchanges, sent, answers, posted>>

Next ==
    \/ EditUrl \/ EditOptions \/ EditMessage \/ Operation
    \/ StartRequest \/ OnFrameReceived \/ OnMulticastRequestExpired
    \/ HandlePosted \/ AbortRequest

Spec == Init /\ [][Next]_vars

(***************************************************************************)
(* Properties.                                                             *)
(***************************************************************************)

TypeOK ==
    /\ secure \in BOOLEAN /\ edits \in 0..MaxEdits /\ answers \in 0..MaxAnswers
    /\ request \in QCoapRequests
    /\ \A n \in DOMAIN replies : replies[n].request \in QCoapRequests
    /\ calls \in Seq(DOMAIN replies)
    /\ <<>> \notin DOMAIN exchanges
    /\ \A t \in DOMAIN exchanges : exchanges[t].message \in Messages /\ exchanges[t].message.token = t

\* addOption, removeOption and addUriOptions: whatever the user adds and removes, in whatever
\* order, and what is made of the URL keeps the order of the option numbers, as long as a list
\* that the user set was in order itself.
OptionsSorted ==
    /\ request.ordered => Sorted(request.options)
    /\ \A n \in DOMAIN replies : replies[n].request.ordered => Sorted(replies[n].request.options)
    /\ \A t \in DOMAIN exchanges :
          replies[exchanges[t].reply].request.ordered => Sorted(exchanges[t].message.options)

\* toQByteArray: each frame that is sent with the options in order, an empty message included,
\* is read by the other end as the message it was made of.
FramesReadable ==
    \A n \in DOMAIN sent :
       Sorted(sent[n].message.options) => Reads(sent[n].bytes, sent[n].message)

\* createFromFrame: the message handed to the user is the one the other end sent.
AnswersReadable ==
    \A n \in DOMAIN posted : posted[n].op = "setContent" => posted[n].message = posted[n].answer

\* What a frame says of the host, the path and the query it is for (RFC 7252, section 6.5): the
\* option or else the destination, and the values of the repeated options in their order.
Values(options, name) == LET named == OptionsNamed(options, name) IN [i \in DOMAIN named |-> named[i].value]

Shown(d) ==
    LET o == d.message.options IN
    [host |-> IF HasOption(o, "UriHost") THEN Values(o, "UriHost") ELSE <<Utf8[d.host]>>,
     path |-> Values(o, "UriPath"), query |-> Values(o, "UriQuery")]

\* The bytes of the texts of a path or a query; an empty text is none.
TextBytes(texts) ==
    FoldLeft(LAMBDA bytes, t : IF t = "" THEN bytes ELSE Append(bytes, Utf8[t]), <<>>, texts)

Meant(url) ==
    [host |-> <<Utf8[url.host]>>, path |-> TextBytes(NormalizedPath(url.path)),
     query |-> TextBytes(url.query)]

Requested(n) == replies[sent[n].reply].request
Direct(n) ==
    /\ sent[n].reply # 0
    /\ Requested(n).ordered /\ IsEmpty(Requested(n).proxyUrl) /\ IsAscii(Requested(n).url)

\* addUriOptions: from the frame of a request sent without a proxy, its options in order, and
\* its destination a server rebuilds the host, the path and the query of the URL, the segments
\* and the parts in their order; the frame goes to the host and the port of that URL.
ServerSeesUrl ==
    \A n \in DOMAIN sent : Direct(n) =>
       /\ Shown(sent[n]) = Meant(Requested(n).url)
       /\ sent[n].host = Requested(n).url.host /\ sent[n].port = Requested(n).url.port

\* cancelObserve(url) adjusts the URL once and compares it with that of the replies, which
\* setUrl and two adjustments have changed: it finds the observation of the URL the user named.
ObservationFoundByUrl ==
    \A n \in DOMAIN replies : ~IsEmpty(replies[n].asked) =>
       AdjustedUrl(replies[n].asked, secure) = replies[n].request.url

\* The resources of an answer, and of the first k answers to a reply.
FromAnswer(a) ==
    IF IsError(a.code) THEN <<>>
    ELSE [i \in DOMAIN Links[a.payload] |-> Described(a.sender, Links[a.payload][i])]
First(k, answered) == FlattenSeq([i \in 1..k |-> FromAnswer(answered[i])])

\* A discovery reply has the resources of the answers it took in the order of the answers:
\* of all of them when it ended by itself and nothing is posted any more.
DiscoveredInOrder ==
    \A n \in DOMAIN replies : replies[n].discovery =>
       LET reply == replies[n]
       IN /\ \E k \in 0..Len(reply.answered) : reply.resources = First(k, reply.answered)
          /\ posted = <<>> /\ ~reply.aborted => reply.resources = First(Len(reply.answered), reply.answered)
=============================================================================
