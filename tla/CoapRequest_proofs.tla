------------------------- MODULE CoapRequest_proofs -------------------------
(***************************************************************************)
(* TypeOK, OptionsSorted and ObservationFoundByUrl for all requests, URLs, *)
(* proxies, options, in whatever order they are set, and contents;         *)
(* FramesReadable and AnswersReadable for those whose options fit into     *)
(* frames; ServerSeesUrl for the users who leave the options of the URL to *)
(* addUriOptions; and DiscoveredInOrder for servers whose documents are    *)
(* written of links.                                                       *)
(***************************************************************************)
EXTENDS CoapRequest, CoapFrame_proofs

LEMMA InputUrls == Urls \subseteq URLs /\ Proxies \subseteq URLs
    BY InputAssumption

LEMMA InputLists ==
    /\ OptionLists \subseteq Seq(CoapOptions) /\ AnswerOptions \subseteq Seq(CoapOptions)
    /\ \A list \in AnswerOptions : Sorted(list)
    BY InputAssumption, Zenon

LEMMA InputOptions == UserOptions \subseteq CoapOptions /\ Versions \subseteq Byte
    BY InputAssumption, Zenon

LEMMA InputBytes ==
    /\ UserTokens \subseteq Seq(Byte) /\ Payloads \subseteq Seq(Byte)
    /\ Tokens \subseteq Seq(Byte) \ {<<>>}
    BY InputAssumption

LEMMA InputNumbers ==
    /\ Ids \subseteq UInt16 /\ Codes \subseteq Byte /\ DiscoveryPorts \subseteq UInt16
    /\ MaxEdits \in Nat /\ MaxRequests \in Nat /\ MaxAnswers \in Nat
    BY InputAssumption

LEMMA InputPath == DiscoveryPath \in Seq(Texts) /\ DiscoveryPath # <<>>
    BY InputAssumption

(***************************************************************************)
(* The invariant.                                                          *)
(***************************************************************************)

ReplyFields == {"request", "discovery", "asked", "message", "finished", "aborted", "error",
                "resources", "answered"}

\* The list of replies; no step changes the request of one.
RepliesListed ==
    /\ \E S : replies \in Seq(S)
    /\ \A n \in DOMAIN replies : DOMAIN replies[n] = ReplyFields

\* A request that was accepted is valid, has a method, and its URL a port.
Prepared(r) == Startable(r) /\ r.url.port \in UInt16

RequestsPrepared == \A n \in DOMAIN replies : Prepared(replies[n].request)

\* Each exchange has a reply.
ExchangesOwned == \A t \in DOMAIN exchanges : exchanges[t].reply \in DOMAIN replies

RequestInv ==
    TypeOK /\ OptionsSorted /\ RepliesListed /\ ExchangesOwned /\ RequestsPrepared /\ ObservationFoundByUrl

\* A request of the user, with sorted options unless the user set others.
SortedRequest(r) == r \in QCoapRequests /\ (r.ordered => Sorted(r.options))

LEMMA NewRequestType ==
    ASSUME NEW url \in URLs
    PROVE  SortedRequest(NewRequest(url))
<1>1. SetUrl(NoUrl, url) \in URLs /\ NoUrl \in URLs
    BY SetUrlType, NoUrlType
<1>2. <<>> \in Seq(Byte) /\ <<>> \in Seq(CoapOptions) /\ Sorted(<<>>)
    BY EmptySeq DEF Sorted
<1>3. Types["NonConfirmable"] \in 0..3
    BY DEF Types
<1> QED
    BY <1>1, <1>2, <1>3 DEF NewRequest, SortedRequest, QCoapRequests, Byte

LEMMA EnableObserveType ==
    ASSUME NEW ordered \in BOOLEAN, NEW options \in ListsOf(ordered)
    PROVE  EnableObserve(options) \in ListsOf(ordered)
<1>1. Option("Observe", <<>>) \in CoapOptions
    BY OptionType, EmptySeq
<1>2. AddOption(options, Option("Observe", <<>>)) \in ListsOf(ordered)
    BY <1>1, AddOptionListed
<1> QED
    BY <1>2 DEF EnableObserve

\* Replacing the options, the URL or the payload of a request.
LEMMA RequestWith ==
    ASSUME NEW r, SortedRequest(r)
    PROVE  /\ \A list \in ListsOf(r.ordered) : SortedRequest([r EXCEPT !.options = list])
           /\ \A version \in Byte : SortedRequest([r EXCEPT !.version = version])
           /\ \A url \in URLs : SortedRequest([r EXCEPT !.url = url])
           /\ \A url \in URLs : SortedRequest([r EXCEPT !.proxyUrl = url])
           /\ \A payload \in Seq(Byte) : SortedRequest([r EXCEPT !.payload = payload])
           /\ \A token \in Seq(Byte) : SortedRequest([r EXCEPT !.token = token])
           /\ \A type \in 0..3 : SortedRequest([r EXCEPT !.type = type])
           /\ \A code \in 0..4 : SortedRequest([r EXCEPT !.code = code])
           /\ r.ordered \in BOOLEAN /\ r.options \in ListsOf(r.ordered)
           /\ r.url \in URLs /\ r.proxyUrl \in URLs
BY DEF SortedRequest, QCoapRequests, ListsOf

\* setOptions: the list as it is.
LEMMA RequestWithList ==
    ASSUME NEW r, SortedRequest(r), NEW list \in Seq(CoapOptions)
    PROVE  SortedRequest(SetOptions(r, list))
<1> DEFINE ordered == Sorted(list)
<1>1. ordered \in BOOLEAN /\ (ordered => Sorted(list))
    BY DEF Sorted
<1>2. SetOptions(r, list) = [r EXCEPT !.options = list, !.ordered = ordered]
    BY DEF SetOptions
<1> HIDE DEF ordered
<1>3. SortedRequest([r EXCEPT !.options = list, !.ordered = ordered])
    BY <1>1 DEF SortedRequest, QCoapRequests
<1> QED
    BY <1>2, <1>3

\* createRequest copies the request, with the method and the adjusted URL.
LEMMA CreateRequestType ==
    ASSUME NEW r, SortedRequest(r), NEW method \in DOMAIN Methods, secure \in BOOLEAN
    PROVE  /\ SortedRequest(CreateRequest(r, method))
           /\ CreateRequest(r, method).code # 0
           /\ CreateRequest(r, method).url = AdjustedUrl(r.url, secure)
           /\ CreateRequest(r, method).options = r.options
<1>1. AdjustedUrl(r.url, secure) \in URLs
    BY RequestWith, AdjustedUrlCases
<1>2. Methods[method] \in 1..4
    BY DEF Methods
<1> DEFINE url == AdjustedUrl(r.url, secure)
           code == Methods[method]
<1>3. CreateRequest(r, method) = [r EXCEPT !.code = code, !.url = url]
    BY DEF CreateRequest
<1>4. code \in 0..4 /\ code # 0 /\ url \in URLs
    BY <1>1, <1>2
<1> HIDE DEF url, code
<1> DEFINE e == [r EXCEPT !.code = code, !.url = url]
<1>5. e.code = code /\ e.url = url /\ e.options = r.options
    BY DEF SortedRequest, QCoapRequests
<1>6. e \in QCoapRequests /\ (e.ordered => Sorted(e.options))
    BY <1>4, <1>5 DEF SortedRequest, QCoapRequests
<1> HIDE DEF e
<1> QED
    BY <1>3, <1>4, <1>5, <1>6 DEF SortedRequest, url, e

\* What every request handed to send() has.
Created(r, s) == SortedRequest(r) /\ r.code # 0 /\ \E url \in URLs : r.url = AdjustedUrl(url, s)

LEMMA CreatedType ==
    ASSUME NEW r, SortedRequest(r), NEW method \in DOMAIN Methods, secure \in BOOLEAN
    PROVE  Created(CreateRequest(r, method), secure)
<1>1. r.url \in URLs
    BY RequestWith
<1> QED
    BY <1>1, CreateRequestType DEF Created

LEMMA ObservedType ==
    ASSUME NEW r, SortedRequest(r), secure \in BOOLEAN
    PROVE  /\ Created(Observed(r), secure)
           /\ Observed(r).url = AdjustedUrl(AdjustedUrl(r.url, secure), secure)
<1> DEFINE copy == CreateRequest(r, "Get")
           marked == [copy EXCEPT !.options = EnableObserve(copy.options)]
<1>0. "Get" \in DOMAIN Methods
    BY DEF Methods
<1>1. SortedRequest(copy) /\ copy.url = AdjustedUrl(r.url, secure)
    BY <1>0, CreateRequestType
<1>2. Observed(r) = CreateRequest(marked, "Get")
    BY DEF Observed
<1> HIDE DEF copy
<1>3. EnableObserve(copy.options) \in ListsOf(copy.ordered)
    BY <1>1, RequestWith, EnableObserveType
<1>4. SortedRequest(marked) /\ marked.url = copy.url
    <2>1. SortedRequest(marked)
        BY <1>1, <1>3, RequestWith
    <2>2. marked.url = copy.url
        BY <1>1 DEF SortedRequest, QCoapRequests
    <2> QED
        BY <2>1, <2>2
<1> HIDE DEF marked
<1> QED
    BY <1>0, <1>1, <1>2, <1>4, CreatedType, CreateRequestType

\* QCoapClientPrivate::send takes nothing the worker drops.
LEMMA AcceptedIsPrepared ==
    ASSUME NEW r, Created(r, secure), Accepts(r), secure \in BOOLEAN
    PROVE  Prepared(r)
<1>1. PICK url \in URLs : r.url = AdjustedUrl(url, secure)
    BY DEF Created
<1>2. r.url # NoUrl
    <2>1. NoUrl.scheme = ""
        BY DEF NoUrl
    <2>2. r.url.scheme # ""
        BY DEF Accepts
    <2> QED
        BY <2>1, <2>2
<1>3. r.url.port \in UInt16
    BY <1>1, <1>2, AdjustedUrlCases
<1> QED
    BY <1>3 DEF Created, Accepts, Prepared, Startable

\* The user edits the request.
LEMMA EditKeeps ==
    ASSUME RequestInv, NEW changed, SortedRequest(changed), Edit(changed)
    PROVE  RequestInv'
<1>1. /\ request' = changed /\ edits' = edits + 1 /\ edits < MaxEdits
      /\ UNCHANGED <<secure, replies, calls, exchanges, answers>>
    BY DEF Edit
<1>2. TypeOK'
    <2>1. edits' \in 0..MaxEdits
        <3>1. MaxEdits \in Nat /\ edits \in 0..MaxEdits
            BY InputNumbers DEF RequestInv, TypeOK
        <3> QED
            BY <1>1, <3>1
    <2> QED
        BY <1>1, <2>1 DEF RequestInv, TypeOK, SortedRequest
<1>3. OptionsSorted'
    BY <1>1 DEF RequestInv, OptionsSorted, SortedRequest
<1> QED
    BY <1>1, <1>2, <1>3
    DEF RequestInv, RepliesListed, ExchangesOwned, RequestsPrepared, ObservationFoundByUrl

LEMMA RequestIsSorted ==
    ASSUME RequestInv
    PROVE  SortedRequest(request) /\ secure \in BOOLEAN
    BY DEF RequestInv, TypeOK, OptionsSorted, SortedRequest

LEMMA EditUrlKeeps == ASSUME RequestInv, EditUrl PROVE RequestInv'
<1>1. CASE \E url \in Urls : Edit([request EXCEPT !.url = SetUrl(@, url)])
    <2>1. PICK url \in Urls : Edit([request EXCEPT !.url = SetUrl(@, url)])
        BY <1>1
    <2>2. url \in URLs /\ request.url \in URLs
        BY InputUrls, RequestIsSorted, RequestWith
    <2>3. SetUrl(request.url, url) \in URLs
        BY <2>2, SetUrlType
    <2>4. SortedRequest([request EXCEPT !.url = SetUrl(request.url, url)])
        BY <2>3, RequestIsSorted, RequestWith
    <2> QED
        BY <2>1, <2>4, EditKeeps
<1>2. CASE \E url \in Proxies : Edit([request EXCEPT !.proxyUrl = url])
    <2>1. PICK url \in Proxies : Edit([request EXCEPT !.proxyUrl = url])
        BY <1>2
    <2>2. SortedRequest([request EXCEPT !.proxyUrl = url])
        BY InputUrls, RequestIsSorted, RequestWith
    <2> QED
        BY <2>1, <2>2, EditKeeps
<1> QED
    BY <1>1, <1>2 DEF EditUrl

LEMMA EditOptionsKeeps == ASSUME RequestInv, EditOptions PROVE RequestInv'
<1>1. /\ SortedRequest(request) /\ request.ordered \in BOOLEAN
      /\ request.options \in ListsOf(request.ordered)
    BY RequestIsSorted, RequestWith
<1>2. ASSUME NEW list \in ListsOf(request.ordered), Edit([request EXCEPT !.options = list]) PROVE RequestInv'
    <2>1. SortedRequest([request EXCEPT !.options = list])
        BY <1>1, RequestWith
    <2> QED
        BY <1>2, <2>1, EditKeeps
<1>3. CASE \E option \in UserOptions : Edit([request EXCEPT !.options = AddOption(@, option)])
    <2>1. PICK option \in UserOptions :
            Edit([request EXCEPT !.options = AddOption(request.options, option)])
        BY <1>3
    <2>2. AddOption(request.options, option) \in ListsOf(request.ordered)
        <3>1. option \in CoapOptions
            BY InputOptions
        <3> QED
            BY <1>1, <3>1, AddOptionListed
    <2> QED
        BY <1>2, <2>1, <2>2
<1>4. CASE \E option \in UserOptions : Edit([request EXCEPT !.options = RemoveOption(@, option)])
    <2>1. PICK option \in UserOptions :
            Edit([request EXCEPT !.options = RemoveOption(request.options, option)])
        BY <1>4
    <2>2. RemoveOption(request.options, option) \in ListsOf(request.ordered)
        BY <1>1, RemoveOptionKeepsOrder
    <2> QED
        BY <1>2, <2>1, <2>2
<1>5. CASE \E name \in {"Observe", "Etag"} :
             Edit([request EXCEPT !.options = RemoveOptionsNamed(@, name)])
    <2>1. PICK name \in {"Observe", "Etag"} :
            Edit([request EXCEPT !.options = RemoveOptionsNamed(request.options, name)])
        BY <1>5
    <2>2. RemoveOptionsNamed(request.options, name) \in ListsOf(request.ordered)
        BY <1>1, RemoveOptionsKeepsOrder
    <2> QED
        BY <1>2, <2>1, <2>2
<1>6. CASE \E list \in OptionLists \cup {<<>>} : Edit(SetOptions(request, list))
    <2>1. PICK list \in OptionLists \cup {<<>>} : Edit(SetOptions(request, list))
        BY <1>6
    <2>2. list \in Seq(CoapOptions)
        BY InputLists, EmptySeq
    <2>3. SortedRequest(SetOptions(request, list))
        BY <1>1, <2>2, RequestWithList
    <2> QED
        BY <2>1, <2>3, EditKeeps
<1>8. CASE Edit([request EXCEPT !.options = EnableObserve(@)])
    <2>1. Edit([request EXCEPT !.options = EnableObserve(request.options)])
        BY <1>8
    <2>2. EnableObserve(request.options) \in ListsOf(request.ordered)
        BY <1>1, EnableObserveType
    <2> QED
        BY <1>2, <2>1, <2>2
<1> QED
    BY <1>3, <1>4, <1>5, <1>6, <1>8 DEF EditOptions

LEMMA EditMessageKeeps == ASSUME RequestInv, EditMessage PROVE RequestInv'
<1>0. CASE \E version \in Versions : Edit([request EXCEPT !.version = version])
    <2>1. PICK version \in Versions : Edit([request EXCEPT !.version = version])
        BY <1>0
    <2>2. SortedRequest([request EXCEPT !.version = version])
        BY InputOptions, RequestIsSorted, RequestWith
    <2> QED
        BY <2>1, <2>2, EditKeeps
<1>1. CASE \E type \in DOMAIN Types : Edit([request EXCEPT !.type = Types[type]])
    <2>1. PICK type \in DOMAIN Types : Edit([request EXCEPT !.type = Types[type]])
        BY <1>1
    <2>2. Types[type] \in 0..3
        BY DEF Types
    <2>3. SortedRequest([request EXCEPT !.type = Types[type]])
        BY <2>2, RequestIsSorted, RequestWith
    <2> QED
        BY <2>1, <2>3, EditKeeps
<1>2. CASE \E payload \in Payloads : Edit([request EXCEPT !.payload = payload])
    <2>1. PICK payload \in Payloads : Edit([request EXCEPT !.payload = payload])
        BY <1>2
    <2>2. SortedRequest([request EXCEPT !.payload = payload])
        BY InputBytes, RequestIsSorted, RequestWith
    <2> QED
        BY <2>1, <2>2, EditKeeps
<1>3. CASE \E token \in UserTokens : Edit([request EXCEPT !.token = token])
    <2>1. PICK token \in UserTokens : Edit([request EXCEPT !.token = token])
        BY <1>3
    <2>2. SortedRequest([request EXCEPT !.token = token])
        BY InputBytes, RequestIsSorted, RequestWith
    <2> QED
        BY <2>1, <2>2, EditKeeps
<1> QED
    BY <1>0, <1>1, <1>2, <1>3 DEF EditMessage

\* A new reply, for a request the client accepts.
LEMMA SendKeeps ==
    ASSUME RequestInv, NEW r, Created(r, secure), NEW discovery, NEW asked,
           ~IsEmpty(asked) => AdjustedUrl(asked, secure) = r.url,
           Send(r, discovery, asked)
    PROVE  RequestInv'
<1> DEFINE new == [request |-> r, discovery |-> discovery, asked |-> asked,
                   message |-> EmptyMessage("NonConfirmable", 0),
                   finished |-> FALSE, aborted |-> FALSE, error |-> FALSE,
                   resources |-> <<>>, answered |-> <<>>]
<1>1. /\ Accepts(r) /\ replies' = Append(replies, new) /\ calls' = Append(calls, Len(replies) + 1)
      /\ UNCHANGED <<secure, request, edits, exchanges, answers>>
    BY DEF Send
<1>2. new.request = r /\ new.asked = asked /\ DOMAIN new = ReplyFields
    BY DEF ReplyFields
<1> HIDE DEF new
<1>3. PICK S : replies \in Seq(S)
    BY DEF RequestInv, RepliesListed
<1>4. /\ Len(replies) \in Nat /\ DOMAIN replies = 1..Len(replies)
      /\ replies' \in Seq(S \cup {new}) /\ DOMAIN replies' = 1..(Len(replies) + 1)
      /\ replies'[Len(replies) + 1] = new
      /\ \A n \in 1..Len(replies) : replies'[n] = replies[n]
    <2>1. replies \in Seq(S \cup {new})
        BY <1>3, SeqMonotonic
    <2> QED
        BY <1>1, <1>3, <2>1
<1>5. SortedRequest(r) /\ Prepared(r)
    BY <1>1, RequestIsSorted, AcceptedIsPrepared DEF Created
<1>6. ASSUME NEW n \in DOMAIN replies'
      PROVE  \/ n \in DOMAIN replies /\ replies'[n] = replies[n]
             \/ replies'[n] = new
    <2>1. CASE n = Len(replies) + 1
        BY <1>4, <2>1
    <2>2. CASE n # Len(replies) + 1
        <3>1. n \in 1..Len(replies)
            BY <1>4, <2>2
        <3> QED
            BY <1>4, <3>1
    <2> QED
        BY <2>1, <2>2
<1>7. TypeOK'
    <2>1. calls' \in Seq(DOMAIN replies')
        <3>1. calls \in Seq(DOMAIN replies')
            <4>1. DOMAIN replies \subseteq DOMAIN replies' /\ calls \in Seq(DOMAIN replies)
                BY <1>4 DEF RequestInv, TypeOK
            <4> QED
                BY <4>1, SeqMonotonic
        <3>2. Len(replies) + 1 \in DOMAIN replies'
            BY <1>4
        <3> QED
            BY <1>1, <3>1, <3>2
    <2>2. \A n \in DOMAIN replies' : replies'[n].request \in QCoapRequests
        BY <1>2, <1>5, <1>6 DEF RequestInv, TypeOK, SortedRequest
    <2> QED
        BY <1>1, <2>1, <2>2 DEF RequestInv, TypeOK
<1>8. OptionsSorted'
    <2>1. \A n \in DOMAIN replies' :
             replies'[n].request.ordered => Sorted(replies'[n].request.options)
        BY <1>2, <1>5, <1>6 DEF RequestInv, OptionsSorted, SortedRequest
    <2>2. \A t \in DOMAIN exchanges :
             exchanges[t].reply \in DOMAIN replies /\ replies'[exchanges[t].reply] = replies[exchanges[t].reply]
        BY <1>4 DEF RequestInv, ExchangesOwned
    <2> QED
        BY <1>1, <2>1, <2>2 DEF RequestInv, OptionsSorted
<1>9. RepliesListed'
    <2>1. \A n \in DOMAIN replies' : DOMAIN replies'[n] = ReplyFields
        BY <1>2, <1>6 DEF RequestInv, RepliesListed
    <2> QED
        BY <1>4, <2>1 DEF RepliesListed
<1>12. ExchangesOwned'
    BY <1>1, <1>4 DEF RequestInv, ExchangesOwned
<1>10. RequestsPrepared'
    <2>1. \A n \in DOMAIN replies' : Prepared(replies'[n].request)
        BY <1>2, <1>5, <1>6 DEF RequestInv, RequestsPrepared
    <2> QED
        BY <2>1 DEF RequestsPrepared
<1>11. ObservationFoundByUrl'
    <2>1. \A n \in DOMAIN replies' : ~IsEmpty(replies'[n].asked) =>
             AdjustedUrl(replies'[n].asked, secure) = replies'[n].request.url
        BY <1>2, <1>6 DEF RequestInv, ObservationFoundByUrl
    <2> QED
        BY <1>1, <2>1 DEF ObservationFoundByUrl
<1> QED
    BY <1>7, <1>8, <1>9, <1>10, <1>11, <1>12 DEF RequestInv

\* The URL of a discovery.
LEMMA JoinedType == \A path \in Seq(Texts) : Joined(path, DiscoveryPath) \in Seq(Texts)
<1> TAKE path \in Seq(Texts)
<1>1. DiscoveryPath \in Seq(Texts) /\ Tail(DiscoveryPath) \in Seq(Texts)
    BY InputPath, HeadTailProperties
<1>2. path \o Tail(DiscoveryPath) \in Seq(Texts)
    BY <1>1, ConcatProperties
<1> QED
    BY <1>1, <1>2 DEF Joined

\* A discovery asks for a URL made of the user's, or of the group.
LEMMA DiscoveryUrls ==
    ASSUME Discover
    PROVE  \E url : url \in URLs /\ Send(CreateRequest(NewRequest(url), "Get"), TRUE, NoUrl)
<1>1. CASE \E url \in Urls :
             /\ ~IsEmpty(url)
             /\ Send(CreateRequest(NewRequest([url EXCEPT !.path = Joined(@, DiscoveryPath)]), "Get"),
                     TRUE, NoUrl)
    <2>1. PICK url \in Urls :
             Send(CreateRequest(NewRequest([url EXCEPT !.path = Joined(url.path, DiscoveryPath)]), "Get"),
                  TRUE, NoUrl)
        BY <1>1
    <2>2. url \in URLs /\ Joined(url.path, DiscoveryPath) \in Seq(Texts)
        BY InputUrls, JoinedType DEF URLs
    <2>3. [url EXCEPT !.path = Joined(url.path, DiscoveryPath)] \in URLs
        BY <2>2 DEF URLs
    <2> QED
        BY <2>1, <2>3
<1>2. CASE \E group \in Groups, port \in DiscoveryPorts :
             Send(CreateRequest(NewRequest([NoUrl EXCEPT !.valid = TRUE, !.host = group, !.port = port,
                                                         !.path = DiscoveryPath]), "Get"), TRUE, NoUrl)
    <2>1. PICK group \in Groups, port \in DiscoveryPorts :
             Send(CreateRequest(NewRequest([NoUrl EXCEPT !.valid = TRUE, !.host = group, !.port = port,
                                                         !.path = DiscoveryPath]), "Get"), TRUE, NoUrl)
        BY <1>2
    <2>2. group \in Texts
        BY TextAssumption
    <2>3. port \in UInt16 /\ DiscoveryPath \in Seq(Texts)
        BY InputNumbers, InputPath
    <2>4. [NoUrl EXCEPT !.valid = TRUE, !.host = group, !.port = port, !.path = DiscoveryPath] \in URLs
        BY <2>2, <2>3, NoUrlType DEF URLs
    <2> QED
        BY <2>1, <2>4
<1> QED
    BY <1>1, <1>2 DEF Discover

LEMMA OperationKeeps == ASSUME RequestInv, Operation PROVE RequestInv'
<1>1. SortedRequest(request) /\ secure \in BOOLEAN
    BY RequestIsSorted
<1>2. /\ "Get" \in DOMAIN Methods /\ "Put" \in DOMAIN Methods
      /\ "Post" \in DOMAIN Methods /\ "Delete" \in DOMAIN Methods
    BY DEF Methods
<1>3. ASSUME NEW r, Created(r, secure), NEW discovery, Send(r, discovery, NoUrl) PROVE RequestInv'
    <2>1. IsEmpty(NoUrl)
        BY DEF IsEmpty
    <2> QED
        BY <1>3, <2>1, SendKeeps
<1>4. ASSUME NEW r, Created(r, secure), NEW data \in Payloads PROVE Created(WithData(r, data), secure)
    <2>1. SortedRequest([r EXCEPT !.payload = data])
        BY <1>4, InputBytes, RequestWith DEF Created
    <2>2. [r EXCEPT !.payload = data].code = r.code /\ [r EXCEPT !.payload = data].url = r.url
        BY <1>4 DEF Created, SortedRequest, QCoapRequests
    <2>3. Created([r EXCEPT !.payload = data], secure)
        BY <1>4, <2>1, <2>2 DEF Created
    <2> QED
        BY <1>4, <2>3 DEF WithData
<1>5. CASE Get
    BY <1>1, <1>2, <1>3, <1>5, CreatedType DEF Get
<1>6. CASE Put
    <2>1. PICK data \in Payloads : Send(WithData(CreateRequest(request, "Put"), data), FALSE, NoUrl)
        BY <1>6 DEF Put
    <2>2. Created(WithData(CreateRequest(request, "Put"), data), secure)
        BY <1>1, <1>2, <1>4, CreatedType
    <2> QED
        BY <1>3, <2>1, <2>2
<1>7. CASE Post
    <2>1. PICK data \in Payloads : Send(WithData(CreateRequest(request, "Post"), data), FALSE, NoUrl)
        BY <1>7 DEF Post
    <2>2. Created(WithData(CreateRequest(request, "Post"), data), secure)
        BY <1>1, <1>2, <1>4, CreatedType
    <2> QED
        BY <1>3, <2>1, <2>2
<1>8. CASE DeleteResource
    BY <1>1, <1>2, <1>3, <1>8, CreatedType DEF DeleteResource
<1>9. CASE Observe
    <2>1. CASE Send(Observed(request), FALSE, NoUrl)
        BY <1>1, <1>3, <2>1, ObservedType
    <2>2. CASE \E url \in Urls : Send(Observed(NewRequest(url)), FALSE, url)
        <3>1. PICK url \in Urls : Send(Observed(NewRequest(url)), FALSE, url)
            BY <2>2
        <3> DEFINE r == NewRequest(url)
                   a == AdjustedUrl(SetUrl(NoUrl, url), secure)
        <3>2. url \in URLs /\ SortedRequest(r)
            BY InputUrls, NewRequestType
        <3>3. r.url = SetUrl(NoUrl, url)
            BY DEF NewRequest
        <3> HIDE DEF r
        <3>4. Created(Observed(r), secure) /\ Observed(r).url = AdjustedUrl(a, secure)
            BY <1>1, <3>2, <3>3, ObservedType
        <3>5. Observed(r).url = a
            BY <1>1, <3>2, <3>4, SetUrlType, NoUrlType, AdjustedTwice
        <3>6. Observed(r).url.scheme = IF secure THEN "coaps" ELSE "coap"
            BY <3>1 DEF Send, Accepts, r
        <3>7. AdjustedUrl(url, secure) = Observed(r).url
            BY <1>1, <3>2, <3>5, <3>6, AdjustedAsSet
        <3> QED
            BY <3>1, <3>4, <3>7, SendKeeps DEF r
    <2> QED
        BY <1>9, <2>1, <2>2 DEF Observe
<1>10. CASE Discover
    <2>1. ASSUME NEW url \in URLs PROVE Created(CreateRequest(NewRequest(url), "Get"), secure)
        BY <1>1, <1>2, NewRequestType, CreatedType
    <2>2. PICK url : url \in URLs /\ Send(CreateRequest(NewRequest(url), "Get"), TRUE, NoUrl)
        BY <1>10, DiscoveryUrls
    <2> QED
        BY <1>3, <2>1, <2>2
<1> QED
    BY <1>5, <1>6, <1>7, <1>8, <1>9, <1>10 DEF Operation

\* The requests of the replies, and what the worker keeps of them.
RepliesKept ==
    /\ \E S : replies' \in Seq(S)
    /\ DOMAIN replies' = DOMAIN replies
    /\ \A n \in DOMAIN replies : /\ DOMAIN replies'[n] = ReplyFields
                                 /\ replies'[n].request = replies[n].request
                                 /\ replies'[n].asked = replies[n].asked

ExchangesTyped ==
    /\ <<>> \notin DOMAIN exchanges
    /\ \A t \in DOMAIN exchanges :
          /\ exchanges[t].message \in Messages /\ exchanges[t].message.token = t
          /\ exchanges[t].reply \in DOMAIN replies
          /\ replies[exchanges[t].reply].request.ordered => Sorted(exchanges[t].message.options)

LEMMA WorkerKeeps ==
    ASSUME RequestInv, RepliesKept, UNCHANGED <<secure, request, edits>>,
           answers' \in 0..MaxAnswers, calls' \in Seq(DOMAIN replies), ExchangesTyped'
    PROVE  RequestInv'
<1>1. TypeOK'
    BY DEF RequestInv, TypeOK, RepliesKept, ExchangesTyped
<1>2. OptionsSorted'
    BY DEF RequestInv, OptionsSorted, RepliesKept, ExchangesTyped
<1>3. RepliesListed' /\ ExchangesOwned' /\ RequestsPrepared' /\ ObservationFoundByUrl'
    BY DEF RequestInv, RepliesListed, ExchangesOwned, RequestsPrepared, ObservationFoundByUrl,
           RepliesKept, ExchangesTyped
<1> QED
    BY <1>1, <1>2, <1>3 DEF RequestInv

LEMMA InvParts ==
    ASSUME RequestInv
    PROVE  /\ ExchangesTyped /\ answers \in 0..MaxAnswers /\ calls \in Seq(DOMAIN replies)
           /\ UNCHANGED replies => RepliesKept
BY DEF RequestInv, TypeOK, OptionsSorted, ExchangesOwned, ExchangesTyped, RepliesListed, RepliesKept

\* A change of one reply that leaves its request alone.
LEMMA ReplyChanged ==
    ASSUME RequestInv, NEW m, NEW x, replies' = [replies EXCEPT ![m] = x],
           m \in DOMAIN replies => /\ DOMAIN x = ReplyFields
                                   /\ x.request = replies[m].request /\ x.asked = replies[m].asked
    PROVE  RepliesKept
<1>1. PICK S : replies \in Seq(S)
    BY DEF RequestInv, RepliesListed
<1>2. replies' \in Seq(S \cup {x})
    <2>1. replies \in Seq(S \cup {x})
        BY <1>1, SeqMonotonic
    <2>2. CASE m \in 1..Len(replies)
        BY <2>1, <2>2, ExceptSeq
    <2>3. CASE m \notin 1..Len(replies)
        <3>1. replies' = replies
            BY <1>1, <2>3
        <3> QED
            BY <2>1, <3>1
    <2> QED
        BY <2>2, <2>3
<1>3. /\ DOMAIN replies' = DOMAIN replies
      /\ \A n \in DOMAIN replies : replies'[n] = IF n = m THEN x ELSE replies[n]
    OBVIOUS
<1> QED
    BY <1>2, <1>3 DEF RepliesKept, RequestInv, RepliesListed

\* A change of fields other than the request and the URL asked for.
LEMMA FieldsChanged ==
    ASSUME RequestInv, NEW m \in DOMAIN replies
    PROVE  /\ \A v : LET x == [replies[m] EXCEPT !.answered = v]
                     IN DOMAIN x = ReplyFields /\ x.request = replies[m].request /\ x.asked = replies[m].asked
           /\ LET x == [replies[m] EXCEPT !.finished = TRUE]
              IN DOMAIN x = ReplyFields /\ x.request = replies[m].request /\ x.asked = replies[m].asked
           /\ LET x == [replies[m] EXCEPT !.finished = TRUE, !.aborted = TRUE]
              IN DOMAIN x = ReplyFields /\ x.request = replies[m].request /\ x.asked = replies[m].asked
           /\ \A e : LET x == SetContent(replies[m], e)
                     IN DOMAIN x = ReplyFields /\ x.request = replies[m].request /\ x.asked = replies[m].asked
<1>1. DOMAIN replies[m] = ReplyFields
    BY DEF RequestInv, RepliesListed
<1>2. "request" \in ReplyFields /\ "asked" \in ReplyFields
    BY DEF ReplyFields
<1> DEFINE reply == replies[m]
<1>3. \A v : LET x == [reply EXCEPT !.answered = v]
             IN DOMAIN x = ReplyFields /\ x.request = reply.request /\ x.asked = reply.asked
    BY <1>1, <1>2
<1>4. LET x == [reply EXCEPT !.finished = TRUE]
      IN DOMAIN x = ReplyFields /\ x.request = reply.request /\ x.asked = reply.asked
    BY <1>1, <1>2
<1>5. LET x == [reply EXCEPT !.finished = TRUE, !.aborted = TRUE]
      IN DOMAIN x = ReplyFields /\ x.request = reply.request /\ x.asked = reply.asked
    BY <1>1, <1>2
<1>6. ASSUME NEW e
      PROVE  LET x == SetContent(reply, e)
             IN DOMAIN x = ReplyFields /\ x.request = reply.request /\ x.asked = reply.asked
    <2>1. CASE reply.finished
        BY <1>1, <2>1 DEF SetContent
    <2>2. CASE ~reply.finished /\ IsError(e.message.code)
        <3>1. SetContent(reply, e) = [reply EXCEPT !.message = e.message, !.error = TRUE]
            BY <2>2 DEF SetContent
        <3> QED
            BY <1>1, <1>2, <3>1
    <2>3. CASE ~reply.finished /\ ~IsError(e.message.code) /\ ~reply.discovery
        <3>1. SetContent(reply, e) = [reply EXCEPT !.message = e.message]
            BY <2>3 DEF SetContent
        <3> QED
            BY <1>1, <1>2, <3>1
    <2>4. CASE ~reply.finished /\ ~IsError(e.message.code) /\ reply.discovery
        <3> DEFINE all == reply.resources \o
                              ResourcesFromCoreLinkList(e.sender, Document(Links[e.message.payload]))
        <3>1. SetContent(reply, e) = [reply EXCEPT !.message = e.message, !.resources = all]
            BY <2>4 DEF SetContent
        <3> HIDE DEF all
        <3> QED
            BY <1>1, <1>2, <3>1
    <2> QED
        BY <2>1, <2>2, <2>3, <2>4
<1> QED
    BY <1>3, <1>4, <1>5, <1>6

\* QCoapProtocol::sendRequest: the options of the message are those of the request and of its URL.
LEMMA StartRequestKeeps == ASSUME RequestInv, StartRequest PROVE RequestInv' /\ RepliesKept
<1>1. /\ calls # <<>> /\ calls' = Tail(calls)
      /\ UNCHANGED <<secure, request, edits, replies, answers, posted>>
    BY DEF StartRequest
<1>2. /\ ExchangesTyped /\ answers \in 0..MaxAnswers /\ calls \in Seq(DOMAIN replies) /\ RepliesKept
    BY <1>1, InvParts
<1>3. calls' \in Seq(DOMAIN replies)
    BY <1>1, <1>2, HeadTailProperties
<1> DEFINE n == Head(calls)
           r == replies[n].request
           uri == AddUriOptions(r.options, r.url, r.proxyUrl)
<1>4. n \in DOMAIN replies
    BY <1>1, <1>2, HeadTailProperties
<1>5. SortedRequest(r) /\ Prepared(r)
    BY <1>4 DEF RequestInv, TypeOK, OptionsSorted, SortedRequest, RequestsPrepared
<1>6. r.ordered \in BOOLEAN /\ uri.options \in ListsOf(r.ordered)
    BY <1>5, RequestWith, AddUriOptionsKeepsOrder DEF Prepared
<1>7. CASE UNCHANGED exchanges
    <2>1. ExchangesTyped'
        BY <1>1, <1>2, <1>7 DEF ExchangesTyped
    <2> QED
        BY <1>1, <1>2, <1>3, <2>1, WorkerKeeps
<1>8. CASE ~ UNCHANGED exchanges
    <2>1. PICK id \in FreeIds, token \in TokensFor(r) :
            exchanges' = [t \in DOMAIN exchanges \cup {token} |->
                             IF t = token
                             THEN [reply |-> n, targetUri |-> uri.targetUri,
                                   message |-> [version |-> r.version, type |-> r.type, code |-> r.code,
                                                messageId |-> id, token |-> token,
                                                options |-> uri.options, payload |-> r.payload]]
                             ELSE exchanges[t]]
        BY <1>8 DEF StartRequest
    <2> HIDE DEF uri, r, n
    <2> DEFINE m == [version |-> r.version, type |-> r.type, code |-> r.code, messageId |-> id, token |-> token,
                     options |-> uri.options, payload |-> r.payload]
    <2>2. token \in Seq(Byte) /\ token # <<>>
        BY <1>5, InputBytes DEF TokensFor, FreeTokens, SortedRequest, QCoapRequests
    <2>3. id \in UInt16
        BY InputNumbers DEF FreeIds
    <2>4. m \in Messages /\ m.token = token /\ (r.ordered => Sorted(m.options))
        <3>1. r.version \in Byte /\ r.type \in 0..3 /\ r.code \in 0..4 /\ r.payload \in Seq(Byte)
            BY <1>5 DEF SortedRequest, QCoapRequests
        <3>2. r.code \in Byte
            BY <3>1 DEF Byte
        <3> QED
            BY <1>6, <2>2, <2>3, <3>1, <3>2 DEF Messages, ListsOf
    <2>5. /\ DOMAIN exchanges' = DOMAIN exchanges \cup {token}
          /\ exchanges'[token].message = m /\ exchanges'[token].reply = n
          /\ \A t \in DOMAIN exchanges : t # token => exchanges'[t] = exchanges[t]
        BY <2>1
    <2> HIDE DEF m
    <2>6. ExchangesTyped'
        <3>1. n \in DOMAIN replies' /\ replies'[n].request.ordered = r.ordered /\ UNCHANGED replies
            BY <1>1, <1>4 DEF r
        <3> QED
            BY <1>2, <2>2, <2>4, <2>5, <3>1 DEF ExchangesTyped
    <2> QED
        BY <1>1, <1>2, <1>3, <2>6, WorkerKeeps
<1> QED
    BY <1>2, <1>7, <1>8

\* Exchanges stay or go; the requests of the replies stay.
LEMMA ForgetKeeps ==
    ASSUME ExchangesTyped, RepliesKept, NEW token, Forget(token) \/ UNCHANGED exchanges
    PROVE  ExchangesTyped'
BY DEF ExchangesTyped, Forget, RepliesKept

LEMMA OnFrameReceivedKeeps == ASSUME RequestInv, OnFrameReceived PROVE RequestInv' /\ RepliesKept
<1>1. /\ answers < MaxAnswers /\ answers' = answers + 1
      /\ UNCHANGED <<secure, request, edits, calls>>
    BY DEF OnFrameReceived
<1>2. PICK token, sender, answer : token \in DOMAIN exchanges /\ Receive(token, sender, answer)
    BY DEF OnFrameReceived
<1> DEFINE v == [sender |-> sender, code |-> answer.code, payload |-> answer.payload]
<1>3. /\ replies' = [replies EXCEPT ![exchanges[token].reply].answered = Append(@, v)]
      /\ Forget(token) \/ UNCHANGED exchanges
    BY <1>2 DEF Receive
<1> HIDE DEF v
<1> DEFINE m == exchanges[token].reply
           x == [replies[m] EXCEPT !.answered = Append(replies[m].answered, v)]
<1>4. replies' = [replies EXCEPT ![m] = x]
    BY <1>3
<1>5. m \in DOMAIN replies => /\ DOMAIN x = ReplyFields
                              /\ x.request = replies[m].request /\ x.asked = replies[m].asked
    BY FieldsChanged
<1> HIDE DEF x, m
<1>6. RepliesKept
    BY <1>4, <1>5, ReplyChanged
<1>7. ExchangesTyped' /\ calls' \in Seq(DOMAIN replies)
    BY <1>1, <1>3, <1>6, InvParts, ForgetKeeps
<1>8. answers' \in 0..MaxAnswers
    BY <1>1, InvParts, InputNumbers
<1> QED
    BY <1>1, <1>6, <1>7, <1>8, WorkerKeeps

LEMMA OnMulticastRequestExpiredKeeps ==
    ASSUME RequestInv, OnMulticastRequestExpired
    PROVE  RequestInv' /\ RepliesKept
<1>1. UNCHANGED <<secure, request, edits, replies, calls, answers>> /\ \E token : Forget(token)
    BY DEF OnMulticastRequestExpired
<1>2. ExchangesTyped' /\ RepliesKept /\ calls' \in Seq(DOMAIN replies) /\ answers' \in 0..MaxAnswers
    BY <1>1, InvParts, ForgetKeeps
<1> QED
    BY <1>1, <1>2, WorkerKeeps

LEMMA HandlePostedKeeps == ASSUME RequestInv, HandlePosted PROVE RequestInv' /\ RepliesKept
<1>1. UNCHANGED <<secure, request, edits, calls, exchanges, answers>>
    BY DEF HandlePosted
<1> DEFINE e == Head(posted)
           x == IF e.op = "setContent" THEN SetContent(replies[e.reply], e)
                ELSE [replies[e.reply] EXCEPT !.finished = TRUE]
<1>2. replies' = [replies EXCEPT ![e.reply] = x]
    BY DEF HandlePosted
<1> HIDE DEF e
<1>3. e.reply \in DOMAIN replies =>
         /\ DOMAIN x = ReplyFields
         /\ x.request = replies[e.reply].request /\ x.asked = replies[e.reply].asked
    BY FieldsChanged
<1> HIDE DEF x
<1>4. RepliesKept
    BY <1>2, <1>3, ReplyChanged
<1>5. ExchangesTyped' /\ calls' \in Seq(DOMAIN replies) /\ answers' \in 0..MaxAnswers
    BY <1>1, <1>4, InvParts, ForgetKeeps
<1> QED
    BY <1>1, <1>4, <1>5, WorkerKeeps

LEMMA AbortRequestKeeps == ASSUME RequestInv, AbortRequest PROVE RequestInv' /\ RepliesKept
<1>1. UNCHANGED <<secure, request, edits, calls, exchanges, answers>>
    BY DEF AbortRequest
<1>2. PICK n \in DOMAIN replies :
         replies' = [replies EXCEPT ![n].finished = TRUE, ![n].aborted = TRUE]
    BY DEF AbortRequest
<1> DEFINE x == [replies[n] EXCEPT !.finished = TRUE, !.aborted = TRUE]
<1>3. replies' = [replies EXCEPT ![n] = x]
    BY <1>2
<1>4. DOMAIN x = ReplyFields /\ x.request = replies[n].request /\ x.asked = replies[n].asked
    BY FieldsChanged
<1> HIDE DEF x
<1>5. RepliesKept
    BY <1>3, <1>4, ReplyChanged
<1>6. ExchangesTyped' /\ calls' \in Seq(DOMAIN replies) /\ answers' \in 0..MaxAnswers
    BY <1>1, <1>5, InvParts, ForgetKeeps
<1> QED
    BY <1>1, <1>5, <1>6, WorkerKeeps

LEMMA InitRequests == ASSUME Init PROVE RequestInv
<1>1. SortedRequest(request) /\ secure \in BOOLEAN /\ edits = 0 /\ answers = 0
    BY NoUrlType, NewRequestType DEF Init
<1>2. replies = <<>> /\ calls = <<>> /\ exchanges = <<>>
    BY DEF Init
<1>3. DOMAIN replies = {} /\ DOMAIN exchanges = {} /\ calls \in Seq(DOMAIN replies) /\ replies \in Seq({})
    BY <1>2, EmptySeq
<1>4. edits \in 0..MaxEdits /\ answers \in 0..MaxAnswers
    BY <1>1, InputNumbers
<1> QED
    BY <1>1, <1>3, <1>4
    DEF RequestInv, TypeOK, OptionsSorted, RepliesListed, ExchangesOwned, RequestsPrepared,
        ObservationFoundByUrl, SortedRequest

LEMMA StepRequests == ASSUME RequestInv, [Next]_vars PROVE RequestInv'
<1>1. CASE EditUrl
    BY <1>1, EditUrlKeeps
<1>2. CASE EditOptions
    BY <1>2, EditOptionsKeeps
<1>3. CASE EditMessage
    BY <1>3, EditMessageKeeps
<1>4. CASE Operation
    BY <1>4, OperationKeeps
<1>5. CASE StartRequest
    BY <1>5, StartRequestKeeps
<1>6. CASE OnFrameReceived
    BY <1>6, OnFrameReceivedKeeps
<1>7. CASE OnMulticastRequestExpired
    BY <1>7, OnMulticastRequestExpiredKeeps
<1>8. CASE HandlePosted
    BY <1>8, HandlePostedKeeps
<1>9. CASE AbortRequest
    BY <1>9, AbortRequestKeeps
<1>10. CASE UNCHANGED vars
    BY <1>10 DEF vars, RequestInv, TypeOK, OptionsSorted, RepliesListed, ExchangesOwned,
               RequestsPrepared, ObservationFoundByUrl
<1> QED
    BY <1>1, <1>2, <1>3, <1>4, <1>5, <1>6, <1>7, <1>8, <1>9, <1>10 DEF Next

LEMMA RequestsInvariant == Spec => []RequestInv
<1> QED
    BY InitRequests, StepRequests, PTL DEF Spec

\* Requests, messages, tokens and posted calls stay in their types.
THEOREM TypeCorrect == Spec => []TypeOK
<1>1. RequestInv => TypeOK
    BY DEF RequestInv
<1> QED
    BY <1>1, RequestsInvariant, PTL

\* addOption, removeOption, addUriOptions: whatever the user adds and removes, in whatever order,
\* and whatever the URL adds, the options are in order as toQByteArray wants them; lists of any
\* order are set, and only the options of those that were not in order may be out of it.
THEOREM OptionsStaySorted == Spec => []OptionsSorted
<1>1. RequestInv => OptionsSorted
    BY DEF RequestInv
<1> QED
    BY <1>1, RequestsInvariant, PTL

\* cancelObserve(url) compares with the URL that observe(url) left in the reply, for every URL.
THEOREM ObservationsFound == Spec => []ObservationFoundByUrl
<1>1. RequestInv => ObservationFoundByUrl
    BY DEF RequestInv
<1> QED
    BY <1>1, RequestsInvariant, PTL

(***************************************************************************)
(* What is sent and what is received.                                      *)
(***************************************************************************)

\* The inputs fit into frames: options in the range of the one byte of extension, tokens in
\* their four bits and versions in their two.
InputsFit ==
    /\ UserOptions \subseteq ShortOptions /\ Versions \subseteq 0..3
    /\ OptionLists \cup AnswerOptions \subseteq Seq(ShortOptions)
    /\ \A t \in Texts : Len(Utf8[t]) <= 268
    /\ \A url \in Proxies : IsUrlValid(url) => Len(UrlText(url)) <= 268
    /\ \A token \in UserTokens \cup Tokens : Len(token) <= 15

LEMMA ShortText == ASSUME InputsFit, NEW t \in Texts PROVE Utf8[t] \in Seq(Byte) /\ Len(Utf8[t]) <= 268
    BY Utf8Type DEF InputsFit

LEMMA ShortTextOptions ==
    ASSUME InputsFit, NEW name \in {"UriPath", "UriQuery"}, NEW texts \in Seq(Texts)
    PROVE  TextOptions(name, texts) \in ShortLists
<1>1. \A v \in ShortLists, i \in 1..Len(texts) : WithText(v, texts[i], name) \in ShortLists
    <2> TAKE v \in ShortLists, i \in 1..Len(texts)
    <2>1. texts[i] \in Texts
        BY ElementOfSeq
    <2>2. Option(name, Utf8[texts[i]]) \in ShortOptions
        BY <2>1, ShortText, ShortOption
    <2>3. Append(v, Option(name, Utf8[texts[i]])) \in ShortLists
        BY <2>2, AppendProperties DEF ShortLists
    <2> QED
        BY <2>3 DEF WithText
<1>2. PICK F : Worded(ShortLists, name, texts, TextOptions(name, texts), F)
    BY <1>1, ShortEmpty, TextOptionsSteps
<1>3. Len(texts) \in Nat
    BY LenProperties
<1> QED
    BY <1>2, <1>3 DEF Worded

LEMMA ShortUriOptions ==
    ASSUME InputsFit, NEW url \in URLs, url.port \in UInt16
    PROVE  UriOptions(url) \in ShortLists
<1>1. url.host \in Texts /\ url.path \in Seq(Texts) /\ url.query \in Seq(Texts)
    BY DEF URLs
<1>2. UriHostOption(url) \in ShortLists
    <2>1. Option("UriHost", Utf8[url.host]) \in ShortOptions
        BY <1>1, ShortText, ShortOption
    <2> QED
        BY <2>1, ShortOne, ShortEmpty DEF UriHostOption
<1> DEFINE port == IF url.port \in {DefaultPort, DefaultSecurePort} THEN <<>>
                   ELSE <<Option("UriPort", UintBytes(url.port))>>
<1>3. port \in ShortLists
    <2>1. /\ UintBytes(url.port) \in Seq(Byte)
          /\ Len(UintBytes(url.port)) \in Nat /\ Len(UintBytes(url.port)) <= 2
        BY UintOf16Bits, LenProperties
    <2>2. Option("UriPort", UintBytes(url.port)) \in ShortOptions
        BY <2>1, ShortOption
    <2> QED
        BY <2>2, ShortOne, ShortEmpty
<1>4. TextOptions("UriPath", url.path) \in ShortLists /\ TextOptions("UriQuery", url.query) \in ShortLists
    BY <1>1, ShortTextOptions
<1> DEFINE path == TextOptions("UriPath", url.path)
           query == TextOptions("UriQuery", url.query)
<1>5. UriOptions(url) = UriHostOption(url) \o port \o path \o query
    BY DEF UriOptions
<1> HIDE DEF port, path, query
<1>6. path \in ShortLists /\ query \in ShortLists
    BY <1>4 DEF path, query
<1>7. UriHostOption(url) \o port \in ShortLists
    BY <1>2, <1>3, ShortConcat
<1>8. UriHostOption(url) \o port \o path \in ShortLists
    BY <1>6, <1>7, ShortConcat
<1> QED
    BY <1>5, <1>6, <1>8, ShortConcat

LEMMA ShortAddUriOptions ==
    ASSUME InputsFit, NEW options \in ShortLists, NEW url \in URLs, url.port \in UInt16,
           NEW proxy \in Proxies \cup {NoUrl}
    PROVE  AddUriOptions(options, url, proxy).options \in ShortLists
<1>1. CASE ~IsEmpty(proxy) /\ IsUrlValid(proxy)
    <2>1. proxy \in Proxies /\ proxy \in URLs
        BY <1>1, InputUrls DEF IsEmpty
    <2>2. UrlText(proxy) \in Seq(Byte) /\ Len(UrlText(proxy)) <= 268
        BY <1>1, <2>1, UrlTextType DEF InputsFit
    <2>3. AddOption(options, Option("ProxyUri", UrlText(proxy))) \in ShortLists
        BY <2>2, ShortOption, ShortAdd
    <2> QED
        BY <1>1, <2>3 DEF AddUriOptions
<1>2. CASE ~IsEmpty(proxy) /\ ~IsUrlValid(proxy)
    BY <1>2 DEF AddUriOptions
<1>3. CASE IsEmpty(proxy)
    <2> DEFINE uri == Normalized(url)
    <2>1. NormalizedPath(url.path) \in Seq(Texts)
        BY NormalizedPathType DEF URLs
    <2>2. uri \in URLs /\ uri.port \in UInt16
        BY <2>1 DEF Normalized, URLs
    <2> HIDE DEF uri
    <2>3. UriOptions(uri) \in ShortLists
        BY <2>2, ShortUriOptions
    <2>4. AddOptions(options, UriOptions(uri)) \in ShortLists
        BY <2>3, ShortAddAll
    <2> QED
        BY <1>3, <2>4 DEF AddUriOptions, uri
<1> QED
    BY <1>1, <1>2, <1>3

\* A request whose options, proxy and token fit into a frame.
Fits(r) ==
    /\ r.options \in ShortLists /\ r.proxyUrl \in Proxies \cup {NoUrl}
    /\ Len(r.token) <= 15 /\ r.version \in 0..3

RequestsFit == Fits(request) /\ \A n \in DOMAIN replies : Fits(replies[n].request)
TokensFit == \A t \in DOMAIN exchanges : Len(t) <= 15
HistoriesListed == (\E S : sent \in Seq(S)) /\ (\E S : posted \in Seq(S))

FrameInv == RequestInv /\ RequestsFit /\ TokensFit /\ HistoriesListed /\ FramesReadable /\ AnswersReadable

\* The user's thread sends no frame and posts no content.
LEMMA UserKeepsFrames ==
    ASSUME FrameInv, RequestInv', RequestsFit', UNCHANGED <<exchanges, sent, posted>>
    PROVE  FrameInv'
BY DEF FrameInv, TokensFit, HistoriesListed, FramesReadable, AnswersReadable

LEMMA EditFits ==
    ASSUME FrameInv, RequestInv', NEW changed, Fits(changed), Edit(changed)
    PROVE  FrameInv'
<1>1. RequestsFit' /\ UNCHANGED <<exchanges, sent, posted>>
    BY DEF Edit, FrameInv, RequestsFit
<1> QED
    BY <1>1, UserKeepsFrames

\* Replacing one field of a request.
LEMMA FitsWith ==
    ASSUME NEW r, SortedRequest(r), Fits(r)
    PROVE  /\ \A list \in ShortLists : Fits([r EXCEPT !.options = list]) /\ Fits(SetOptions(r, list))
           /\ \A version \in 0..3 : Fits([r EXCEPT !.version = version])
           /\ \A url : Fits([r EXCEPT !.url = url])
           /\ \A url \in Proxies : Fits([r EXCEPT !.proxyUrl = url])
           /\ \A payload : Fits([r EXCEPT !.payload = payload])
           /\ \A token \in UserTokens : Len(token) <= 15 => Fits([r EXCEPT !.token = token])
           /\ \A type : Fits([r EXCEPT !.type = type])
BY DEF SortedRequest, QCoapRequests, Fits, SetOptions

LEMMA ShortMark ==
    ASSUME NEW options \in ShortLists
    PROVE  EnableObserve(options) \in ShortLists
<1>1. <<>> \in Seq(Byte) /\ Len(<<>>) <= 268
    BY EmptySeq
<1>2. Option("Observe", <<>>) \in ShortOptions
    BY <1>1, ShortOption
<1> QED
    BY <1>2, ShortAdd DEF EnableObserve

LEMMA FrameInvRequest ==
    ASSUME FrameInv
    PROVE  /\ SortedRequest(request) /\ Fits(request) /\ secure \in BOOLEAN
           /\ request.ordered \in BOOLEAN /\ request.options \in ListsOf(request.ordered)
           /\ request.options \in ShortLists
<1>1. RequestInv /\ Fits(request)
    BY DEF FrameInv, RequestsFit
<1>2. SortedRequest(request) /\ secure \in BOOLEAN
    BY <1>1, RequestIsSorted
<1> QED
    BY <1>1, <1>2, RequestWith DEF Fits

LEMMA EditUrlFits == ASSUME FrameInv, RequestInv', EditUrl PROVE FrameInv'
<1>1. PICK changed : Edit(changed) /\ \/ \E url : changed = [request EXCEPT !.url = url]
                                      \/ \E url \in Proxies : changed = [request EXCEPT !.proxyUrl = url]
    BY DEF EditUrl
<1>2. SortedRequest(request) /\ Fits(request)
    BY FrameInvRequest
<1>3. /\ \A url : Fits([request EXCEPT !.url = url])
      /\ \A url \in Proxies : Fits([request EXCEPT !.proxyUrl = url])
    BY <1>2, FitsWith
<1>4. Fits(changed)
    BY <1>1, <1>3
<1> QED
    BY <1>1, <1>4, EditFits

LEMMA EditMessageFits == ASSUME InputsFit, FrameInv, RequestInv', EditMessage PROVE FrameInv'
<1>1. PICK changed : Edit(changed) /\ \/ \E type : changed = [request EXCEPT !.type = type]
                                      \/ \E version \in Versions : changed = [request EXCEPT !.version = version]
                                      \/ \E payload : changed = [request EXCEPT !.payload = payload]
                                      \/ \E token \in UserTokens : changed = [request EXCEPT !.token = token]
    BY DEF EditMessage
<1>2. (\A token \in UserTokens : Len(token) <= 15) /\ Versions \subseteq 0..3
    BY DEF InputsFit
<1>3. SortedRequest(request) /\ Fits(request)
    BY FrameInvRequest
<1>4. /\ \A version \in 0..3 : Fits([request EXCEPT !.version = version])
      /\ \A payload : Fits([request EXCEPT !.payload = payload])
      /\ \A token \in UserTokens : Len(token) <= 15 => Fits([request EXCEPT !.token = token])
      /\ \A type : Fits([request EXCEPT !.type = type])
    BY <1>3, FitsWith
<1>5. Fits(changed)
    BY <1>1, <1>2, <1>4
<1> QED
    BY <1>1, <1>5, EditFits

LEMMA EditOptionsFits == ASSUME InputsFit, FrameInv, RequestInv', EditOptions PROVE FrameInv'
<1>1. /\ SortedRequest(request) /\ Fits(request)
      /\ request.ordered \in BOOLEAN /\ request.options \in ListsOf(request.ordered)
      /\ request.options \in ShortLists
    BY FrameInvRequest
<1>2. ASSUME NEW list \in ShortLists, Edit([request EXCEPT !.options = list]) PROVE FrameInv'
    <2>1. Fits([request EXCEPT !.options = list])
        BY <1>1, FitsWith
    <2> QED
        BY <1>2, <2>1, EditFits
<1>3. CASE \E option \in UserOptions : Edit([request EXCEPT !.options = AddOption(@, option)])
    <2>1. PICK option \in UserOptions :
            Edit([request EXCEPT !.options = AddOption(request.options, option)])
        BY <1>3
    <2>2. option \in ShortOptions
        BY DEF InputsFit
    <2> QED
        BY <1>1, <1>2, <2>1, <2>2, ShortAdd
<1>4. CASE \E option \in UserOptions : Edit([request EXCEPT !.options = RemoveOption(@, option)])
    <2>1. PICK option \in UserOptions :
            Edit([request EXCEPT !.options = RemoveOption(request.options, option)])
        BY <1>4
    <2>2. /\ RemoveOption(request.options, option) \in ListsOf(request.ordered)
          /\ From(RemoveOption(request.options, option), request.options)
        BY <1>1, RemoveOptionKeepsOrder
    <2>3. RemoveOption(request.options, option) \in Seq(CoapOptions)
        BY <2>2 DEF ListsOf
    <2>4. RemoveOption(request.options, option) \in ShortLists
        BY <1>1, <2>2, <2>3, ShortFrom
    <2> QED
        BY <1>2, <2>1, <2>4
<1>5. CASE \E name \in {"Observe", "Etag"} :
             Edit([request EXCEPT !.options = RemoveOptionsNamed(@, name)])
    <2>1. PICK name \in {"Observe", "Etag"} :
            Edit([request EXCEPT !.options = RemoveOptionsNamed(request.options, name)])
        BY <1>5
    <2>2. /\ RemoveOptionsNamed(request.options, name) \in ListsOf(request.ordered)
          /\ From(RemoveOptionsNamed(request.options, name), request.options)
        BY <1>1, RemoveOptionsKeepsOrder
    <2>3. RemoveOptionsNamed(request.options, name) \in Seq(CoapOptions)
        BY <2>2 DEF ListsOf
    <2>4. RemoveOptionsNamed(request.options, name) \in ShortLists
        BY <1>1, <2>2, <2>3, ShortFrom
    <2> QED
        BY <1>2, <2>1, <2>4
<1>6. CASE \E list \in OptionLists \cup {<<>>} : Edit(SetOptions(request, list))
    <2>1. PICK list \in OptionLists \cup {<<>>} : Edit(SetOptions(request, list))
        BY <1>6
    <2>2. list \in ShortLists
        BY ShortEmpty DEF InputsFit, ShortLists
    <2>3. Fits(SetOptions(request, list))
        BY <1>1, <2>2, FitsWith
    <2> QED
        BY <2>1, <2>3, EditFits
<1>8. CASE Edit([request EXCEPT !.options = EnableObserve(@)])
    <2>1. Edit([request EXCEPT !.options = EnableObserve(request.options)])
        BY <1>8
    <2> QED
        BY <1>1, <1>2, <2>1, ShortMark
<1> QED
    BY <1>3, <1>4, <1>5, <1>6, <1>8 DEF EditOptions

\* The operations of the client copy requests that fit.
LEMMA NewRequestFits == \A url : Fits(NewRequest(url))
<1>1. Len(<<>>) <= 15
    OBVIOUS
<1> QED
    BY <1>1, ShortEmpty DEF Fits, NewRequest

LEMMA CreateRequestFits ==
    ASSUME NEW r, SortedRequest(r), Fits(r), NEW method \in DOMAIN Methods
    PROVE  Fits(CreateRequest(r, method))
<1> DEFINE url == AdjustedUrl(r.url, secure)
           code == Methods[method]
<1>1. CreateRequest(r, method) = [r EXCEPT !.code = code, !.url = url]
    BY DEF CreateRequest
<1> HIDE DEF url, code
<1>2. /\ [r EXCEPT !.code = code, !.url = url].options = r.options
      /\ [r EXCEPT !.code = code, !.url = url].proxyUrl = r.proxyUrl
      /\ [r EXCEPT !.code = code, !.url = url].token = r.token
      /\ [r EXCEPT !.code = code, !.url = url].version = r.version
    BY DEF SortedRequest, QCoapRequests
<1> QED
    BY <1>1, <1>2 DEF Fits

LEMMA ObservedFits ==
    ASSUME NEW r, SortedRequest(r), Fits(r), secure \in BOOLEAN
    PROVE  Fits(Observed(r))
<1> DEFINE copy == CreateRequest(r, "Get")
           marked == [copy EXCEPT !.options = EnableObserve(copy.options)]
<1>1. "Get" \in DOMAIN Methods
    BY DEF Methods
<1>2. Observed(r) = CreateRequest(marked, "Get")
    BY DEF Observed
<1>3. SortedRequest(copy) /\ Fits(copy)
    BY <1>1, CreateRequestType, CreateRequestFits
<1> HIDE DEF copy
<1>4. EnableObserve(copy.options) \in ShortLists /\ EnableObserve(copy.options) \in ListsOf(copy.ordered)
    BY <1>3, ShortMark, RequestWith, EnableObserveType DEF Fits
<1>5. SortedRequest(marked) /\ Fits(marked)
    BY <1>3, <1>4, FitsWith, RequestWith
<1> HIDE DEF marked
<1> QED
    BY <1>1, <1>2, <1>5, CreateRequestFits

LEMMA SendFits ==
    ASSUME FrameInv, RequestInv', NEW r, Fits(r), NEW discovery, NEW asked, Send(r, discovery, asked)
    PROVE  FrameInv'
<1> DEFINE new == [request |-> r, discovery |-> discovery, asked |-> asked,
                   message |-> EmptyMessage("NonConfirmable", 0),
                   finished |-> FALSE, aborted |-> FALSE, error |-> FALSE,
                   resources |-> <<>>, answered |-> <<>>]
<1>1. replies' = Append(replies, new) /\ UNCHANGED <<request, exchanges, sent, posted>>
    BY DEF Send
<1>2. new.request = r
    OBVIOUS
<1> HIDE DEF new
<1>3. PICK S : replies \in Seq(S)
    BY DEF FrameInv, RequestInv, RepliesListed
<1>4. ASSUME NEW n \in DOMAIN replies' PROVE Fits(replies'[n].request)
    <2>1. /\ Len(replies) \in Nat /\ DOMAIN replies = 1..Len(replies)
          /\ DOMAIN replies' = 1..(Len(replies) + 1)
          /\ replies'[Len(replies) + 1] = new
          /\ \A i \in 1..Len(replies) : replies'[i] = replies[i]
        BY <1>1, <1>3
    <2>2. CASE n = Len(replies) + 1
        BY <1>2, <2>1, <2>2
    <2>3. CASE n # Len(replies) + 1
        <3>1. n \in DOMAIN replies /\ replies'[n] = replies[n]
            BY <2>1, <2>3
        <3> QED
            BY <3>1 DEF FrameInv, RequestsFit
    <2> QED
        BY <2>2, <2>3
<1>5. RequestsFit'
    BY <1>1, <1>4 DEF FrameInv, RequestsFit
<1> QED
    BY <1>1, <1>5, UserKeepsFrames

LEMMA OperationFits == ASSUME FrameInv, RequestInv', Operation PROVE FrameInv'
<1>1. SortedRequest(request) /\ Fits(request) /\ secure \in BOOLEAN
    BY FrameInvRequest
<1>2. \A method \in {"Get", "Put", "Post", "Delete"} : method \in DOMAIN Methods
    BY DEF Methods
<1>3. ASSUME NEW method \in {"Get", "Put", "Post", "Delete"}
      PROVE  /\ Fits(CreateRequest(request, method))
             /\ \A data : Fits(WithData(CreateRequest(request, method), data))
    <2> DEFINE r == CreateRequest(request, method)
    <2>1. SortedRequest(r) /\ Fits(r)
        BY <1>1, <1>2, CreateRequestType, CreateRequestFits
    <2> HIDE DEF r
    <2>2. \A data : Fits(WithData(r, data))
        BY <2>1, FitsWith DEF WithData
    <2> QED
        BY <2>1, <2>2 DEF r
<1>4. CASE Get
    BY <1>3, <1>4, SendFits DEF Get
<1>5. CASE Put
    <2>1. PICK data \in Payloads : Send(WithData(CreateRequest(request, "Put"), data), FALSE, NoUrl)
        BY <1>5 DEF Put
    <2> QED
        BY <1>3, <2>1, SendFits
<1>6. CASE Post
    <2>1. PICK data \in Payloads : Send(WithData(CreateRequest(request, "Post"), data), FALSE, NoUrl)
        BY <1>6 DEF Post
    <2> QED
        BY <1>3, <2>1, SendFits
<1>7. CASE DeleteResource
    BY <1>3, <1>7, SendFits DEF DeleteResource
<1>8. CASE Observe
    <2>1. CASE Send(Observed(request), FALSE, NoUrl)
        BY <1>1, <2>1, ObservedFits, SendFits
    <2>2. CASE \E url \in Urls : Send(Observed(NewRequest(url)), FALSE, url)
        <3>1. PICK url \in Urls : Send(Observed(NewRequest(url)), FALSE, url)
            BY <2>2
        <3>2. SortedRequest(NewRequest(url)) /\ Fits(NewRequest(url))
            BY InputUrls, NewRequestType, NewRequestFits
        <3>3. Fits(Observed(NewRequest(url)))
            BY <1>1, <3>2, ObservedFits
        <3> QED
            BY <3>1, <3>3, SendFits
    <2> QED
        BY <1>8, <2>1, <2>2 DEF Observe
<1>9. CASE Discover
    <2>1. ASSUME NEW url \in URLs PROVE Fits(CreateRequest(NewRequest(url), "Get"))
        BY <1>2, NewRequestType, NewRequestFits, CreateRequestFits
    <2>2. PICK url : url \in URLs /\ Send(CreateRequest(NewRequest(url), "Get"), TRUE, NoUrl)
        BY <1>9, DiscoveryUrls
    <2> QED
        BY <2>1, <2>2, SendFits
<1> QED
    BY <1>4, <1>5, <1>6, <1>7, <1>8, <1>9 DEF Operation

\* The worker leaves the requests alone.
LEMMA WorkerKeepsFrames ==
    ASSUME FrameInv, RequestInv', RepliesKept, UNCHANGED request,
           TokensFit', HistoriesListed', FramesReadable', AnswersReadable'
    PROVE  FrameInv'
<1>1. RequestsFit'
    BY DEF FrameInv, RequestsFit, RepliesKept
<1> QED
    BY <1>1 DEF FrameInv

\* A frame of a message with short options in order is readable.
LEMMA FrameSent ==
    ASSUME FrameInv, NEW n, NEW m, m.options \in ShortLists, m.version \in 0..3, NEW target,
           sent' = Append(sent, Datagram(n, m, target))
    PROVE  (\E S : sent' \in Seq(S)) /\ FramesReadable'
<1> DEFINE d == Datagram(n, m, target)
<1>1. PICK S : sent \in Seq(S)
    BY DEF FrameInv, HistoriesListed
<1>2. Sorted(d.message.options) => Reads(d.bytes, d.message)
    <2>1. d.bytes = ToQByteArray(m) /\ d.message = m
        BY DEF Datagram
    <2> HIDE DEF d
    <2> QED
        BY <2>1, SameFrames DEF Reads, ShortLists
<1> HIDE DEF d
<1>3. /\ sent' \in Seq(S \cup {d}) /\ Len(sent) \in Nat
      /\ DOMAIN sent' = 1..(Len(sent) + 1) /\ DOMAIN sent = 1..Len(sent)
      /\ sent'[Len(sent) + 1] = d
      /\ \A i \in 1..Len(sent) : sent'[i] = sent[i]
    <2>1. sent \in Seq(S \cup {d})
        BY <1>1, SeqMonotonic
    <2>2. sent' = Append(sent, d)
        BY DEF d
    <2> QED
        BY <1>1, <2>1, <2>2
<1>4. ASSUME NEW i \in DOMAIN sent', Sorted(sent'[i].message.options)
      PROVE  Reads(sent'[i].bytes, sent'[i].message)
    <2>1. CASE i = Len(sent) + 1
        BY <1>2, <1>3, <1>4, <2>1
    <2>2. CASE i # Len(sent) + 1
        <3>1. i \in DOMAIN sent /\ sent'[i] = sent[i]
            BY <1>3, <2>2
        <3>2. Reads(sent[i].bytes, sent[i].message)
            BY <1>4, <3>1 DEF FrameInv, FramesReadable
        <3> QED
            BY <3>1, <3>2
    <2> QED
        BY <2>1, <2>2
<1> QED
    BY <1>3, <1>4 DEF FramesReadable

\* A posted call keeps the answer as it was sent.
Faithful(e) == e.op = "setContent" => e.message = e.answer

LEMMA CallsPosted ==
    ASSUME FrameInv, NEW more, \E S : more \in Seq(S), \A i \in 1..Len(more) : Faithful(more[i]),
           posted' = posted \o more
    PROVE  (\E S : posted' \in Seq(S)) /\ AnswersReadable'
<1>1. PICK S : posted \in Seq(S)
    BY DEF FrameInv, HistoriesListed
<1>2. PICK T : more \in Seq(T)
    OBVIOUS
<1>3. posted \in Seq(S \cup T) /\ more \in Seq(S \cup T)
    BY <1>1, <1>2, SeqMonotonic
<1>4. /\ posted' \in Seq(S \cup T)
      /\ DOMAIN posted' = 1..(Len(posted) + Len(more))
      /\ \A i \in 1..(Len(posted) + Len(more)) :
            posted'[i] = IF i <= Len(posted) THEN posted[i] ELSE more[i - Len(posted)]
    <2>1. /\ posted \o more \in Seq(S \cup T) /\ Len(posted \o more) = Len(posted) + Len(more)
          /\ \A i \in 1..(Len(posted) + Len(more)) :
                (posted \o more)[i] = IF i <= Len(posted) THEN posted[i] ELSE more[i - Len(posted)]
        BY <1>3, ConcatProperties
    <2>2. DOMAIN (posted \o more) = 1..Len(posted \o more)
        BY <2>1, LenProperties
    <2> QED
        BY <2>1, <2>2
<1>5. Len(posted) \in Nat /\ Len(more) \in Nat /\ DOMAIN posted = 1..Len(posted)
    BY <1>3, LenProperties
<1>6. ASSUME NEW i \in DOMAIN posted' PROVE Faithful(posted'[i])
    <2>0. i \in 1..(Len(posted) + Len(more))
        BY <1>4
    <2>1. CASE i <= Len(posted)
        <3>1. i \in DOMAIN posted /\ posted'[i] = posted[i]
            BY <1>4, <1>5, <2>0, <2>1
        <3>2. Faithful(posted[i])
            BY <3>1 DEF FrameInv, AnswersReadable, Faithful
        <3> QED
            BY <3>1, <3>2
    <2>2. CASE ~ (i <= Len(posted))
        <3>1. i - Len(posted) \in 1..Len(more) /\ posted'[i] = more[i - Len(posted)]
            BY <1>4, <1>5, <2>0, <2>2
        <3> QED
            BY <3>1
    <2> QED
        BY <2>1, <2>2
<1> QED
    BY <1>4, <1>6 DEF AnswersReadable, Faithful

LEMMA StartRequestFits ==
    ASSUME InputsFit, FrameInv, RequestInv', RepliesKept, StartRequest
    PROVE  FrameInv'
<1>1. calls # <<>> /\ UNCHANGED <<request, posted>>
    BY DEF StartRequest
<1>2. AnswersReadable' /\ \E S : posted' \in Seq(S)
    BY <1>1 DEF FrameInv, AnswersReadable, HistoriesListed
<1>3. CASE UNCHANGED <<exchanges, sent>>
    <2>1. TokensFit' /\ FramesReadable' /\ \E S : sent' \in Seq(S)
        BY <1>3 DEF FrameInv, TokensFit, FramesReadable, HistoriesListed
    <2> QED
        BY <1>1, <1>2, <2>1, WorkerKeepsFrames DEF HistoriesListed
<1>4. CASE ~ UNCHANGED <<exchanges, sent>>
    <2> DEFINE n == Head(calls)
               r == replies[n].request
               uri == AddUriOptions(r.options, r.url, r.proxyUrl)
    <2>1. PICK id \in FreeIds, token \in TokensFor(r) :
             LET m == [version |-> r.version, type |-> r.type, code |-> r.code, messageId |-> id,
                       token |-> token, options |-> uri.options, payload |-> r.payload]
             IN /\ exchanges' = [t \in DOMAIN exchanges \cup {token} |->
                                    IF t = token THEN [reply |-> n, message |-> m, targetUri |-> uri.targetUri]
                                    ELSE exchanges[t]]
                /\ sent' = Append(sent, Datagram(n, m, uri.targetUri))
        BY <1>4 DEF StartRequest
    <2>2. n \in DOMAIN replies
        <3>1. calls \in Seq(DOMAIN replies)
            BY InvParts DEF FrameInv
        <3> QED
            BY <1>1, <3>1, HeadTailProperties
    <2>3. SortedRequest(r) /\ Prepared(r) /\ Fits(r)
        BY <2>2 DEF FrameInv, RequestInv, TypeOK, OptionsSorted, SortedRequest, RequestsPrepared, RequestsFit
    <2> HIDE DEF n, r
    <2>4. uri.options \in ShortLists
        <3>1. r.url \in URLs /\ r.url.port \in UInt16
            BY <2>3, RequestWith DEF Prepared
        <3> QED
            BY <2>3, <3>1, ShortAddUriOptions DEF Fits
    <2> HIDE DEF uri
    <2> DEFINE m == [version |-> r.version, type |-> r.type, code |-> r.code, messageId |-> id,
                     token |-> token, options |-> uri.options, payload |-> r.payload]
    <2>5. /\ sent' = Append(sent, Datagram(n, m, uri.targetUri))
          /\ DOMAIN exchanges' = DOMAIN exchanges \cup {token}
        BY <2>1
    <2>6. m.options \in ShortLists /\ m.version \in 0..3
        BY <2>3, <2>4 DEF Fits
    <2> HIDE DEF m
    <2>7. FramesReadable' /\ \E S : sent' \in Seq(S)
        BY <2>5, <2>6, FrameSent
    <2>8. Len(token) <= 15
        BY <2>3 DEF TokensFor, FreeTokens, InputsFit, Fits
    <2>9. TokensFit'
        BY <2>5, <2>8 DEF TokensFit, FrameInv
    <2> QED
        BY <1>1, <1>2, <2>7, <2>9, WorkerKeepsFrames DEF HistoriesListed
<1> QED
    BY <1>3, <1>4

\* What the other end sends as an answer.
LEMMA AnswerCarried ==
    ASSUME InputsFit, FrameInv, NEW token \in DOMAIN exchanges, NEW type \in 0..2, NEW id \in Ids,
           NEW code \in Codes, NEW payload \in Payloads, NEW options \in AnswerOptions
    PROVE  Carried([version |-> 1, type |-> type, code |-> code, messageId |-> id, token |-> token,
                    options |-> options, payload |-> payload])
<1>1. token \in Seq(Byte) /\ Len(token) <= 15
    <2>1. exchanges[token].message \in Messages /\ exchanges[token].message.token = token
        BY DEF FrameInv, RequestInv, TypeOK
    <2>2. exchanges[token].message.token \in Seq(Byte)
        BY <2>1 DEF Messages
    <2> QED
        BY <2>1, <2>2 DEF FrameInv, TokensFit
<1>2. options \in Seq(ShortOptions) /\ options \in Seq(CoapOptions) /\ Sorted(options)
    BY InputLists DEF InputsFit
<1>3. code \in Byte /\ id \in UInt16 /\ payload \in Seq(Byte)
    BY InputNumbers, InputBytes
<1> DEFINE m == [version |-> 1, type |-> type, code |-> code, messageId |-> id, token |-> token,
                 options |-> options, payload |-> payload]
<1>4. m.token = token /\ m.options = options /\ m.version \in 0..3
    OBVIOUS
<1>5. m \in Messages
    <2>1. 1 \in Byte
        BY DEF Byte
    <2> QED
        BY <1>1, <1>2, <1>3, <2>1 DEF Messages
<1> HIDE DEF m
<1>6. Carried(m)
    BY <1>1, <1>2, <1>4, <1>5 DEF Carried
<1> QED
    BY <1>6 DEF m

LEMMA ForgetFits ==
    ASSUME FrameInv, NEW token, Forget(token) \/ UNCHANGED exchanges
    PROVE  TokensFit'
    BY DEF FrameInv, TokensFit, Forget

LEMMA OnFrameReceivedFits ==
    ASSUME InputsFit, FrameInv, RequestInv', RepliesKept, OnFrameReceived
    PROVE  FrameInv'
<1>1. UNCHANGED request
    BY DEF OnFrameReceived
<1>2. PICK token, sender, answer :
         token \in DOMAIN exchanges /\ Carried(answer) /\ Receive(token, sender, answer)
    BY AnswerCarried DEF OnFrameReceived
<1> DEFINE x == exchanges[token]
           reply == CreateFromFrame(ServerFrame(answer))
           content == [op |-> "setContent", reply |-> x.reply, sender |-> sender,
                       message |-> reply, answer |-> answer]
           end == [op |-> "setFinished", reply |-> x.reply]
           ack == EmptyMessage("Acknowledgment", reply.messageId)
<1>3. reply = answer
    BY <1>2, FramesReadBack
<1>4. /\ posted' = posted \o <<content, end>> \/ posted' = posted \o <<content>>
      /\ sent' = Append(sent, Datagram(0, ack, x.targetUri)) \/ sent' = sent
      /\ Forget(token) \/ UNCHANGED exchanges
    BY <1>2 DEF Receive
<1>5. Faithful(content) /\ Faithful(end)
    BY <1>3 DEF Faithful
<1>6. ack.options \in ShortLists /\ ack.version \in 0..3
    BY ShortEmpty DEF EmptyMessage
<1> HIDE DEF ack, content, end
<1>7. FramesReadable' /\ \E S : sent' \in Seq(S)
    <2>1. CASE sent' = sent
        BY <2>1 DEF FrameInv, FramesReadable, HistoriesListed
    <2>2. CASE sent' # sent
        <3>1. sent' = Append(sent, Datagram(0, ack, x.targetUri))
            BY <1>4, <2>2
        <3> QED
            BY <1>6, <3>1, FrameSent
    <2> QED
        BY <2>1, <2>2
<1>8. AnswersReadable' /\ \E S : posted' \in Seq(S)
    <2>1. CASE posted' = posted \o <<content, end>>
        <3>1. <<content, end>> \in Seq({content, end})
            OBVIOUS
        <3>2. \A i \in 1..Len(<<content, end>>) : Faithful(<<content, end>>[i])
            BY <1>5
        <3> QED
            BY <2>1, <3>1, <3>2, CallsPosted
    <2>2. CASE posted' = posted \o <<content>>
        <3>1. <<content>> \in Seq({content})
            OBVIOUS
        <3>2. \A i \in 1..Len(<<content>>) : Faithful(<<content>>[i])
            BY <1>5
        <3> QED
            BY <2>2, <3>1, <3>2, CallsPosted
    <2> QED
        BY <1>4, <2>1, <2>2
<1>9. TokensFit'
    BY <1>4, ForgetFits
<1> QED
    BY <1>1, <1>7, <1>8, <1>9, WorkerKeepsFrames DEF HistoriesListed

LEMMA OnMulticastRequestExpiredFits ==
    ASSUME FrameInv, RequestInv', RepliesKept, OnMulticastRequestExpired
    PROVE  FrameInv'
<1>1. PICK token, n : /\ posted' = Append(posted, [op |-> "setFinished", reply |-> n])
                      /\ Forget(token) /\ UNCHANGED <<request, sent>>
    BY DEF OnMulticastRequestExpired
<1> DEFINE e == [op |-> "setFinished", reply |-> n]
<1>2. Faithful(e)
    BY DEF Faithful
<1> HIDE DEF e
<1>3. posted' = posted \o <<e>>
    <2>1. PICK S : posted \in Seq(S)
        BY DEF FrameInv, HistoriesListed
    <2>2. posted \in Seq(S \cup {e}) /\ e \in S \cup {e}
        BY <2>1, SeqMonotonic
    <2>3. Append(posted, e) = posted \o <<e>>
        BY <2>2
    <2> QED
        BY <1>1, <2>3 DEF e
<1>4. <<e>> \in Seq({e}) /\ \A i \in 1..Len(<<e>>) : Faithful(<<e>>[i])
    BY <1>2
<1>5. AnswersReadable' /\ \E S : posted' \in Seq(S)
    BY <1>3, <1>4, CallsPosted
<1>6. FramesReadable' /\ \E S : sent' \in Seq(S)
    BY <1>1 DEF FrameInv, FramesReadable, HistoriesListed
<1>7. TokensFit'
    BY <1>1, ForgetFits
<1> QED
    BY <1>1, <1>5, <1>6, <1>7, WorkerKeepsFrames DEF HistoriesListed

LEMMA HandlePostedFits ==
    ASSUME FrameInv, RequestInv', RepliesKept, HandlePosted
    PROVE  FrameInv'
<1>1. posted # <<>> /\ posted' = Tail(posted) /\ UNCHANGED <<request, exchanges, sent>>
    BY DEF HandlePosted
<1>2. PICK S : posted \in Seq(S)
    BY DEF FrameInv, HistoriesListed
<1>3. posted' \in Seq(S)
    BY <1>1, <1>2, HeadTailProperties
<1>4. ASSUME NEW i \in DOMAIN posted'
      PROVE  posted'[i].op = "setContent" => posted'[i].message = posted'[i].answer
    <2>1. i + 1 \in DOMAIN posted /\ posted'[i] = posted[i + 1]
        <3>1. /\ Len(posted) \in Nat /\ DOMAIN posted = 1..Len(posted) /\ DOMAIN posted' = 1..Len(posted')
              /\ Len(posted') = Len(posted) - 1
              /\ \A j \in 1..Len(Tail(posted)) : Tail(posted)[j] = posted[j + 1]
            BY <1>1, <1>2, <1>3, HeadTailProperties, LenProperties
        <3> QED
            BY <1>1, <3>1
    <2> QED
        BY <2>1 DEF FrameInv, AnswersReadable
<1>5. AnswersReadable' /\ TokensFit' /\ FramesReadable' /\ \E T : sent' \in Seq(T)
    BY <1>1, <1>4 DEF FrameInv, AnswersReadable, TokensFit, FramesReadable, HistoriesListed
<1> QED
    BY <1>1, <1>3, <1>5, WorkerKeepsFrames DEF HistoriesListed

LEMMA InitFrames == ASSUME Init PROVE FrameInv
<1>1. RequestInv
    BY InitRequests
<1>2. request = NewRequest(NoUrl) /\ replies = <<>> /\ exchanges = <<>> /\ sent = <<>> /\ posted = <<>>
    BY DEF Init
<1>3. DOMAIN replies = {} /\ DOMAIN exchanges = {} /\ DOMAIN sent = {} /\ DOMAIN posted = {}
    BY <1>2
<1>4. sent \in Seq({}) /\ posted \in Seq({})
    BY <1>2, EmptySeq
<1>5. RequestsFit
    BY <1>2, <1>3, NewRequestFits DEF RequestsFit
<1> QED
    BY <1>1, <1>3, <1>4, <1>5 DEF FrameInv, TokensFit, HistoriesListed, FramesReadable, AnswersReadable

LEMMA StepFrames == ASSUME InputsFit, FrameInv, [Next]_vars PROVE FrameInv'
<1>0. RequestInv'
    BY StepRequests DEF FrameInv
<1>1. CASE EditUrl
    BY <1>0, <1>1, EditUrlFits
<1>2. CASE EditOptions
    BY <1>0, <1>2, EditOptionsFits
<1>3. CASE EditMessage
    BY <1>0, <1>3, EditMessageFits
<1>4. CASE Operation
    BY <1>0, <1>4, OperationFits
<1>5. CASE StartRequest
    <2>1. RepliesKept
        BY <1>5, StartRequestKeeps DEF FrameInv
    <2> QED
        BY <1>0, <1>5, <2>1, StartRequestFits
<1>6. CASE OnFrameReceived
    <2>1. RepliesKept
        BY <1>6, OnFrameReceivedKeeps DEF FrameInv
    <2> QED
        BY <1>0, <1>6, <2>1, OnFrameReceivedFits
<1>7. CASE OnMulticastRequestExpired
    <2>1. RepliesKept
        BY <1>7, OnMulticastRequestExpiredKeeps DEF FrameInv
    <2> QED
        BY <1>0, <1>7, <2>1, OnMulticastRequestExpiredFits
<1>8. CASE HandlePosted
    <2>1. RepliesKept
        BY <1>8, HandlePostedKeeps DEF FrameInv
    <2> QED
        BY <1>0, <1>8, <2>1, HandlePostedFits
<1>9. CASE AbortRequest
    <2>1. RepliesKept /\ UNCHANGED <<request, exchanges, sent, posted>>
        BY <1>9, AbortRequestKeeps DEF FrameInv, AbortRequest
    <2>2. RequestsFit'
        BY <2>1 DEF FrameInv, RequestsFit, RepliesKept
    <2> QED
        BY <1>0, <2>1, <2>2, UserKeepsFrames
<1>10. CASE UNCHANGED vars
    <2>1. UNCHANGED <<request, replies, exchanges, sent, posted>>
        BY <1>10 DEF vars
    <2>2. RequestsFit'
        BY <2>1 DEF FrameInv, RequestsFit
    <2> QED
        BY <1>0, <2>1, <2>2, UserKeepsFrames
<1> QED
    BY <1>1, <1>2, <1>3, <1>4, <1>5, <1>6, <1>7, <1>8, <1>9, <1>10 DEF Next

LEMMA FramesInvariant == ASSUME InputsFit PROVE Spec => []FrameInv
<1>1. Init => FrameInv
    BY InitFrames
<1>2. FrameInv /\ [Next]_vars => FrameInv'
    BY StepFrames
<1> QED
    BY <1>1, <1>2, PTL DEF Spec

\* toQByteArray: the other end reads every frame, of a request with its options in order or an
\* acknowledgment, as the message it was made of, whatever options, URLs, proxies and payloads the
\* user combines.
THEOREM FramesAreReadable == ASSUME InputsFit PROVE Spec => []FramesReadable
<1>1. FrameInv => FramesReadable
    BY DEF FrameInv
<1> QED
    BY <1>1, FramesInvariant, PTL

\* createFromFrame: the replies are handed the answers the other end sent.
THEOREM AnswersAreReadable == ASSUME InputsFit PROVE Spec => []AnswersReadable
<1>1. FrameInv => AnswersReadable
    BY DEF FrameInv
<1> QED
    BY <1>1, FramesInvariant, PTL

(***************************************************************************)
(* What a server makes of the options of a URL.                            *)
(***************************************************************************)

\* One step of TextBytes.
WithBytes(bytes, t) == IF t = "" THEN bytes ELSE Append(bytes, Utf8[t])

\* TextBytes goes through the texts.
Spelled(V, texts, all, F) ==
    /\ F \in [0..Len(texts) -> V] /\ F[0] = <<>> /\ F[Len(texts)] = all
    /\ \A k \in 1..Len(texts) : F[k] = WithBytes(F[k - 1], texts[k])

LEMMA TextBytesSteps ==
    ASSUME NEW V, NEW texts \in Seq(Texts),
           <<>> \in V,
           \A v \in V, i \in 1..Len(texts) : WithBytes(v, texts[i]) \in V
    PROVE  \E F : Spelled(V, texts, TextBytes(texts), F)
<1> DEFINE N == Len(texts)
           step == [p \in V \X (1..N) |-> WithBytes(p[1], texts[p[2]])]
           Fold(G) == [S \in SUBSET (DOMAIN texts) |->
                          IF S = {} THEN <<>>
                          ELSE LET x == Max(S) IN WithBytes(G[S \ {x}], texts[x])]
           G == CHOOSE H : H = Fold(H)
<1>1. N \in Nat
    BY LenProperties
<1>2. DOMAIN texts = 1..N
    BY LenProperties
<1>3. /\ step \in [V \X (1..N) -> V]
      /\ \A v \in V, i \in 1..N : step[<<v, i>>] = WithBytes(v, texts[i])
    OBVIOUS
<1>4. TextBytes(texts) = G[DOMAIN texts]
    BY Zenon DEF TextBytes, WithBytes, FoldLeft, MapThenFoldSet
<1> HIDE DEF step, N
<1>5. \E H : H = Fold(H)
    <2>1. PICK H : FoldTable(V, <<>>, step, N, H)
        BY <1>1, <1>3, FoldTableExists
    <2>2. ASSUME NEW S \in SUBSET (1..N)
          PROVE  H[S] = IF S = {} THEN <<>> ELSE WithBytes(H[S \ {Max(S)}], texts[Max(S)])
        <3>1. S # {} => Max(S) \in 1..N /\ H[S \ {Max(S)}] \in V
            BY <1>1, <2>1, MaxOfSome DEF FoldTable
        <3> QED
            BY <1>3, <2>1, <3>1 DEF FoldTable
    <2>3. H = [S \in SUBSET (1..N) |-> H[S]]
        BY <2>1 DEF FoldTable
    <2>4. H = Fold(H)
        BY <1>2, <2>2, <2>3
    <2> QED
        BY <2>4
<1>6. G = Fold(G)
    BY <1>5
<1> HIDE DEF G
<1>7. \A S \in SUBSET (1..N) :
        G[S] = IF S = {} THEN <<>> ELSE WithBytes(G[S \ {Max(S)}], texts[Max(S)])
    BY <1>2, <1>6
<1> HIDE DEF Fold
<1>8. Folds(V, <<>>, step, N, G)
    <2>1. ASSUME NEW S \in SUBSET (1..N), S # {}, G[S \ {Max(S)}] \in V
          PROVE  G[S] = step[<<G[S \ {Max(S)}], Max(S)>>]
        BY <1>1, <1>3, <1>7, <2>1, MaxOfSome
    <2> QED
        BY <1>7, <2>1 DEF Folds
<1>9. PICK F : Passes(V, <<>>, step, N, G[1..N], F)
    BY <1>1, <1>3, <1>8, FoldPasses
<1>10. ASSUME NEW k \in 1..N PROVE F[k] = WithBytes(F[k - 1], texts[k])
    <2>1. k - 1 \in 0..N /\ F[k] = step[<<F[k - 1], k>>]
        BY <1>1, <1>9 DEF Passes
    <2>2. F[k - 1] \in V
        BY <1>9, <2>1 DEF Passes
    <2> QED
        BY <1>3, <2>1, <2>2
<1>11. Spelled(V, texts, TextBytes(texts), F)
    BY <1>2, <1>4, <1>9, <1>10 DEF Passes, Spelled, N
<1> QED
    BY <1>11

\* The options of texts have the bytes of the texts.
LEMMA TextsTold ==
    ASSUME NEW name \in {"UriPath", "UriQuery"}, NEW texts \in Seq(Texts)
    PROVE  [i \in DOMAIN TextOptions(name, texts) |-> TextOptions(name, texts)[i].value] = TextBytes(texts)
<1> DEFINE V == Seq(CoapOptions)
           W == Seq(Seq(Byte))
           N == Len(texts)
<1>1. N \in Nat /\ \A i \in 1..N : texts[i] \in Texts /\ Utf8[texts[i]] \in Seq(Byte)
    BY ElementOfSeq, LenProperties, Utf8Type
<1>2. \A i \in 1..N : Option(name, Utf8[texts[i]]) \in CoapOptions
    BY <1>1, OptionType
<1>3. PICK F : Worded(V, name, texts, TextOptions(name, texts), F)
    <2>1. \A v \in V, i \in 1..N : WithText(v, texts[i], name) \in V
        BY <1>2, AppendProperties DEF WithText
    <2>2. <<>> \in V
        BY EmptySeq
    <2> QED
        BY <2>1, <2>2, TextOptionsSteps
<1>4. PICK G : Spelled(W, texts, TextBytes(texts), G)
    <2>1. \A v \in W, i \in 1..N : WithBytes(v, texts[i]) \in W
        BY <1>1, AppendProperties DEF WithBytes
    <2>2. <<>> \in W
        BY EmptySeq
    <2> QED
        BY <2>1, <2>2, TextBytesSteps
<1>5. /\ F[0] = <<>> /\ F[N] = TextOptions(name, texts)
      /\ \A k \in 0..N : F[k] \in V
      /\ \A k \in 1..N : F[k] = WithText(F[k - 1], texts[k], name)
    BY <1>3 DEF Worded
<1>6. /\ G[0] = <<>> /\ G[N] = TextBytes(texts)
      /\ \A k \in 0..N : G[k] \in W
      /\ \A k \in 1..N : G[k] = WithBytes(G[k - 1], texts[k])
    BY <1>4 DEF Spelled
<1> HIDE DEF N, V, W
<1> DEFINE Same(s, b) == Len(b) = Len(s) /\ \A i \in 1..Len(s) : s[i].value = b[i]
           P == {k \in Nat : k <= N => Same(F[k], G[k])}
<1>7. 0 \in P
    BY <1>5, <1>6
<1>8. ASSUME NEW k \in P PROVE k + 1 \in P
    <2> HIDE DEF Same
    <2> SUFFICES ASSUME k + 1 <= N PROVE Same(F[k + 1], G[k + 1])
        OBVIOUS
    <2> DEFINE t == texts[k + 1]
               o == Option(name, Utf8[t])
               s == F[k]
               b == G[k]
    <2>1. k \in Nat /\ k + 1 \in 1..N /\ (k + 1) - 1 = k /\ k \in 0..N /\ Same(s, b)
        <3>1. k \in Nat /\ (k <= N => Same(F[k], G[k]))
            OBVIOUS
        <3>2. k + 1 \in 1..N /\ (k + 1) - 1 = k /\ k \in 0..N /\ k <= N
            BY <1>1, <3>1
        <3> QED
            BY <3>1, <3>2
    <2>2. F[k + 1] = WithText(s, t, name) /\ G[k + 1] = WithBytes(b, t)
        BY <1>5, <1>6, <2>1
    <2>3. s \in Seq(CoapOptions) /\ b \in Seq(Seq(Byte)) /\ o \in CoapOptions /\ Utf8[t] \in Seq(Byte)
        BY <1>1, <1>2, <1>5, <1>6, <2>1 DEF V, W
    <2>4. o.value = Utf8[t]
        BY DEF Option
    <2>5. WithText(s, t, name) = IF t = "" THEN s ELSE Append(s, o)
        BY DEF WithText
    <2>6. WithBytes(b, t) = IF t = "" THEN b ELSE Append(b, Utf8[t])
        BY DEF WithBytes
    <2> HIDE DEF s, b, o, t
    <2>7. Same(Append(s, o), Append(b, Utf8[t]))
        <3>1. /\ Len(Append(s, o)) = Len(s) + 1 /\ Append(s, o)[Len(s) + 1] = o /\ Len(s) \in Nat
              /\ \A i \in 1..Len(s) : Append(s, o)[i] = s[i]
            BY <2>3, AppendProperties, LenProperties
        <3>2. /\ Len(Append(b, Utf8[t])) = Len(b) + 1 /\ Append(b, Utf8[t])[Len(b) + 1] = Utf8[t]
              /\ \A i \in 1..Len(b) : Append(b, Utf8[t])[i] = b[i]
            BY <2>3, AppendProperties
        <3>3. Len(b) = Len(s) /\ \A i \in 1..Len(s) : s[i].value = b[i]
            BY <2>1 DEF Same
        <3>4. ASSUME NEW i \in 1..(Len(s) + 1) PROVE Append(s, o)[i].value = Append(b, Utf8[t])[i]
            <4>1. i \in 1..Len(s) \/ i = Len(s) + 1
                BY <3>1
            <4> QED
                BY <2>4, <3>1, <3>2, <3>3, <4>1
        <3> QED
            BY <3>1, <3>2, <3>3, <3>4 DEF Same
    <2> QED
        BY <2>1, <2>2, <2>5, <2>6, <2>7
<1>9. Same(F[N], G[N])
    <2> HIDE DEF P, Same
    <2>1. P \in SUBSET Nat
        BY DEF P
    <2>2. N \in P
        BY <1>1, <1>7, <1>8, <2>1, Induction DEF N
    <2> QED
        BY <1>1, <2>2 DEF P, N
<1> DEFINE s == TextOptions(name, texts)
           b == TextBytes(texts)
<1>10. s \in Seq(CoapOptions) /\ b \in Seq(Seq(Byte))
    BY <1>1, <1>5, <1>6 DEF V, W, N
<1>11. Len(b) = Len(s) /\ \A i \in 1..Len(s) : s[i].value = b[i]
    BY <1>5, <1>6, <1>9
<1> HIDE DEF s, b
<1>12. /\ DOMAIN s = 1..Len(s) /\ DOMAIN b = 1..Len(b) /\ b = [i \in 1..Len(b) |-> b[i]]
    BY <1>10, LenProperties
<1>13. [i \in DOMAIN s |-> s[i].value] = b
    BY <1>11, <1>12
<1> QED
    BY <1>13 DEF s, b

\* What a frame says of a URL: the options and the destination that addUriOptions makes of it.
UriNames == {"UriHost", "UriPort", "UriPath", "UriQuery"}
Unsaid(options) == \A name \in UriNames : OptionsNamed(options, name) = <<>>

\* A frame has the options and the destination of its request.
Carries(d, r) ==
    LET uri == AddUriOptions(r.options, r.url, r.proxyUrl)
    IN /\ d.message.options = uri.options
       /\ d.host = uri.targetUri.host /\ d.port = uri.targetUri.port % 65536

LEMMA PortOf16Bits == \A port \in UInt16 : port % 65536 = port
<1> TAKE port \in UInt16
<1>1. port \in Nat /\ port < 65536
    BY DEF UInt16
<1> QED
    BY <1>1

\* The options of a request: those of the user, and those of its URL.
LEMMA UriOptionsAdded ==
    ASSUME NEW r, SortedRequest(r), r.ordered, Prepared(r), Unsaid(r.options),
           IsEmpty(r.proxyUrl), IsAscii(r.url), NEW d, Carries(d, r)
    PROVE  /\ d.host = r.url.host /\ d.port = r.url.port
           /\ d.message.options \in Seq(CoapOptions)
           /\ OptionsNamed(d.message.options, "UriHost") = UriHostOption(r.url)
           /\ OptionsNamed(d.message.options, "UriPort") = UriPortOption(r.url)
           /\ OptionsNamed(d.message.options, "UriPath") = TextOptions("UriPath", NormalizedPath(r.url.path))
           /\ OptionsNamed(d.message.options, "UriQuery") = TextOptions("UriQuery", r.url.query)
<1> DEFINE uri == Normalized(r.url)
           added == AddOptions(r.options, UriOptions(uri))
<1>1. /\ r.url \in URLs /\ r.url.port \in UInt16 /\ IsUrlValid(r.url)
      /\ r.options \in ListsOf(TRUE) /\ r.options \in SortedLists
    BY RequestWith DEF Prepared, Startable, ListsOf, SortedLists
<1>2. /\ uri \in URLs /\ uri.port = r.url.port /\ uri.host = r.url.host /\ uri.query = r.url.query
      /\ uri.path = NormalizedPath(r.url.path) /\ IsUrlValid(uri)
    <2>1. NormalizedPath(r.url.path) \in Seq(Texts)
        BY <1>1, NormalizedPathType DEF URLs
    <2> QED
        BY <1>1, <2>1 DEF Normalized, URLs, IsUrlValid
<1>3. IsAscii(uri)
    BY <1>1, NormalizedIsAscii
<1>4. AddUriOptions(r.options, r.url, r.proxyUrl) = [options |-> added, targetUri |-> uri]
    BY <1>2, <1>3 DEF AddUriOptions
<1> HIDE DEF uri
<1>5. d.host = r.url.host /\ d.port = r.url.port /\ d.message.options = added
    BY <1>1, <1>2, <1>4, PortOf16Bits DEF Carries
<1>6. UriOptions(uri) \in Seq(CoapOptions)
    BY <1>1, <1>2, UriOptionsType
<1>7. added \in Seq(CoapOptions)
    <2>1. added \in ListsOf(TRUE)
        BY <1>1, <1>6, AddOptionsKeepsOrder
    <2> QED
        BY <2>1 DEF ListsOf
<1>8. ASSUME NEW name \in UriNames
      PROVE  OptionsNamed(added, name) = OptionsNamed(UriOptions(uri), name)
    <2>1. OptionsNamed(added, name) = OptionsNamed(r.options, name) \o OptionsNamed(UriOptions(uri), name)
        BY <1>1, <1>6, NamedAddedAll
    <2>2. OptionsNamed(r.options, name) = <<>>
        BY DEF Unsaid
    <2>3. OptionsNamed(UriOptions(uri), name) \in Seq(CoapOptions)
        BY <1>6, NamedConcat
    <2>4. <<>> \o OptionsNamed(UriOptions(uri), name) = OptionsNamed(UriOptions(uri), name)
        BY <2>3, ConcatEmptySeq
    <2> QED
        BY <2>1, <2>2, <2>4, Zenon
<1>9. /\ OptionsNamed(UriOptions(uri), "UriHost") = UriHostOption(uri)
      /\ OptionsNamed(UriOptions(uri), "UriPort") = UriPortOption(uri)
      /\ OptionsNamed(UriOptions(uri), "UriPath") = TextOptions("UriPath", uri.path)
      /\ OptionsNamed(UriOptions(uri), "UriQuery") = TextOptions("UriQuery", uri.query)
    BY <1>1, <1>2, UriOptionsNamed
<1>10. UriHostOption(uri) = UriHostOption(r.url) /\ UriPortOption(uri) = UriPortOption(r.url)
    BY <1>2 DEF UriHostOption, UriPortOption
<1> HIDE DEF added
<1>11. /\ OptionsNamed(added, "UriHost") = OptionsNamed(UriOptions(uri), "UriHost")
       /\ OptionsNamed(added, "UriPort") = OptionsNamed(UriOptions(uri), "UriPort")
       /\ OptionsNamed(added, "UriPath") = OptionsNamed(UriOptions(uri), "UriPath")
       /\ OptionsNamed(added, "UriQuery") = OptionsNamed(UriOptions(uri), "UriQuery")
    BY <1>8 DEF UriNames
<1> QED
    BY <1>2, <1>5, <1>7, <1>9, <1>10, <1>11

\* From a frame and its destination the server rebuilds the host, the path and the query.
LEMMA UrlShown ==
    ASSUME NEW r, SortedRequest(r), r.ordered, Prepared(r), Unsaid(r.options),
           IsEmpty(r.proxyUrl), IsAscii(r.url), NEW d, Carries(d, r)
    PROVE  Shown(d) = Meant(r.url)
<1> DEFINE o == d.message.options
           url == r.url
<1>1. url \in URLs /\ url.port \in UInt16
    BY RequestWith DEF Prepared
<1>2. /\ d.host = url.host /\ d.port = url.port /\ o \in Seq(CoapOptions)
      /\ OptionsNamed(o, "UriHost") = UriHostOption(url)
      /\ OptionsNamed(o, "UriPort") = UriPortOption(url)
      /\ OptionsNamed(o, "UriPath") = TextOptions("UriPath", NormalizedPath(url.path))
      /\ OptionsNamed(o, "UriQuery") = TextOptions("UriQuery", url.query)
    BY UriOptionsAdded
<1>3. HasOption(o, "UriHost") <=> UriHostOption(url) # <<>>
    BY <1>2, NamedIfHas
<1> HIDE DEF o
<1>5. (IF HasOption(o, "UriHost") THEN Values(o, "UriHost") ELSE <<Utf8[d.host]>>) = <<Utf8[url.host]>>
    <2>1. CASE url.host \in Addresses
        <3>1. UriHostOption(url) = <<>>
            BY <2>1 DEF UriHostOption
        <3> QED
            BY <1>2, <1>3, <3>1
    <2>2. CASE url.host \notin Addresses
        <3> DEFINE x == Option("UriHost", Utf8[url.host])
        <3>1. UriHostOption(url) = <<x>>
            BY <2>2 DEF UriHostOption
        <3>2. x.value = Utf8[url.host]
            BY DEF Option
        <3> HIDE DEF x
        <3>3. <<x>> # <<>> /\ DOMAIN <<x>> = 1..1 /\ <<x>>[1] = x
            OBVIOUS
        <3>4. Values(o, "UriHost") = [i \in 1..1 |-> <<x>>[i].value]
            BY <1>2, <3>1, <3>3 DEF Values
        <3>5. Values(o, "UriHost") = <<x.value>>
            BY <3>3, <3>4
        <3> QED
            BY <1>3, <3>1, <3>2, <3>3, <3>5
    <2> QED
        BY <2>1, <2>2
<1>7. Values(o, "UriPath") = TextBytes(NormalizedPath(url.path))
    <2>1. NormalizedPath(url.path) \in Seq(Texts)
        BY <1>1, NormalizedPathType DEF URLs
    <2> DEFINE path == NormalizedPath(url.path)
    <2> HIDE DEF path
    <2>2. [i \in DOMAIN TextOptions("UriPath", path) |-> TextOptions("UriPath", path)[i].value] = TextBytes(path)
        BY <2>1, TextsTold DEF path
    <2> QED
        BY <1>2, <2>2 DEF Values, path
<1>8. Values(o, "UriQuery") = TextBytes(url.query)
    <2>1. url.query \in Seq(Texts)
        BY <1>1 DEF URLs
    <2> DEFINE query == url.query
    <2> HIDE DEF query
    <2>2. [i \in DOMAIN TextOptions("UriQuery", query) |-> TextOptions("UriQuery", query)[i].value] = TextBytes(query)
        BY <2>1, TextsTold DEF query
    <2> QED
        BY <1>2, <2>2 DEF Values, query
<1>9. Shown(d) =
        [host |-> IF HasOption(o, "UriHost") THEN Values(o, "UriHost") ELSE <<Utf8[d.host]>>,
         path |-> Values(o, "UriPath"), query |-> Values(o, "UriQuery")]
    BY DEF Shown, o
<1> QED
    BY <1>5, <1>7, <1>8, <1>9 DEF Meant

(***************************************************************************)
(* The options the user gives.                                             *)
(***************************************************************************)

\* The options of the user's request and of the replies are of the set.
OptionsIn(T) == request.options \in Seq(T) /\ \A n \in DOMAIN replies : replies[n].request.options \in Seq(T)

\* The set has what the user adds and sets, and the mark of observe().
Inputs(T) ==
    /\ T \subseteq CoapOptions /\ UserOptions \subseteq T /\ OptionLists \subseteq Seq(T)
    /\ Option("Observe", <<>>) \in T

LEMMA MarkIn ==
    ASSUME NEW T, Inputs(T), NEW options \in Seq(T)
    PROVE  EnableObserve(options) \in Seq(T)
BY AddIn DEF EnableObserve, Inputs

LEMMA EditOptionsIn ==
    ASSUME NEW T, Inputs(T), RequestInv, OptionsIn(T), EditUrl \/ EditOptions \/ EditMessage
    PROVE  OptionsIn(T)'
<1>1. /\ SortedRequest(request) /\ request.options \in Seq(T)
      /\ request.ordered \in BOOLEAN /\ request.options \in ListsOf(request.ordered)
    BY RequestIsSorted, RequestWith DEF OptionsIn
<1>2. ASSUME NEW list \in Seq(T), Edit([request EXCEPT !.options = list]) PROVE OptionsIn(T)'
    <2>1. [request EXCEPT !.options = list].options = list
        BY <1>1 DEF SortedRequest, QCoapRequests
    <2> QED
        BY <1>2, <2>1 DEF Edit, OptionsIn
<1>3. ASSUME NEW changed, changed.options = request.options, Edit(changed) PROVE OptionsIn(T)'
    BY <1>3 DEF Edit, OptionsIn
<1>4. CASE EditUrl
    <2>1. PICK changed : Edit(changed) /\ \/ \E url : changed = [request EXCEPT !.url = url]
                                          \/ \E url : changed = [request EXCEPT !.proxyUrl = url]
        BY <1>4 DEF EditUrl
    <2>2. changed.options = request.options
        BY <1>1, <2>1 DEF SortedRequest, QCoapRequests
    <2> QED
        BY <1>3, <2>1, <2>2
<1>5. CASE EditMessage
    <2>1. PICK changed : Edit(changed) /\ \/ \E type : changed = [request EXCEPT !.type = type]
                                          \/ \E version : changed = [request EXCEPT !.version = version]
                                          \/ \E payload : changed = [request EXCEPT !.payload = payload]
                                          \/ \E token : changed = [request EXCEPT !.token = token]
        BY <1>5 DEF EditMessage
    <2>2. changed.options = request.options
        BY <1>1, <2>1 DEF SortedRequest, QCoapRequests
    <2> QED
        BY <1>3, <2>1, <2>2
<1>6. CASE EditOptions
    <2>1. CASE \E option \in UserOptions : Edit([request EXCEPT !.options = AddOption(@, option)])
        <3>1. PICK option \in UserOptions :
                Edit([request EXCEPT !.options = AddOption(request.options, option)])
            BY <2>1
        <3>2. option \in T /\ T \subseteq CoapOptions
            BY DEF Inputs
        <3> QED
            BY <1>1, <1>2, <3>1, <3>2, AddIn
    <2>2. CASE \E option \in UserOptions : Edit([request EXCEPT !.options = RemoveOption(@, option)])
        <3>1. PICK option \in UserOptions :
                Edit([request EXCEPT !.options = RemoveOption(request.options, option)])
            BY <2>2
        <3>2. /\ RemoveOption(request.options, option) \in ListsOf(request.ordered)
              /\ From(RemoveOption(request.options, option), request.options)
            BY <1>1, RemoveOptionKeepsOrder
        <3>3. RemoveOption(request.options, option) \in Seq(T)
            BY <1>1, <3>2, FromIn DEF ListsOf
        <3> QED
            BY <1>2, <3>1, <3>3
    <2>3. CASE \E name \in {"Observe", "Etag"} :
                 Edit([request EXCEPT !.options = RemoveOptionsNamed(@, name)])
        <3>1. PICK name \in {"Observe", "Etag"} :
                Edit([request EXCEPT !.options = RemoveOptionsNamed(request.options, name)])
            BY <2>3
        <3>2. /\ RemoveOptionsNamed(request.options, name) \in ListsOf(request.ordered)
              /\ From(RemoveOptionsNamed(request.options, name), request.options)
            BY <1>1, RemoveOptionsKeepsOrder
        <3>3. RemoveOptionsNamed(request.options, name) \in Seq(T)
            BY <1>1, <3>2, FromIn DEF ListsOf
        <3> QED
            BY <1>2, <3>1, <3>3
    <2>4. CASE \E list \in OptionLists \cup {<<>>} : Edit(SetOptions(request, list))
        <3>1. PICK list \in OptionLists \cup {<<>>} : Edit(SetOptions(request, list))
            BY <2>4
        <3>2. list \in Seq(T)
            BY EmptySeq DEF Inputs
        <3>3. SetOptions(request, list).options = list
            BY <1>1 DEF SetOptions, SortedRequest, QCoapRequests
        <3> QED
            BY <3>1, <3>2, <3>3 DEF Edit, OptionsIn
    <2>6. CASE Edit([request EXCEPT !.options = EnableObserve(@)])
        <3>1. Edit([request EXCEPT !.options = EnableObserve(request.options)])
            BY <2>6
        <3> QED
            BY <1>1, <1>2, <3>1, MarkIn
    <2> QED
        BY <1>6, <2>1, <2>2, <2>3, <2>4, <2>6 DEF EditOptions
<1> QED
    BY <1>4, <1>5, <1>6

\* send() appends a reply with its request.
LEMMA SendAppends ==
    ASSUME RequestInv, NEW r, NEW discovery, NEW asked, Send(r, discovery, asked)
    PROVE  /\ Len(replies) \in Nat /\ DOMAIN replies = 1..Len(replies)
           /\ DOMAIN replies' = 1..(Len(replies) + 1)
           /\ replies'[Len(replies) + 1] =
                [request |-> r, discovery |-> discovery, asked |-> asked,
                 message |-> EmptyMessage("NonConfirmable", 0),
                 finished |-> FALSE, aborted |-> FALSE, error |-> FALSE,
                 resources |-> <<>>, answered |-> <<>>]
           /\ \A i \in 1..Len(replies) : replies'[i] = replies[i]
           /\ calls' = Append(calls, Len(replies) + 1)
           /\ UNCHANGED <<secure, request, edits, exchanges, sent, answers, posted>>
<1> DEFINE new == [request |-> r, discovery |-> discovery, asked |-> asked,
                   message |-> EmptyMessage("NonConfirmable", 0),
                   finished |-> FALSE, aborted |-> FALSE, error |-> FALSE,
                   resources |-> <<>>, answered |-> <<>>]
<1>1. /\ replies' = Append(replies, new) /\ calls' = Append(calls, Len(replies) + 1)
      /\ UNCHANGED <<secure, request, edits, exchanges, sent, answers, posted>>
    BY DEF Send
<1> HIDE DEF new
<1>2. PICK S : replies \in Seq(S)
    BY DEF RequestInv, RepliesListed
<1>3. /\ Len(replies) \in Nat /\ DOMAIN replies = 1..Len(replies)
      /\ DOMAIN replies' = 1..(Len(replies) + 1)
      /\ replies'[Len(replies) + 1] = new
      /\ \A i \in 1..Len(replies) : replies'[i] = replies[i]
    BY <1>1, <1>2
<1> QED
    BY <1>1, <1>3 DEF new

LEMMA SendIn ==
    ASSUME NEW T, RequestInv, OptionsIn(T), NEW r, r.options \in Seq(T), NEW discovery, NEW asked,
           Send(r, discovery, asked)
    PROVE  OptionsIn(T)'
<1>1. /\ Len(replies) \in Nat /\ DOMAIN replies = 1..Len(replies)
      /\ DOMAIN replies' = 1..(Len(replies) + 1)
      /\ replies'[Len(replies) + 1].request = r
      /\ \A i \in 1..Len(replies) : replies'[i] = replies[i]
      /\ request' = request
    <2> DEFINE new == [request |-> r, discovery |-> discovery, asked |-> asked,
                       message |-> EmptyMessage("NonConfirmable", 0),
                       finished |-> FALSE, aborted |-> FALSE, error |-> FALSE,
                       resources |-> <<>>, answered |-> <<>>]
    <2>1. /\ Len(replies) \in Nat /\ DOMAIN replies = 1..Len(replies)
          /\ DOMAIN replies' = 1..(Len(replies) + 1)
          /\ replies'[Len(replies) + 1] = new
          /\ \A i \in 1..Len(replies) : replies'[i] = replies[i]
          /\ request' = request
        BY SendAppends
    <2>2. new.request = r
        OBVIOUS
    <2> HIDE DEF new
    <2> QED
        BY <2>1, <2>2
<1>2. ASSUME NEW n \in DOMAIN replies' PROVE replies'[n].request.options \in Seq(T)
    <2>1. CASE n = Len(replies) + 1
        BY <1>1, <2>1
    <2>2. CASE n # Len(replies) + 1
        <3>1. n \in DOMAIN replies /\ replies'[n] = replies[n]
            BY <1>1, <2>2
        <3> QED
            BY <3>1 DEF OptionsIn
    <2> QED
        BY <2>1, <2>2
<1> QED
    BY <1>1, <1>2 DEF OptionsIn

\* The requests that the operations of the client send.
LEMMA ObservedIn ==
    ASSUME NEW T, Inputs(T), NEW r, SortedRequest(r), r.options \in Seq(T), secure \in BOOLEAN
    PROVE  Observed(r).options \in Seq(T)
<1> DEFINE copy == CreateRequest(r, "Get")
           marked == [copy EXCEPT !.options = EnableObserve(copy.options)]
<1>1. "Get" \in DOMAIN Methods
    BY DEF Methods
<1>2. Observed(r) = CreateRequest(marked, "Get")
    BY DEF Observed
<1>3. SortedRequest(copy) /\ copy.options = r.options
    BY <1>1, CreateRequestType
<1> HIDE DEF copy
<1>4. EnableObserve(copy.options) \in Seq(T) /\ EnableObserve(copy.options) \in ListsOf(copy.ordered)
    BY <1>3, MarkIn, RequestWith, EnableObserveType
<1>5. SortedRequest(marked) /\ marked.options = EnableObserve(copy.options)
    <2>1. SortedRequest(marked)
        BY <1>3, <1>4, RequestWith
    <2> QED
        BY <1>3, <2>1 DEF SortedRequest, QCoapRequests
<1> HIDE DEF marked
<1>6. CreateRequest(marked, "Get").options = marked.options
    BY <1>1, <1>5, CreateRequestType
<1> QED
    BY <1>2, <1>4, <1>5, <1>6

LEMMA OperationIn ==
    ASSUME NEW T, Inputs(T), RequestInv, OptionsIn(T), Operation
    PROVE  OptionsIn(T)'
<1>1. SortedRequest(request) /\ request.options \in Seq(T) /\ secure \in BOOLEAN
    BY RequestIsSorted DEF OptionsIn
<1>2. \A method \in {"Get", "Put", "Post", "Delete"} : method \in DOMAIN Methods
    BY DEF Methods
<1>3. ASSUME NEW method \in {"Get", "Put", "Post", "Delete"}
      PROVE  /\ CreateRequest(request, method).options \in Seq(T)
             /\ \A data : WithData(CreateRequest(request, method), data).options \in Seq(T)
    <2> DEFINE r == CreateRequest(request, method)
    <2>1. SortedRequest(r) /\ r.options \in Seq(T)
        BY <1>1, <1>2, CreateRequestType
    <2> HIDE DEF r
    <2>2. \A data : [r EXCEPT !.payload = data].options = r.options
        BY <2>1 DEF SortedRequest, QCoapRequests
    <2>3. \A data : WithData(r, data).options = r.options
        BY <2>2 DEF WithData
    <2> QED
        BY <2>1, <2>3 DEF r
<1>4. CASE Get
    BY <1>3, <1>4, SendIn DEF Get
<1>5. CASE Put
    <2>1. PICK data \in Payloads : Send(WithData(CreateRequest(request, "Put"), data), FALSE, NoUrl)
        BY <1>5 DEF Put
    <2> QED
        BY <1>3, <2>1, SendIn
<1>6. CASE Post
    <2>1. PICK data \in Payloads : Send(WithData(CreateRequest(request, "Post"), data), FALSE, NoUrl)
        BY <1>6 DEF Post
    <2> QED
        BY <1>3, <2>1, SendIn
<1>7. CASE DeleteResource
    BY <1>3, <1>7, SendIn DEF DeleteResource
<1>8. \A url : NewRequest(url).options \in Seq(T)
    BY EmptySeq DEF NewRequest
<1>9. CASE Observe
    <2>1. CASE Send(Observed(request), FALSE, NoUrl)
        BY <1>1, <2>1, ObservedIn, SendIn
    <2>2. CASE \E url \in Urls : Send(Observed(NewRequest(url)), FALSE, url)
        <3>1. PICK url \in Urls : Send(Observed(NewRequest(url)), FALSE, url)
            BY <2>2
        <3>2. SortedRequest(NewRequest(url)) /\ NewRequest(url).options \in Seq(T)
            BY <1>8, InputUrls, NewRequestType
        <3>3. Observed(NewRequest(url)).options \in Seq(T)
            BY <1>1, <3>2, ObservedIn
        <3> QED
            BY <3>1, <3>3, SendIn
    <2> QED
        BY <1>9, <2>1, <2>2 DEF Observe
<1>10. CASE Discover
    <2>1. ASSUME NEW url \in URLs PROVE CreateRequest(NewRequest(url), "Get").options \in Seq(T)
        <3>1. SortedRequest(NewRequest(url)) /\ NewRequest(url).options \in Seq(T)
            BY <1>8, NewRequestType
        <3> QED
            BY <1>1, <1>2, <3>1, CreateRequestType
    <2>2. PICK url : url \in URLs /\ Send(CreateRequest(NewRequest(url), "Get"), TRUE, NoUrl)
        BY <1>10, DiscoveryUrls
    <2> QED
        BY <2>1, <2>2, SendIn
<1> QED
    BY <1>4, <1>5, <1>6, <1>7, <1>9, <1>10 DEF Operation

LEMMA WorkerIn ==
    ASSUME NEW T, RepliesKept, UNCHANGED request, OptionsIn(T)
    PROVE  OptionsIn(T)'
BY DEF OptionsIn, RepliesKept

(***************************************************************************)
(* The URL of a request on the wire.                                       *)
(***************************************************************************)

\* Options that say nothing of a URL.
PlainOptions == {option \in CoapOptions : option.name \notin {OptionNumber[name] : name \in UriNames}}

\* The user leaves the options of the URL to addUriOptions.
UrlLeftToUrl == UserOptions \subseteq PlainOptions /\ OptionLists \subseteq Seq(PlainOptions)

SentListed == \E S : sent \in Seq(S)

\* Each frame of a request has what addUriOptions makes of that request.
FramesOfRequests ==
    \A n \in DOMAIN sent : sent[n].reply # 0 =>
       sent[n].reply \in DOMAIN replies /\ Carries(sent[n], Requested(n))

UrlInv == RequestInv /\ OptionsIn(PlainOptions) /\ SentListed /\ FramesOfRequests

LEMMA PlainInputs == ASSUME UrlLeftToUrl PROVE Inputs(PlainOptions)
<1>1. Option("Observe", <<>>) \in CoapOptions
    BY OptionType, EmptySeq
<1>2. Option("Observe", <<>>).name = 6
    BY DEF Option, OptionNumber
<1>3. \A name \in UriNames : OptionNumber[name] # 6
    BY UriNumbers DEF UriNames
<1>4. Option("Observe", <<>>) \in PlainOptions
    BY <1>1, <1>2, <1>3 DEF PlainOptions
<1>5. PlainOptions \subseteq CoapOptions
    BY DEF PlainOptions
<1> QED
    BY <1>4, <1>5 DEF Inputs, UrlLeftToUrl

LEMMA PlainSaysNothing == ASSUME NEW options \in Seq(PlainOptions) PROVE Unsaid(options)
<1>1. options \in Seq(CoapOptions)
    BY SeqMonotonic DEF PlainOptions
<1>2. ASSUME NEW name \in UriNames PROVE OptionsNamed(options, name) = <<>>
    <2>1. \A i \in 1..Len(options) : options[i].name # OptionNumber[name]
        BY ElementOfSeq DEF PlainOptions
    <2> QED
        BY <1>1, <2>1, NamedNoneOrAll
<1> QED
    BY <1>2 DEF Unsaid

\* Replies are added and change, but not their requests: the frames that were sent stay theirs.
LEMMA SentKept ==
    ASSUME SentListed, FramesOfRequests, UNCHANGED sent, DOMAIN replies \subseteq DOMAIN replies',
           \A n \in DOMAIN replies : replies'[n].request = replies[n].request
    PROVE  SentListed' /\ FramesOfRequests'
BY DEF SentListed, FramesOfRequests, Requested

\* One more frame.
LEMMA SentOne ==
    ASSUME SentListed, FramesOfRequests, DOMAIN replies \subseteq DOMAIN replies',
           \A n \in DOMAIN replies : replies'[n].request = replies[n].request,
           NEW d, sent' = Append(sent, d),
           d.reply # 0 => d.reply \in DOMAIN replies' /\ Carries(d, replies'[d.reply].request)
    PROVE  SentListed' /\ FramesOfRequests'
<1>1. PICK S : sent \in Seq(S)
    BY DEF SentListed
<1>2. /\ sent' \in Seq(S \cup {d}) /\ Len(sent) \in Nat
      /\ DOMAIN sent' = 1..(Len(sent) + 1) /\ DOMAIN sent = 1..Len(sent)
      /\ sent'[Len(sent) + 1] = d
      /\ \A i \in 1..Len(sent) : sent'[i] = sent[i]
    <2>1. sent \in Seq(S \cup {d})
        BY <1>1, SeqMonotonic
    <2> QED
        BY <1>1, <2>1
<1>3. ASSUME NEW n \in DOMAIN sent', sent'[n].reply # 0
      PROVE  sent'[n].reply \in DOMAIN replies' /\ Carries(sent'[n], replies'[sent'[n].reply].request)
    <2>1. CASE n = Len(sent) + 1
        <3>1. sent'[n] = d
            BY <1>2, <2>1
        <3> QED
            BY <1>3, <3>1
    <2>2. CASE n # Len(sent) + 1
        <3>1. n \in DOMAIN sent /\ sent'[n] = sent[n]
            BY <1>2, <2>2
        <3>2. sent[n].reply \in DOMAIN replies /\ Carries(sent[n], replies[sent[n].reply].request)
            BY <1>3, <3>1 DEF FramesOfRequests, Requested
        <3>3. replies'[sent[n].reply].request = replies[sent[n].reply].request
            BY <3>2
        <3> QED
            BY <3>1, <3>2, <3>3
    <2> QED
        BY <2>1, <2>2
<1>4. FramesOfRequests'
    BY <1>3 DEF FramesOfRequests, Requested
<1> QED
    BY <1>2, <1>4 DEF SentListed

LEMMA UserKeepsUrls ==
    ASSUME UrlInv, RequestInv', OptionsIn(PlainOptions)', EditUrl \/ EditOptions \/ EditMessage \/ Operation
    PROVE  UrlInv'
<1>1. UNCHANGED sent /\ DOMAIN replies \subseteq DOMAIN replies'
      /\ \A n \in DOMAIN replies : replies'[n].request = replies[n].request
    <2>1. CASE EditUrl \/ EditOptions \/ EditMessage
        <3>1. \E changed : Edit(changed)
            BY <2>1 DEF EditUrl, EditOptions, EditMessage
        <3> QED
            BY <3>1 DEF Edit
    <2>2. CASE Operation
        <3>1. PICK r, discovery, asked : Send(r, discovery, asked)
            BY <2>2 DEF Operation, Get, Put, Post, DeleteResource, Observe, Discover
        <3>2. /\ Len(replies) \in Nat /\ DOMAIN replies = 1..Len(replies)
              /\ DOMAIN replies' = 1..(Len(replies) + 1)
              /\ \A i \in 1..Len(replies) : replies'[i] = replies[i]
              /\ UNCHANGED sent
            BY <3>1, SendAppends DEF UrlInv
        <3> QED
            BY <3>2
    <2> QED
        BY <2>1, <2>2
<1>2. SentListed' /\ FramesOfRequests'
    BY <1>1, SentKept DEF UrlInv
<1> QED
    BY <1>2 DEF UrlInv

LEMMA StartRequestUrls ==
    ASSUME UrlInv, RequestInv', StartRequest
    PROVE  UrlInv'
<1>1. /\ calls # <<>> /\ calls \in Seq(DOMAIN replies) /\ UNCHANGED <<request, replies>>
    BY DEF StartRequest, UrlInv, RequestInv, TypeOK
<1> DEFINE n == Head(calls)
           r == replies[n].request
           uri == AddUriOptions(r.options, r.url, r.proxyUrl)
<1>2. n \in DOMAIN replies
    BY <1>1, HeadTailProperties
<1>3. OptionsIn(PlainOptions)'
    BY <1>1 DEF UrlInv, OptionsIn
<1>4. SentListed' /\ FramesOfRequests'
    <2>1. CASE UNCHANGED sent
        BY <1>1, <2>1, SentKept DEF UrlInv
    <2>2. CASE ~UNCHANGED sent
        <3>1. PICK id, token :
                sent' = Append(sent, Datagram(n, [version |-> r.version, type |-> r.type, code |-> r.code,
                                                  messageId |-> id, token |-> token,
                                                  options |-> uri.options, payload |-> r.payload],
                                              uri.targetUri))
            BY <2>2 DEF StartRequest
        <3> DEFINE m == [version |-> r.version, type |-> r.type, code |-> r.code, messageId |-> id, token |-> token,
                         options |-> uri.options, payload |-> r.payload]
                   d == Datagram(n, m, uri.targetUri)
        <3>2. sent' = Append(sent, d)
            BY <3>1
        <3>3. m.options = uri.options
            OBVIOUS
        <3> HIDE DEF m, n
        <3>4. d.reply = n /\ Carries(d, r)
            BY <3>3 DEF Datagram, Carries
        <3> HIDE DEF d
        <3>5. d.reply # 0 => d.reply \in DOMAIN replies' /\ Carries(d, replies'[d.reply].request)
            BY <1>1, <1>2, <3>4
        <3> QED
            BY <1>1, <3>2, <3>5, SentOne DEF UrlInv
    <2> QED
        BY <2>1, <2>2
<1> QED
    BY <1>3, <1>4 DEF UrlInv

LEMMA WorkerKeepsUrls ==
    ASSUME UrlInv, RequestInv', RepliesKept, UNCHANGED request,
           UNCHANGED sent \/ \E m, target : sent' = Append(sent, Datagram(0, m, target))
    PROVE  UrlInv'
<1>1. OptionsIn(PlainOptions)'
    BY WorkerIn DEF UrlInv
<1>2. DOMAIN replies \subseteq DOMAIN replies' /\ \A n \in DOMAIN replies : replies'[n].request = replies[n].request
    BY DEF RepliesKept
<1>3. CASE UNCHANGED sent
    BY <1>1, <1>2, <1>3, SentKept DEF UrlInv
<1>4. CASE \E m, target : sent' = Append(sent, Datagram(0, m, target))
    <2>1. PICK m, target : sent' = Append(sent, Datagram(0, m, target))
        BY <1>4
    <2> DEFINE d == Datagram(0, m, target)
    <2>2. sent' = Append(sent, d) /\ d.reply = 0
        BY <2>1 DEF Datagram
    <2> HIDE DEF d
    <2> QED
        BY <1>1, <1>2, <2>2, SentOne DEF UrlInv
<1> QED
    BY <1>3, <1>4

LEMMA InitUrls == ASSUME Init PROVE UrlInv
<1>1. RequestInv
    BY InitRequests
<1>2. request.options = <<>> /\ DOMAIN replies = {} /\ sent = <<>>
    BY DEF Init, NewRequest
<1>3. sent \in Seq({}) /\ DOMAIN sent = {}
    BY <1>2, EmptySeq
<1>4. request.options \in Seq(PlainOptions)
    BY <1>2, EmptySeq
<1> QED
    BY <1>1, <1>2, <1>3, <1>4 DEF UrlInv, OptionsIn, SentListed, FramesOfRequests

LEMMA StepUrls == ASSUME UrlLeftToUrl, UrlInv, [Next]_vars PROVE UrlInv'
<1>1. RequestInv' /\ RequestInv
    BY StepRequests DEF UrlInv
<1>2. CASE EditUrl \/ EditOptions \/ EditMessage
    <2>1. OptionsIn(PlainOptions)'
        BY <1>1, <1>2, PlainInputs, EditOptionsIn DEF UrlInv
    <2> QED
        BY <1>1, <1>2, <2>1, UserKeepsUrls
<1>3. CASE Operation
    <2>1. OptionsIn(PlainOptions)'
        BY <1>1, <1>3, PlainInputs, OperationIn DEF UrlInv
    <2> QED
        BY <1>1, <1>3, <2>1, UserKeepsUrls
<1>4. CASE StartRequest
    BY <1>1, <1>4, StartRequestUrls
<1>5. CASE OnFrameReceived
    <2>1. RepliesKept /\ UNCHANGED request
        BY <1>1, <1>5, OnFrameReceivedKeeps DEF OnFrameReceived
    <2>2. UNCHANGED sent \/ \E m, target : sent' = Append(sent, Datagram(0, m, target))
        <3>1. \E token, sender, answer : Receive(token, sender, answer)
            BY <1>5 DEF OnFrameReceived
        <3> QED
            BY <3>1 DEF Receive
    <2> QED
        BY <1>1, <2>1, <2>2, WorkerKeepsUrls
<1>6. CASE OnMulticastRequestExpired
    <2>1. RepliesKept /\ UNCHANGED <<request, sent>>
        BY <1>1, <1>6, OnMulticastRequestExpiredKeeps DEF OnMulticastRequestExpired
    <2> QED
        BY <1>1, <2>1, WorkerKeepsUrls
<1>7. CASE HandlePosted
    <2>1. RepliesKept /\ UNCHANGED <<request, sent>>
        BY <1>1, <1>7, HandlePostedKeeps DEF HandlePosted
    <2> QED
        BY <1>1, <2>1, WorkerKeepsUrls
<1>8. CASE AbortRequest
    <2>1. RepliesKept /\ UNCHANGED <<request, sent>>
        BY <1>1, <1>8, AbortRequestKeeps DEF AbortRequest
    <2> QED
        BY <1>1, <2>1, WorkerKeepsUrls
<1>9. CASE UNCHANGED vars
    BY <1>1, <1>9 DEF vars, UrlInv, OptionsIn, SentListed, FramesOfRequests, Requested
<1> QED
    BY <1>2, <1>3, <1>4, <1>5, <1>6, <1>7, <1>8, <1>9 DEF Next

LEMMA UrlsShown == ASSUME UrlInv PROVE ServerSeesUrl
<1>1. SUFFICES ASSUME NEW n \in DOMAIN sent, Direct(n)
               PROVE  /\ Shown(sent[n]) = Meant(Requested(n).url)
                      /\ sent[n].host = Requested(n).url.host /\ sent[n].port = Requested(n).url.port
    BY DEF ServerSeesUrl
<1> DEFINE d == sent[n]
           r == Requested(n)
<1>2. /\ d.reply \in DOMAIN replies /\ Carries(d, r) /\ r = replies[d.reply].request
      /\ r.ordered /\ IsEmpty(r.proxyUrl) /\ IsAscii(r.url)
    BY <1>1 DEF UrlInv, FramesOfRequests, Direct, Requested
<1>3. SortedRequest(r) /\ Prepared(r)
    BY <1>2 DEF UrlInv, RequestInv, TypeOK, OptionsSorted, RequestsPrepared, SortedRequest
<1>4. r.options \in Seq(PlainOptions)
    BY <1>2 DEF UrlInv, OptionsIn
<1> HIDE DEF d, r
<1>5. Unsaid(r.options)
    BY <1>4, PlainSaysNothing
<1>6. Shown(d) = Meant(r.url)
    BY <1>2, <1>3, <1>5, UrlShown
<1>7. d.host = r.url.host /\ d.port = r.url.port
    BY <1>2, <1>3, <1>5, UriOptionsAdded
<1> QED
    BY <1>6, <1>7 DEF d, r

\* addUriOptions: a server rebuilds the host, the path and the query of every request sent without
\* a proxy, whatever other options the user adds, in whatever order, and however the request was
\* made, and the frame goes to the host and the port of its URL.
THEOREM ServersSeeUrls == ASSUME UrlLeftToUrl PROVE Spec => []ServerSeesUrl
<1>1. Init => UrlInv
    BY InitUrls
<1>2. UrlInv /\ [Next]_vars => UrlInv'
    BY StepUrls
<1>3. UrlInv => ServerSeesUrl
    BY UrlsShown
<1> QED
    BY <1>1, <1>2, <1>3, PTL DEF Spec

(***************************************************************************)
(* Core link documents.                                                    *)
(***************************************************************************)

\* One step of Split, of ResourceOf and of ResourcesFromCoreLinkList.
WithToken(parts, t, mark) ==
    IF t = Separator(mark) THEN Append(parts, <<>>)
    ELSE [parts EXCEPT ![Len(parts)] = Append(@, t)]
LinksOf(data) == Split(data, ",")
PartsOf(link) == Split(link, ";")
WithPart(r, p) == IF p = <<>> THEN r ELSE WithParameter(r, p[1])
WithLink(list, link, sender) ==
    IF ResourceOf(sender, link).path = "" THEN list ELSE Append(list, ResourceOf(sender, link))

\* Split goes through the tokens.
Parted(V, tokens, mark, all, F) ==
    /\ F \in [0..Len(tokens) -> V] /\ F[0] = << <<>> >> /\ F[Len(tokens)] = all
    /\ \A k \in 1..Len(tokens) : F[k] = WithToken(F[k - 1], tokens[k], mark)

\* The lists of parts Split makes of the first tokens, each made of the one before.
LEMMA SplitSteps ==
    ASSUME NEW V, NEW T, NEW tokens \in Seq(T), NEW mark,
           << <<>> >> \in V,
           \A v \in V, i \in 1..Len(tokens) : WithToken(v, tokens[i], mark) \in V
    PROVE  \E F : Parted(V, tokens, mark, Split(tokens, mark), F)
<1> DEFINE N == Len(tokens)
           step == [p \in V \X (1..N) |-> WithToken(p[1], tokens[p[2]], mark)]
           Fold(G) == [S \in SUBSET (DOMAIN tokens) |->
                          IF S = {} THEN << <<>> >>
                          ELSE LET x == Max(S) IN WithToken(G[S \ {x}], tokens[x], mark)]
           G == CHOOSE H : H = Fold(H)
<1>1. N \in Nat
    BY LenProperties
<1>2. DOMAIN tokens = 1..N
    BY LenProperties
<1>3. /\ step \in [V \X (1..N) -> V]
      /\ \A v \in V, i \in 1..N : step[<<v, i>>] = WithToken(v, tokens[i], mark)
    OBVIOUS
<1>4. Split(tokens, mark) = G[DOMAIN tokens]
    BY Zenon DEF Split, WithToken, FoldLeft, MapThenFoldSet
<1> HIDE DEF step, N
<1>5. \E H : H = Fold(H)
    <2>1. PICK H : FoldTable(V, << <<>> >>, step, N, H)
        BY <1>1, <1>3, FoldTableExists
    <2>2. ASSUME NEW S \in SUBSET (1..N)
          PROVE  H[S] = IF S = {} THEN << <<>> >> ELSE WithToken(H[S \ {Max(S)}], tokens[Max(S)], mark)
        <3>1. S # {} => Max(S) \in 1..N /\ H[S \ {Max(S)}] \in V
            BY <1>1, <2>1, MaxOfSome DEF FoldTable
        <3> QED
            BY <1>3, <2>1, <3>1 DEF FoldTable
    <2>3. H = [S \in SUBSET (1..N) |-> H[S]]
        BY <2>1 DEF FoldTable
    <2>4. H = Fold(H)
        BY <1>2, <2>2, <2>3
    <2> QED
        BY <2>4
<1>6. G = Fold(G)
    BY <1>5
<1> HIDE DEF G
<1>7. \A S \in SUBSET (1..N) :
        G[S] = IF S = {} THEN << <<>> >> ELSE WithToken(G[S \ {Max(S)}], tokens[Max(S)], mark)
    BY <1>2, <1>6
<1> HIDE DEF Fold
<1>8. Folds(V, << <<>> >>, step, N, G)
    <2>1. ASSUME NEW S \in SUBSET (1..N), S # {}, G[S \ {Max(S)}] \in V
          PROVE  G[S] = step[<<G[S \ {Max(S)}], Max(S)>>]
        BY <1>1, <1>3, <1>7, <2>1, MaxOfSome
    <2> QED
        BY <1>7, <2>1 DEF Folds
<1>9. PICK F : Passes(V, << <<>> >>, step, N, G[1..N], F)
    BY <1>1, <1>3, <1>8, FoldPasses
<1>10. ASSUME NEW k \in 1..N PROVE F[k] = WithToken(F[k - 1], tokens[k], mark)
    <2>1. k - 1 \in 0..N /\ F[k] = step[<<F[k - 1], k>>]
        BY <1>1, <1>9 DEF Passes
    <2>2. F[k - 1] \in V
        BY <1>9, <2>1 DEF Passes
    <2> QED
        BY <1>3, <2>1, <2>2
<1>11. Parted(V, tokens, mark, Split(tokens, mark), F)
    BY <1>2, <1>4, <1>9, <1>10 DEF Passes, Parted, N
<1> QED
    BY <1>11

\* ResourceOf goes through the parts of the link.
Set(V, sender, parts, all, F) ==
    /\ F \in [0..Len(parts) -> V] /\ F[0] = NewResource(sender) /\ F[Len(parts)] = all
    /\ \A k \in 1..Len(parts) : F[k] = WithPart(F[k - 1], parts[k])

\* The resources ResourceOf makes of the first parts.
LEMMA ResourceSteps ==
    ASSUME NEW V, NEW T, NEW sender, NEW link, NEW parts \in Seq(T), parts = PartsOf(link),
           NewResource(sender) \in V,
           \A v \in V, i \in 1..Len(parts) : WithPart(v, parts[i]) \in V
    PROVE  \E F : Set(V, sender, parts, ResourceOf(sender, link), F)
<1> DEFINE N == Len(parts)
           step == [p \in V \X (1..N) |-> WithPart(p[1], parts[p[2]])]
           Fold(G) == [S \in SUBSET (DOMAIN parts) |->
                          IF S = {} THEN NewResource(sender)
                          ELSE LET x == Max(S) IN WithPart(G[S \ {x}], parts[x])]
           G == CHOOSE H : H = Fold(H)
<1>1. N \in Nat
    BY LenProperties
<1>2. DOMAIN parts = 1..N
    BY LenProperties
<1>3. /\ step \in [V \X (1..N) -> V]
      /\ \A v \in V, i \in 1..N : step[<<v, i>>] = WithPart(v, parts[i])
    OBVIOUS
<1>4. ResourceOf(sender, link) = G[DOMAIN parts]
    BY Zenon DEF ResourceOf, PartsOf, WithPart, FoldLeft, MapThenFoldSet
<1> HIDE DEF step, N
<1>5. \E H : H = Fold(H)
    <2>1. PICK H : FoldTable(V, NewResource(sender), step, N, H)
        BY <1>1, <1>3, FoldTableExists
    <2>2. ASSUME NEW S \in SUBSET (1..N)
          PROVE  H[S] = IF S = {} THEN NewResource(sender) ELSE WithPart(H[S \ {Max(S)}], parts[Max(S)])
        <3>1. S # {} => Max(S) \in 1..N /\ H[S \ {Max(S)}] \in V
            BY <1>1, <2>1, MaxOfSome DEF FoldTable
        <3> QED
            BY <1>3, <2>1, <3>1 DEF FoldTable
    <2>3. H = [S \in SUBSET (1..N) |-> H[S]]
        BY <2>1 DEF FoldTable
    <2>4. H = Fold(H)
        BY <1>2, <2>2, <2>3
    <2> QED
        BY <2>4
<1>6. G = Fold(G)
    BY <1>5
<1> HIDE DEF G
<1>7. \A S \in SUBSET (1..N) :
        G[S] = IF S = {} THEN NewResource(sender) ELSE WithPart(G[S \ {Max(S)}], parts[Max(S)])
    BY <1>2, <1>6
<1> HIDE DEF Fold
<1>8. Folds(V, NewResource(sender), step, N, G)
    <2>1. ASSUME NEW S \in SUBSET (1..N), S # {}, G[S \ {Max(S)}] \in V
          PROVE  G[S] = step[<<G[S \ {Max(S)}], Max(S)>>]
        BY <1>1, <1>3, <1>7, <2>1, MaxOfSome
    <2> QED
        BY <1>7, <2>1 DEF Folds
<1>9. PICK F : Passes(V, NewResource(sender), step, N, G[1..N], F)
    BY <1>1, <1>3, <1>8, FoldPasses
<1>10. ASSUME NEW k \in 1..N PROVE F[k] = WithPart(F[k - 1], parts[k])
    <2>1. k - 1 \in 0..N /\ F[k] = step[<<F[k - 1], k>>]
        BY <1>1, <1>9 DEF Passes
    <2>2. F[k - 1] \in V
        BY <1>9, <2>1 DEF Passes
    <2> QED
        BY <1>3, <2>1, <2>2
<1>11. Set(V, sender, parts, ResourceOf(sender, link), F)
    BY <1>2, <1>4, <1>9, <1>10 DEF Passes, Set, N
<1> QED
    BY <1>11

\* ResourcesFromCoreLinkList goes through the links.
Collected(V, sender, links, all, F) ==
    /\ F \in [0..Len(links) -> V] /\ F[0] = <<>> /\ F[Len(links)] = all
    /\ \A k \in 1..Len(links) : F[k] = WithLink(F[k - 1], links[k], sender)

\* The lists of resources ResourcesFromCoreLinkList makes of the first links.
LEMMA LinkListSteps ==
    ASSUME NEW V, NEW T, NEW sender, NEW data, NEW links \in Seq(T), links = LinksOf(data),
           <<>> \in V,
           \A v \in V, i \in 1..Len(links) : WithLink(v, links[i], sender) \in V
    PROVE  \E F : Collected(V, sender, links, ResourcesFromCoreLinkList(sender, data), F)
<1> DEFINE N == Len(links)
           step == [p \in V \X (1..N) |-> WithLink(p[1], links[p[2]], sender)]
           Fold(G) == [S \in SUBSET (DOMAIN links) |->
                          IF S = {} THEN <<>>
                          ELSE LET x == Max(S) IN WithLink(G[S \ {x}], links[x], sender)]
           G == CHOOSE H : H = Fold(H)
<1>1. N \in Nat
    BY LenProperties
<1>2. DOMAIN links = 1..N
    BY LenProperties
<1>3. /\ step \in [V \X (1..N) -> V]
      /\ \A v \in V, i \in 1..N : step[<<v, i>>] = WithLink(v, links[i], sender)
    OBVIOUS
<1>4. ResourcesFromCoreLinkList(sender, data) = G[DOMAIN links]
    BY Zenon DEF ResourcesFromCoreLinkList, LinksOf, WithLink, FoldLeft, MapThenFoldSet
<1> HIDE DEF step, N
<1>5. \E H : H = Fold(H)
    <2>1. PICK H : FoldTable(V, <<>>, step, N, H)
        BY <1>1, <1>3, FoldTableExists
    <2>2. ASSUME NEW S \in SUBSET (1..N)
          PROVE  H[S] = IF S = {} THEN <<>> ELSE WithLink(H[S \ {Max(S)}], links[Max(S)], sender)
        <3>1. S # {} => Max(S) \in 1..N /\ H[S \ {Max(S)}] \in V
            BY <1>1, <2>1, MaxOfSome DEF FoldTable
        <3> QED
            BY <1>3, <2>1, <3>1 DEF FoldTable
    <2>3. H = [S \in SUBSET (1..N) |-> H[S]]
        BY <2>1 DEF FoldTable
    <2>4. H = Fold(H)
        BY <1>2, <2>2, <2>3
    <2> QED
        BY <2>4
<1>6. G = Fold(G)
    BY <1>5
<1> HIDE DEF G
<1>7. \A S \in SUBSET (1..N) :
        G[S] = IF S = {} THEN <<>> ELSE WithLink(G[S \ {Max(S)}], links[Max(S)], sender)
    BY <1>2, <1>6
<1> HIDE DEF Fold
<1>8. Folds(V, <<>>, step, N, G)
    <2>1. ASSUME NEW S \in SUBSET (1..N), S # {}, G[S \ {Max(S)}] \in V
          PROVE  G[S] = step[<<G[S \ {Max(S)}], Max(S)>>]
        BY <1>1, <1>3, <1>7, <2>1, MaxOfSome
    <2> QED
        BY <1>7, <2>1 DEF Folds
<1>9. PICK F : Passes(V, <<>>, step, N, G[1..N], F)
    BY <1>1, <1>3, <1>8, FoldPasses
<1>10. ASSUME NEW k \in 1..N PROVE F[k] = WithLink(F[k - 1], links[k], sender)
    <2>1. k - 1 \in 0..N /\ F[k] = step[<<F[k - 1], k>>]
        BY <1>1, <1>9 DEF Passes
    <2>2. F[k - 1] \in V
        BY <1>9, <2>1 DEF Passes
    <2> QED
        BY <1>3, <2>1, <2>2
<1>11. Collected(V, sender, links, ResourcesFromCoreLinkList(sender, data), F)
    BY <1>2, <1>4, <1>9, <1>10 DEF Passes, Collected, N
<1> QED
    BY <1>11

\* The first k entries of a list.
Prefix(s, k) == [i \in 1..k |-> s[i]]

LEMMA PrefixNext ==
    ASSUME NEW S, NEW s \in Seq(S)
    PROVE  /\ Prefix(s, 0) = <<>> /\ Prefix(s, Len(s)) = s
           /\ \A k \in 0..Len(s) : Prefix(s, k) \in Seq(S)
           /\ \A k \in Nat : k + 1 <= Len(s) => Prefix(s, k + 1) = Append(Prefix(s, k), s[k + 1])
<1>1. Len(s) \in Nat /\ s = [i \in 1..Len(s) |-> s[i]] /\ \A i \in 1..Len(s) : s[i] \in S
    BY LenProperties, ElementOfSeq
<1>2. Prefix(s, 0) = <<>>
    BY DEF Prefix
<1>3. Prefix(s, Len(s)) = s
    BY <1>1 DEF Prefix
<1>4. ASSUME NEW k \in 0..Len(s)
      PROVE  /\ Prefix(s, k) \in Seq(S) /\ Len(Prefix(s, k)) = k
             /\ \A i \in 1..k : Prefix(s, k)[i] = s[i]
    BY <1>1 DEF Prefix
<1>5. ASSUME NEW k \in Nat, k + 1 <= Len(s)
      PROVE  Prefix(s, k + 1) = Append(Prefix(s, k), s[k + 1])
    <2> DEFINE p == Prefix(s, k)
               q == Prefix(s, k + 1)
    <2>1. k \in 0..Len(s) /\ k + 1 \in 0..Len(s) /\ k + 1 \in 1..Len(s)
        BY <1>1, <1>5
    <2>2. p \in Seq(S) /\ Len(p) = k /\ \A i \in 1..k : p[i] = s[i]
        BY <1>4, <2>1
    <2>3. q \in Seq(S) /\ Len(q) = k + 1 /\ \A i \in 1..(k + 1) : q[i] = s[i]
        BY <1>4, <2>1
    <2> HIDE DEF p, q
    <2>4. q = Append(p, s[k + 1])
        BY <1>1, <2>1, <2>2, <2>3
    <2> QED
        BY <2>4 DEF p, q
<1> QED
    BY <1>2, <1>3, <1>4, <1>5

\* The last entry, and a list with another last entry.
LastIs(done, a, b) ==
    LET e == Append(done, a)
    IN  e[Len(e)] = a /\ [e EXCEPT ![Len(e)] = b] = Append(done, b)

LEMMA LastChanged ==
    ASSUME NEW T, NEW done \in Seq(T), NEW a \in T, NEW b \in T
    PROVE  LastIs(done, a, b)
<1> DEFINE e == Append(done, a)
           f == Append(done, b)
           N == Len(done)
           g == [e EXCEPT ![Len(e)] = b]
<1>1. /\ N \in Nat /\ e \in Seq(T) /\ Len(e) = N + 1 /\ e[N + 1] = a
      /\ \A i \in 1..N : e[i] = done[i]
    BY AppendProperties, LenProperties
<1>2. /\ f \in Seq(T) /\ Len(f) = N + 1 /\ f[N + 1] = b
      /\ \A i \in 1..N : f[i] = done[i]
    BY AppendProperties, LenProperties
<1>3. e[Len(e)] = a
    <2> HIDE DEF e, N
    <2> QED
        BY <1>1
<1> HIDE DEF e, f, N
<1>4. DOMAIN e = 1..(N + 1) /\ e = [i \in 1..(N + 1) |-> e[i]] /\ f = [i \in 1..(N + 1) |-> f[i]]
    BY <1>1, <1>2, LenProperties
<1>5. g = [i \in 1..(N + 1) |-> IF i = N + 1 THEN b ELSE e[i]]
    BY <1>1, <1>4
<1>6. \A i \in 1..(N + 1) : (IF i = N + 1 THEN b ELSE e[i]) = f[i]
    <2> TAKE i \in 1..(N + 1)
    <2>1. i = N + 1 \/ i \in 1..N
        BY <1>1
    <2> QED
        BY <1>1, <1>2, <2>1
<1>7. g = f
    <2> HIDE DEF g
    <2> QED
        BY <1>4, <1>5, <1>6
<1> QED
    BY <1>3, <1>7 DEF LastIs, e, f, g

\* Split makes at least one part.
LEMMA SplitPasses ==
    ASSUME NEW S, NEW tokens \in Seq(S), NEW mark
    PROVE  \E F : Parted(Seq(Seq(S)) \ {<<>>}, tokens, mark, Split(tokens, mark), F)
<1> DEFINE V == Seq(Seq(S)) \ {<<>>}
<1>1. << <<>> >> \in V
    <2>1. <<>> \in Seq(S)
        BY EmptySeq
    <2> DEFINE e == <<>>
    <2>2. e \in Seq(S)
        BY <2>1
    <2> HIDE DEF e
    <2>3. <<e>> \in Seq(Seq(S)) /\ <<e>> # <<>>
        BY <2>2
    <2> QED
        BY <2>3 DEF e
<1>2. \A v \in V, i \in 1..Len(tokens) : WithToken(v, tokens[i], mark) \in V
    <2> TAKE v \in V, i \in 1..Len(tokens)
    <2> DEFINE t == tokens[i]
               n == Len(v)
    <2>1. t \in S /\ v \in Seq(Seq(S)) /\ n \in Nat /\ n # 0
        BY ElementOfSeq, LenProperties, EmptySeq
    <2> HIDE DEF t
    <2>2. Append(v, <<>>) \in V
        <3>1. <<>> \in Seq(S)
            BY EmptySeq
        <3> DEFINE e == <<>>
        <3>2. e \in Seq(S)
            BY <3>1
        <3> HIDE DEF e
        <3> DEFINE a == Append(v, e)
        <3>3. a \in Seq(Seq(S)) /\ Len(a) = n + 1
            BY <2>1, <3>2, AppendProperties
        <3> HIDE DEF a
        <3>4. a # <<>>
            BY <2>1, <3>3, EmptySeq
        <3> QED
            BY <3>3, <3>4 DEF e, a
    <2>3. [v EXCEPT ![n] = Append(v[n], t)] \in V
        <3>1. n \in 1..n /\ v[n] \in Seq(S)
            BY <2>1, ElementOfSeq
        <3>2. Append(v[n], t) \in Seq(S)
            BY <2>1, <3>1
        <3> DEFINE a == Append(v[n], t)
                   w == [v EXCEPT ![n] = a]
        <3>3. a \in Seq(S)
            BY <3>2
        <3> HIDE DEF a
        <3>4. w \in Seq(Seq(S)) /\ Len(w) = n
            BY <2>1, <3>1, <3>3
        <3>5. w # <<>>
            BY <2>1, <3>4
        <3> QED
            BY <3>4, <3>5 DEF a
    <2> QED
        BY <2>2, <2>3 DEF WithToken, t, n
<1> HIDE DEF V
<1> QED
    BY <1>1, <1>2, SplitSteps DEF V

\* One token more.
SplitsOn(s, x, mark) == Split(Append(s, x), mark) = WithToken(Split(s, mark), x, mark)

LEMMA SplitAppend ==
    ASSUME NEW S, NEW s \in Seq(S), NEW x \in S, NEW mark
    PROVE  /\ Split(s, mark) \in Seq(Seq(S)) /\ Split(s, mark) # <<>>
           /\ SplitsOn(s, x, mark)
<1> DEFINE V == Seq(Seq(S)) \ {<<>>}
           c == Append(s, x)
           N == Len(s)
<1>1. /\ c \in Seq(S) /\ Len(c) = N + 1 /\ N \in Nat
      /\ \A i \in 1..N : c[i] = s[i]
      /\ c[N + 1] = x
    BY AppendProperties, LenProperties
<1> HIDE DEF c
<1>2. PICK F : Parted(V, s, mark, Split(s, mark), F)
    BY SplitPasses
<1>3. PICK G : Parted(V, c, mark, Split(c, mark), G)
    BY <1>1, SplitPasses
<1>4. /\ F[0] = << <<>> >> /\ F[N] = Split(s, mark) /\ F[N] \in V
      /\ \A k \in 1..N : F[k] = WithToken(F[k - 1], s[k], mark)
    BY <1>1, <1>2 DEF Parted
<1>5. /\ G[0] = << <<>> >> /\ G[N + 1] = Split(c, mark)
      /\ \A k \in 1..(N + 1) : G[k] = WithToken(G[k - 1], c[k], mark)
    BY <1>1, <1>3 DEF Parted
<1> HIDE DEF N
<1> DEFINE P == {k \in Nat : k <= N => F[k] = G[k]}
<1>6. 0 \in P
    BY <1>4, <1>5
<1>7. ASSUME NEW k \in P PROVE k + 1 \in P
    <2> SUFFICES ASSUME k + 1 <= N PROVE F[k + 1] = G[k + 1]
        OBVIOUS
    <2>1. /\ k + 1 \in 1..N /\ (k + 1) - 1 = k /\ k + 1 \in 1..(N + 1) /\ F[k] = G[k]
        BY <1>1
    <2>2. F[k + 1] = WithToken(F[k], s[k + 1], mark)
        BY <1>4, <2>1
    <2>3. G[k + 1] = WithToken(G[k], c[k + 1], mark)
        BY <1>5, <2>1
    <2>4. c[k + 1] = s[k + 1]
        BY <1>1, <2>1
    <2> QED
        BY <2>1, <2>2, <2>3, <2>4
<1> HIDE DEF P
<1>8. N \in P
    <2>1. P \in SUBSET Nat
        BY DEF P
    <2> QED
        BY <1>1, <1>6, <1>7, <2>1, Induction
<1>9. F[N] = G[N]
    BY <1>1, <1>8 DEF P
<1>10. G[N + 1] = WithToken(G[N], x, mark)
    <2>1. N + 1 \in 1..(N + 1) /\ (N + 1) - 1 = N
        BY <1>1
    <2> QED
        BY <1>1, <1>5, <2>1
<1> QED
    BY <1>4, <1>5, <1>9, <1>10 DEF c, SplitsOn

\* Tokens that are no separator go to the last part.
RestAdded(s, part, done, cur, mark) == Split(s \o part, mark) = Append(done, cur \o part)

LEMMA SplitRest ==
    ASSUME NEW S, NEW s \in Seq(S), NEW part \in Seq(S), NEW mark,
           \A i \in 1..Len(part) : part[i] # Separator(mark),
           NEW done \in Seq(Seq(S)), NEW cur \in Seq(S), Split(s, mark) = Append(done, cur)
    PROVE  RestAdded(s, part, done, cur, mark)
<1> DEFINE N == Len(part)
           R(k) == Split(s \o Prefix(part, k), mark) = Append(done, cur \o Prefix(part, k))
           P == {k \in Nat : k <= N => R(k)}
<1>1. N \in Nat /\ Prefix(part, 0) = <<>> /\ Prefix(part, N) = part
    BY LenProperties, PrefixNext
<1>2. 0 \in P
    <2>1. s \o <<>> = s /\ cur \o <<>> = cur
        BY ConcatEmptySeq
    <2>2. R(0)
        BY <1>1, <2>1
    <2> HIDE DEF R
    <2> QED
        BY <2>2
<1>3. ASSUME NEW k \in P PROVE k + 1 \in P
    <2> HIDE DEF R
    <2> SUFFICES ASSUME k + 1 <= N PROVE R(k + 1)
        OBVIOUS
    <2> DEFINE pre == Prefix(part, k)
               x == part[k + 1]
    <2>1. k \in Nat /\ k \in 0..N /\ k + 1 \in 1..N /\ R(k)
        BY <1>1
    <2>2. pre \in Seq(S) /\ Prefix(part, k + 1) = Append(pre, x)
        BY <2>1, PrefixNext
    <2>3. x \in S /\ x # Separator(mark)
        BY <2>1, ElementOfSeq
    <2>4. Split(s \o pre, mark) = Append(done, cur \o pre)
        BY <2>1, Zenon DEF R
    <2> HIDE DEF pre, x
    <2> DEFINE h == s \o pre
               c == cur \o pre
    <2>5. h \in Seq(S) /\ c \in Seq(S)
        BY <2>2, ConcatProperties
    <2>6. Regrouped(s, pre, x) /\ Regrouped(cur, pre, x)
        BY <2>2, <2>3, AppendOfConcat
    <2>7. Append(h, x) = s \o Append(pre, x) /\ Append(c, x) = cur \o Append(pre, x)
        BY <2>6, Zenon DEF Regrouped
    <2>8. Split(h, mark) = Append(done, c)
        BY <2>4
    <2> HIDE DEF h, c
    <2>9. Split(Append(h, x), mark) = WithToken(Append(done, c), x, mark)
        <3>1. SplitsOn(h, x, mark)
            BY <2>3, <2>5, SplitAppend
        <3> QED
            BY <2>8, <3>1, Zenon DEF SplitsOn
    <2>10. WithToken(Append(done, c), x, mark) = Append(done, Append(c, x))
        <3> DEFINE a == Append(c, x)
                   e == Append(done, c)
        <3>1. a \in Seq(S)
            BY <2>3, <2>5
        <3>2. e[Len(e)] = c /\ [e EXCEPT ![Len(e)] = a] = Append(done, a)
            <4> HIDE DEF a
            <4>1. LastIs(done, c, a)
                BY <2>5, <3>1, LastChanged
            <4> QED
                BY <4>1, Zenon DEF LastIs
        <3> HIDE DEF e
        <3>3. WithToken(e, x, mark) = [e EXCEPT ![Len(e)] = Append(e[Len(e)], x)]
            BY <2>3 DEF WithToken
        <3> QED
            BY <3>2, <3>3 DEF e
    <2>11. Split(s \o Prefix(part, k + 1), mark) = Append(done, cur \o Prefix(part, k + 1))
        BY <2>2, <2>7, <2>9, <2>10, Zenon
    <2> QED
        BY <2>11, Zenon DEF R
<1> HIDE DEF P
<1>4. N \in P
    <2>1. P \in SUBSET Nat
        BY DEF P
    <2> HIDE DEF N
    <2> QED
        BY <1>1, <1>2, <1>3, <2>1, Induction
<1>5. R(N)
    <2> HIDE DEF R
    <2> QED
        BY <1>1, <1>4 DEF P
<1> QED
    BY <1>1, <1>5, Zenon DEF RestAdded

\* Parts joined by separators are the parts that Split makes.
Joint(parts, mark) ==
    [i \in DOMAIN parts |-> IF i = 1 THEN parts[i] ELSE <<Separator(mark)>> \o parts[i]]

LEMMA JointType ==
    ASSUME NEW S, NEW mark, NEW parts \in Seq(Seq(S))
    PROVE  Joint(parts, mark) \in Seq(Seq(S \cup {Separator(mark)})) /\ Len(Joint(parts, mark)) = Len(parts)
<1> DEFINE sep == Separator(mark)
           T == S \cup {sep}
           N == Len(parts)
           pieces == Joint(parts, mark)
<1>1. N \in Nat /\ DOMAIN parts = 1..N /\ \A i \in 1..N : parts[i] \in Seq(S)
    BY LenProperties, ElementOfSeq
<1>2. ASSUME NEW i \in 1..N PROVE parts[i] \in Seq(T) /\ <<sep>> \o parts[i] \in Seq(T)
    <2> DEFINE p == parts[i]
    <2>1. p \in Seq(S)
        BY <1>1
    <2> HIDE DEF p, sep
    <2>2. p \in Seq(T)
        BY <2>1, SeqMonotonic
    <2>3. <<sep>> \in Seq(T)
        OBVIOUS
    <2>4. <<sep>> \o p \in Seq(T)
        BY <2>2, <2>3, ConcatProperties
    <2> QED
        BY <2>2, <2>4 DEF p
<1>3. pieces = [i \in 1..N |-> IF i = 1 THEN parts[i] ELSE <<sep>> \o parts[i]]
    BY <1>1 DEF Joint
<1> HIDE DEF pieces, T, N, sep
<1>4. pieces \in [1..N -> Seq(T)]
    BY <1>2, <1>3
<1>5. pieces \in Seq(Seq(T))
    BY <1>1, <1>4, SeqDef
<1>6. Len(pieces) = N
    BY <1>1, <1>4, <1>5, LenProperties
<1> QED
    BY <1>5, <1>6 DEF pieces, T, N, sep

\* An entry between two lists belongs to the first one.
OneAhead(s, x, t) == s \o (<<x>> \o t) = Append(s, x) \o t

LEMMA AppendAsConcat ==
    ASSUME NEW T, NEW s \in Seq(T), NEW x \in T, NEW t \in Seq(T)
    PROVE  OneAhead(s, x, t)
<1> DEFINE u == <<x>>
<1>1. u \in Seq(T) /\ Append(s, x) = s \o u
    <2>1. u \in Seq(T)
        OBVIOUS
    <2>2. Append(s, x) = s \o u
        BY AppendIsConcat
    <2> QED
        BY <2>1, <2>2
<1> HIDE DEF u
<1>2. s \o (u \o t) = (s \o u) \o t
    BY <1>1, ConcatAssociative
<1> QED
    BY <1>1, <1>2, Zenon DEF u, OneAhead

LEMMA SplitJoint ==
    ASSUME NEW S, NEW mark, Separator(mark) \notin S, NEW parts \in Seq(Seq(S)), parts # <<>>
    PROVE  Split(FlattenSeq(Joint(parts, mark)), mark) = parts
<1> DEFINE sep == Separator(mark)
           T == S \cup {sep}
           N == Len(parts)
           pieces == Joint(parts, mark)
<1>1. /\ N \in Nat /\ N >= 1 /\ DOMAIN parts = 1..N /\ \A i \in 1..N : parts[i] \in Seq(S)
    BY LenProperties, ElementOfSeq, EmptySeq
<1>2. ASSUME NEW i \in 1..N
      PROVE  /\ parts[i] \in Seq(S) /\ parts[i] \in Seq(T) /\ \A j \in 1..Len(parts[i]) : parts[i][j] # sep
    <2> DEFINE p == parts[i]
    <2>1. p \in Seq(S)
        BY <1>1
    <2> HIDE DEF p
    <2>2. p \in Seq(T)
        BY <2>1, SeqMonotonic
    <2>3. \A j \in 1..Len(p) : p[j] # sep
        BY <2>1, ElementOfSeq
    <2> QED
        BY <2>1, <2>2, <2>3 DEF p
<1> HIDE DEF sep
<1>3. pieces \in Seq(Seq(T)) /\ Len(pieces) = N
    BY JointType, Zenon DEF sep
<1>4. pieces[1] = parts[1] /\ \A i \in 2..N : pieces[i] = <<sep>> \o parts[i]
    BY <1>1 DEF Joint, sep
<1> HIDE DEF pieces
<1>5. PICK G : Flattened(T, pieces, FlattenSeq(pieces), G)
    BY <1>3, FlattenSteps
<1>6. /\ G[0] = <<>> /\ G[N] = FlattenSeq(pieces) /\ \A k \in 0..N : G[k] \in Seq(T)
      /\ \A k \in 1..N : G[k] = G[k - 1] \o pieces[k]
    BY <1>1, <1>3, <1>5 DEF Flattened
<1> HIDE DEF N, T
<1> DEFINE R(k) == Split(G[k + 1], mark) = Prefix(parts, k + 1)
           P == {k \in Nat : k + 1 <= N => R(k)}
<1>7. <<>> \in Seq(S) /\ <<>> \in Seq(T) /\ <<>> \in Seq(Seq(T)) /\ Split(<<>>, mark) = << <<>> >>
    <2>1. PICK F : Parted(Seq(Seq(S)) \ {<<>>}, <<>>, mark, Split(<<>>, mark), F)
        BY EmptySeq, SplitPasses
    <2>2. Len(<<>>) = 0
        BY EmptySeq
    <2> QED
        BY <2>1, <2>2, EmptySeq DEF Parted
<1>8. 0 \in P
    <2> DEFINE p == parts[1]
    <2>1. p \in Seq(S) /\ p \in Seq(T) /\ \A j \in 1..Len(p) : p[j] # sep
        BY <1>1, <1>2
    <2>2. G[1] = <<>> \o p
        <3>1. 1 \in 1..N /\ 1 - 1 = 0
            BY <1>1
        <3> QED
            BY <1>4, <1>6, <3>1, Zenon
    <2>3. << <<>> >> = Append(<<>>, <<>>)
        OBVIOUS
    <2>4. Split(<<>> \o p, mark) = Append(<<>>, <<>> \o p)
        <3> DEFINE e == <<>>
                   d == <<>>
        <3>1. e \in Seq(T) /\ d \in Seq(Seq(T)) /\ Split(e, mark) = Append(d, e)
            BY <1>7, <2>3
        <3> HIDE DEF p, e, d
        <3>2. RestAdded(e, p, d, e, mark)
            BY <2>1, <3>1, SplitRest DEF sep
        <3> QED
            BY <3>2, Zenon DEF RestAdded, e, d
    <2>5. <<>> \o p = p
        BY <2>1, ConcatEmptySeq
    <2>6. Prefix(parts, 0 + 1) = Append(<<>>, p)
        <3>1. 0 \in Nat /\ 0 + 1 <= N /\ 0 + 1 = 1
            BY <1>1
        <3> QED
            BY <3>1, PrefixNext DEF N
    <2>7. R(0)
        <3>1. 0 + 1 = 1
            OBVIOUS
        <3> QED
            BY <2>2, <2>4, <2>5, <2>6, <3>1, Zenon
    <2> HIDE DEF R
    <2> QED
        BY <2>7
<1>9. ASSUME NEW k \in P PROVE k + 1 \in P
    <2> HIDE DEF R
    <2> SUFFICES ASSUME (k + 1) + 1 <= N PROVE R(k + 1)
        OBVIOUS
    <2> DEFINE m == k + 1
               p == parts[m + 1]
               g == G[m]
               done == Prefix(parts, m)
    <2>1. /\ k \in Nat /\ m \in Nat /\ m \in 0..N /\ m + 1 \in 1..N /\ m + 1 \in 2..N /\ (m + 1) - 1 = m
          /\ R(k)
        BY <1>1
    <2>2. p \in Seq(S) /\ p \in Seq(T) /\ \A j \in 1..Len(p) : p[j] # sep
        BY <1>2, <2>1
    <2>3. g \in Seq(T) /\ G[m + 1] = g \o (<<sep>> \o p)
        BY <1>4, <1>6, <2>1, Zenon
    <2>4. Split(g, mark) = done
        BY <2>1, Zenon DEF R, m
    <2>5. Prefix(parts, m + 1) = Append(done, p)
        BY <2>1, PrefixNext DEF N
    <2> HIDE DEF p, g, done
    <2>6. sep \in T
        BY DEF T
    <2>7. G[m + 1] = Append(g, sep) \o p
        <3>1. OneAhead(g, sep, p)
            BY <2>2, <2>3, <2>6, AppendAsConcat
        <3> QED
            BY <2>3, <3>1, Zenon DEF OneAhead
    <2>8. Split(Append(g, sep), mark) = Append(done, <<>>) /\ done \in Seq(Seq(T)) /\ Append(g, sep) \in Seq(T)
        <3>1. Split(Append(g, sep), mark) = WithToken(done, sep, mark) /\ done \in Seq(Seq(T))
            <4>1. SplitsOn(g, sep, mark) /\ Split(g, mark) \in Seq(Seq(T))
                BY <2>3, <2>6, SplitAppend
            <4> QED
                BY <2>4, <4>1, Zenon DEF SplitsOn
        <3>2. WithToken(done, sep, mark) = Append(done, <<>>)
            BY DEF WithToken, sep
        <3>3. Append(g, sep) \in Seq(T)
            BY <2>3, <2>6
        <3> QED
            BY <3>1, <3>2, <3>3
    <2>9. Split(Append(g, sep) \o p, mark) = Append(done, <<>> \o p)
        <3> DEFINE e == <<>>
                   h == Append(g, sep)
        <3>1. e \in Seq(T) /\ h \in Seq(T) /\ Split(h, mark) = Append(done, e)
            BY <1>7, <2>8
        <3> HIDE DEF e, h
        <3>2. RestAdded(h, p, done, e, mark)
            BY <2>2, <2>8, <3>1, SplitRest DEF sep
        <3> QED
            BY <3>2, Zenon DEF RestAdded, e, h
    <2>10. <<>> \o p = p
        BY <2>2, ConcatEmptySeq
    <2>11. Split(G[m + 1], mark) = Prefix(parts, m + 1)
        BY <2>5, <2>7, <2>9, <2>10, Zenon
    <2> QED
        BY <2>11, Zenon DEF R, m
<1> DEFINE l == N - 1
<1>10. l \in Nat /\ l + 1 = N
    BY <1>1
<1> HIDE DEF P, l
<1>11. l \in P
    <2>1. P \in SUBSET Nat
        BY DEF P
    <2> QED
        BY <1>8, <1>9, <1>10, <2>1, Induction
<1>12. R(l)
    <2> HIDE DEF R
    <2>1. l + 1 <= N
        BY <1>1, <1>10
    <2> QED
        BY <1>11, <2>1 DEF P
<1>13. Split(G[N], mark) = Prefix(parts, N)
    BY <1>10, <1>12, Zenon
<1>14. Prefix(parts, N) = parts
    BY PrefixNext DEF N
<1> QED
    BY <1>6, <1>13, <1>14, Zenon DEF pieces

\* What a parameter sets, and to what.
Known(t) == t.name \in DOMAIN Attribute
Field(t) == Attribute[t.name]
Setting(t) == IF t.name = "obs" THEN TRUE ELSE t.value
Fields == {"host", "path", "title", "resourceType", "interface", "maximumSize", "contentFormat", "observable"}

\* A link has a path and each attribute at most once.
LinkWritten(link) ==
    /\ \E i \in DOMAIN link : link[i].name = "path" /\ link[i].value # ""
    /\ \A i, j \in DOMAIN link : Known(link[i]) /\ link[i].name = link[j].name => i = j

\* The one field a parameter sets.
LEMMA WithParameterSets ==
    \A r, t : WithParameter(r, t) = IF Known(t) THEN [r EXCEPT ![Field(t)] = Setting(t)] ELSE r
BY Zenon DEF WithParameter, Known, Field, Setting

LEMMA KnownFields ==
    /\ \A host : DOMAIN NewResource(host) = Fields /\ NewResource(host) = [a \in Fields |-> NewResource(host)[a]]
    /\ \A t : Known(t) => Field(t) \in Fields
    /\ \A t : Known(t) => (Field(t) = "observable" <=> t.name = "obs")
    /\ \A t : t.name = "path" => Known(t) /\ Field(t) = "path" /\ Setting(t) = t.value
    /\ \A t, u : Known(t) /\ Known(u) /\ Field(t) = Field(u) => t.name = u.name
<1>1. \A host : DOMAIN NewResource(host) = Fields /\ NewResource(host) = [a \in Fields |-> NewResource(host)[a]]
    BY DEF NewResource, Fields
<1>2. \A t : Known(t) => Field(t) \in Fields /\ (Field(t) = "observable" <=> t.name = "obs")
    BY DEF Known, Field, Attribute, Fields
<1>3. \A t : t.name = "path" => Known(t) /\ Field(t) = "path" /\ Setting(t) = t.value
    BY DEF Known, Field, Setting, Attribute
<1>4. \A t, u : Known(t) /\ Known(u) /\ Field(t) = Field(u) => t.name = u.name
    BY DEF Known, Field, Attribute
<1> QED
    BY <1>1, <1>2, <1>3, <1>4

\* What a link says of each field.
Unset(link, k, a) == \A i \in 1..k : ~(Known(link[i]) /\ Field(link[i]) = a)

SaysOf(host, link, D) ==
    /\ D = [a \in Fields |-> D[a]]
    /\ \A i \in 1..Len(link) : Known(link[i]) => D[Field(link[i])] = Setting(link[i])
    /\ \A a \in Fields : Unset(link, Len(link), a)
                         => D[a] = NewResource(host)[a]
    /\ D.path # ""

\* Described, field by field.
LEMMA DescribedFields ==
    ASSUME NEW T, NEW host, NEW link \in Seq(T), LinkWritten(link)
    PROVE  SaysOf(host, link, Described(host, link))
<1> DEFINE D == Described(host, link)
           Given(a) == {t \in {link[i] : i \in DOMAIN link} : Known(t) /\ Field(t) = a}
           Chosen(a) == CHOOSE t \in Given(a) : TRUE
<1>1. DOMAIN link = 1..Len(link)
    BY LenProperties
<1>2. D = [a \in Fields |-> IF Given(a) = {} THEN NewResource(host)[a]
                            ELSE IF a = "observable" THEN TRUE ELSE Chosen(a).value]
    <2>1. DOMAIN NewResource(host) = Fields
        BY KnownFields
    <2> QED
        BY <2>1, Zenon DEF Described, Known, Field
<1> HIDE DEF D
<1>3. ASSUME NEW i \in 1..Len(link), Known(link[i]) PROVE D[Field(link[i])] = Setting(link[i])
    <2> DEFINE t == link[i]
               a == Field(t)
    <2>1. a \in Fields /\ (a = "observable" <=> t.name = "obs")
        BY <1>3, KnownFields
    <2>2. \A u \in Given(a) : u = t
        <3> SUFFICES ASSUME NEW u \in Given(a) PROVE u = t
            OBVIOUS
        <3>1. PICK j \in 1..Len(link) : u = link[j]
            BY <1>1
        <3>2. Known(u) /\ Field(u) = a
            OBVIOUS
        <3>3. u.name = t.name
            BY <1>3, <3>2, KnownFields
        <3>4. j = i
            BY <1>1, <1>3, <3>1, <3>2, <3>3 DEF LinkWritten
        <3> QED
            BY <3>1, <3>4
    <2>3. t \in Given(a)
        BY <1>1, <1>3
    <2> HIDE DEF Given, t
    <2>4. Given(a) # {} /\ Chosen(a) = t
        BY <2>2, <2>3
    <2> HIDE DEF Chosen, a
    <2>5. D[a] = IF a = "observable" THEN TRUE ELSE t.value
        BY <1>2, <2>1, <2>4
    <2> QED
        BY <2>1, <2>5 DEF Setting, t, a
<1>4. ASSUME NEW a \in Fields, Unset(link, Len(link), a)
      PROVE  D[a] = NewResource(host)[a]
    <2>1. Given(a) = {}
        BY <1>1, <1>4 DEF Unset
    <2> HIDE DEF Given, Chosen
    <2> QED
        BY <1>2, <2>1
<1>5. D.path # ""
    <2>1. PICK i \in 1..Len(link) : link[i].name = "path" /\ link[i].value # ""
        BY <1>1 DEF LinkWritten
    <2> QED
        BY <1>3, <2>1, KnownFields
<1> QED
    <2>1. D = [a \in Fields |-> D[a]]
        BY <1>2
    <2>2. SaysOf(host, link, D)
        BY <1>3, <1>4, <1>5, <2>1, Zenon DEF SaysOf
    <2> QED
        BY <2>2 DEF D

\* One parameter in each part.
Singles(link) == [i \in DOMAIN link |-> <<link[i]>>]

LEMMA SinglesType ==
    ASSUME NEW S, NEW link \in Seq(S)
    PROVE  Singles(link) \in Seq(Seq(S)) /\ Len(Singles(link)) = Len(link)
<1> DEFINE s == Singles(link)
<1>1. Len(link) \in Nat /\ DOMAIN link = 1..Len(link) /\ \A i \in 1..Len(link) : link[i] \in S
    BY LenProperties, ElementOfSeq
<1>2. \A i \in 1..Len(link) : <<link[i]>> \in Seq(S)
    <2> TAKE i \in 1..Len(link)
    <2> DEFINE x == link[i]
    <2>1. x \in S
        BY <1>1
    <2> HIDE DEF x
    <2>2. <<x>> \in Seq(S)
        BY <2>1
    <2> QED
        BY <2>2 DEF x
<1>3. s \in [1..Len(link) -> Seq(S)]
    BY <1>1, <1>2 DEF Singles
<1> HIDE DEF s
<1>4. s \in Seq(Seq(S))
    BY <1>1, <1>3, SeqDef
<1>5. Len(s) = Len(link)
    BY <1>1, <1>3, <1>4, LenProperties
<1> QED
    BY <1>4, <1>5 DEF s

\* The resource of a link whose parts have one parameter each.
LEMMA ResourceDescribed ==
    ASSUME NEW S, NEW host, NEW link \in Seq(S), LinkWritten(link), NEW tokens,
           PartsOf(tokens) = Singles(link)
    PROVE  ResourceOf(host, tokens) = Described(host, link)
<1> DEFINE N == Len(link)
           parts == Singles(link)
           U == {NewResource(host)[a] : a \in Fields} \cup {Setting(link[i]) : i \in 1..N}
           V == [Fields -> U]
<1>1. N \in Nat /\ DOMAIN link = 1..N /\ parts \in Seq(Seq(S)) /\ Len(parts) = N
    BY LenProperties, SinglesType
<1>2. \A i \in 1..N : \A r : WithPart(r, parts[i]) = WithParameter(r, link[i])
    <2> TAKE i \in 1..N
    <2> TAKE r
    <2>1. parts[i] = <<link[i]>>
        BY <1>1 DEF Singles
    <2>2. <<link[i]>> # <<>> /\ <<link[i]>>[1] = link[i]
        OBVIOUS
    <2> QED
        BY <2>1, <2>2, Zenon DEF WithPart
<1> HIDE DEF parts
<1>3. NewResource(host) \in V
    BY KnownFields
<1>4. \A v \in V, i \in 1..N : WithParameter(v, link[i]) \in V
    <2> TAKE v \in V, i \in 1..N
    <2>1. Setting(link[i]) \in U
        OBVIOUS
    <2> HIDE DEF U
    <2> QED
        BY <2>1, WithParameterSets, KnownFields
<1>5. \A v \in V, i \in 1..N : WithPart(v, parts[i]) \in V
    BY <1>2, <1>4
<1> HIDE DEF U, N
<1>6. PICK F : Set(V, host, parts, ResourceOf(host, tokens), F)
    <2> HIDE DEF V
    <2>1. parts = PartsOf(tokens)
        BY DEF parts
    <2> QED
        BY <1>1, <1>3, <1>5, <2>1, ResourceSteps
<1>7. /\ F[0] = NewResource(host) /\ F[N] = ResourceOf(host, tokens)
      /\ \A k \in 0..N : F[k] \in V
      /\ \A k \in 1..N : F[k] = WithParameter(F[k - 1], link[k])
    BY <1>1, <1>2, <1>6 DEF Set
<1> DEFINE Has(k) == \A i \in 1..k : Known(link[i]) => F[k][Field(link[i])] = Setting(link[i])
           Keeps(k) == \A a \in Fields : Unset(link, k, a)
                                         => F[k][a] = NewResource(host)[a]
           R(k) == Has(k) /\ Keeps(k)
           P == {k \in Nat : k <= N => R(k)}
<1>8. R(0)
    BY <1>7
<1>9. ASSUME NEW k \in P PROVE k + 1 \in P
    <2> HIDE DEF R
    <2> SUFFICES ASSUME k + 1 <= N PROVE R(k + 1)
        OBVIOUS
    <2> DEFINE t == link[k + 1]
               old == F[k]
               new == F[k + 1]
    <2>1. /\ k \in Nat /\ k \in 0..N /\ k + 1 \in 0..N /\ k + 1 \in 1..N /\ (k + 1) - 1 = k /\ R(k)
        BY <1>1
    <2>2. old \in V /\ new = IF Known(t) THEN [old EXCEPT ![Field(t)] = Setting(t)] ELSE old
        BY <1>7, <2>1, WithParameterSets
    <2>3. /\ \A i \in 1..k : Known(link[i]) => old[Field(link[i])] = Setting(link[i])
          /\ \A a \in Fields : Unset(link, k, a)
                               => old[a] = NewResource(host)[a]
        BY <2>1 DEF R
    <2>4. Known(t) => Field(t) \in Fields
        BY KnownFields
    <2>5. \A i \in 1..k : Known(link[i]) /\ Known(t) => Field(link[i]) # Field(t)
        <3> TAKE i \in 1..k
        <3>1. i \in 1..N /\ i # k + 1
            BY <1>1, <2>1
        <3> QED
            BY <1>1, <2>1, <3>1, KnownFields DEF LinkWritten
    <2> HIDE DEF old, new
    <2>6. \A a \in Fields : new[a] = IF Known(t) /\ Field(t) = a THEN Setting(t) ELSE old[a]
        BY <2>2, <2>4
    <2>7. \A i \in 1..k : Known(link[i]) => Field(link[i]) \in Fields
        BY KnownFields
    <2>8. \A i \in 1..(k + 1) : i \in 1..k \/ i = k + 1
        BY <2>1
    <2>9. Has(k + 1)
        <3> SUFFICES ASSUME NEW i \in 1..(k + 1), Known(link[i])
                     PROVE  new[Field(link[i])] = Setting(link[i])
            BY DEF new
        <3>1. CASE i = k + 1
            BY <2>4, <2>6, <3>1
        <3>2. CASE i \in 1..k
            BY <2>3, <2>5, <2>6, <2>7, <3>2
        <3> QED
            BY <2>8, <3>1, <3>2
    <2>10. Keeps(k + 1)
        <3> SUFFICES ASSUME NEW a \in Fields,
                            Unset(link, k + 1, a)
                     PROVE  new[a] = NewResource(host)[a]
            BY DEF new
        <3>1. \A i \in 1..k : i \in 1..(k + 1)
            BY <2>1
        <3>2. k + 1 \in 1..(k + 1)
            BY <2>1
        <3> QED
            BY <2>3, <2>6, <3>1, <3>2 DEF Unset
    <2> QED
        BY <2>9, <2>10 DEF R
<1>10. 0 \in P
    BY <1>8
<1> HIDE DEF P
<1>11. N \in P
    <2>1. P \in SUBSET Nat
        BY DEF P
    <2> QED
        BY <1>1, <1>9, <1>10, <2>1, Induction
<1>12. Has(N) /\ Keeps(N)
    <2>1. R(N)
        <3> HIDE DEF R
        <3> QED
            BY <1>1, <1>11 DEF P
    <2> QED
        BY <2>1
<1> DEFINE r == F[N]
           D == Described(host, link)
<1>13. r = [a \in Fields |-> r[a]] /\ D = [a \in Fields |-> D[a]]
    <2>1. r \in V
        BY <1>1, <1>7
    <2> HIDE DEF r
    <2> QED
        <3>1. SaysOf(host, link, D)
            BY DescribedFields
        <3> HIDE DEF D
        <3> QED
            BY <2>1, <3>1 DEF SaysOf
<1>14. \A a \in Fields : r[a] = D[a]
    <2>3. /\ \A i \in 1..N : Known(link[i]) => D[Field(link[i])] = Setting(link[i])
          /\ \A a \in Fields : Unset(link, N, a)
                               => D[a] = NewResource(host)[a]
        <3>1. SaysOf(host, link, D)
            BY DescribedFields
        <3> QED
            BY <3>1, Zenon DEF SaysOf, N
    <2> HIDE DEF r, D
    <2>4. /\ \A i \in 1..N : Known(link[i]) => r[Field(link[i])] = Setting(link[i])
          /\ \A a \in Fields : Unset(link, N, a)
                               => r[a] = NewResource(host)[a]
        BY <1>12 DEF r
    <2> TAKE a \in Fields
    <2>1. CASE Unset(link, N, a)
        <3>1. r[a] = NewResource(host)[a]
            BY <2>4, <2>1
        <3>2. D[a] = NewResource(host)[a]
            BY <2>3, <2>1
        <3> QED
            BY <3>1, <3>2, Zenon
    <2>2. CASE \E i \in 1..N : Known(link[i]) /\ Field(link[i]) = a
        BY <2>3, <2>4, <2>2, Zenon
    <2> QED
        BY <2>1, <2>2 DEF Unset
<1>15. r = D
    <2> HIDE DEF r, D
    <2> QED
        BY <1>13, <1>14
<1> QED
    BY <1>7, <1>15

\* The two ends name their separators.
TokensOf(link, mark) ==
    FlattenSeq([i \in DOMAIN link |-> IF i = 1 THEN <<link[i]>> ELSE <<Separator(mark), link[i]>>])
LinesOf(links) == [i \in DOMAIN links |-> LinkTokens(links[i])]
DocumentOf(links, mark) == FlattenSeq(Joint(LinesOf(links), mark))
Marks(comma, semicolon) ==
    /\ comma # semicolon
    /\ \A link : LinkTokens(link) = TokensOf(link, semicolon.name) /\ PartsOf(link) = Split(link, semicolon.name)
    /\ \A links : Document(links) = DocumentOf(links, comma.name)
    /\ \A data : LinksOf(data) = Split(data, comma.name)
    /\ Separator(comma.name) = comma /\ Separator(semicolon.name) = semicolon

LEMMA MarksDiffer == Marks(Separator(","), Separator(";"))
<1>1. \A m : Separator(m).name = m
    BY DEF Separator
<1>2. Separator(",") # Separator(";")
    <2>1. \A m, n : Separator(m) = Separator(n) => m = n
        <3> SUFFICES ASSUME NEW m, NEW n, Separator(m) = Separator(n) PROVE m = n
            OBVIOUS
        <3>1. Separator(m).name = m /\ Separator(n).name = n
            BY <1>1
        <3> QED
            BY <3>1
    <2>2. "," # ";"
        BY Zenon
    <2> QED
        BY <2>1, <2>2, Zenon
<1>3. \A link : LinkTokens(link) = TokensOf(link, ";") /\ PartsOf(link) = Split(link, ";")
    BY Zenon DEF LinkTokens, TokensOf, PartsOf
<1>4. \A links : Document(links) = DocumentOf(links, ",")
    <2> TAKE links
    <2> DEFINE lines == LinesOf(links)
    <2>1. DOMAIN lines = DOMAIN links /\ \A i \in DOMAIN links : lines[i] = LinkTokens(links[i])
        BY Zenon DEF LinesOf
    <2> HIDE DEF lines
    <2>2. [i \in DOMAIN links |-> IF i = 1 THEN LinkTokens(links[i])
                                  ELSE <<Separator(",")>> \o LinkTokens(links[i])]
          = [i \in DOMAIN lines |-> IF i = 1 THEN lines[i] ELSE <<Separator(",")>> \o lines[i]]
        BY <2>1, Zenon
    <2>3. Document(links) = FlattenSeq(Joint(lines, ","))
        BY <2>2, Zenon DEF Document, Joint
    <2> QED
        BY <2>3, Zenon DEF lines, DocumentOf
<1>5. \A data : LinksOf(data) = Split(data, ",")
    BY Zenon DEF LinksOf
<1> QED
    BY <1>1, <1>2, <1>3, <1>4, <1>5, Zenon DEF Marks

\* The type of the parts and separators in one list.
LEMMA JointFlat ==
    ASSUME NEW S, NEW mark, NEW parts \in Seq(Seq(S))
    PROVE  FlattenSeq(Joint(parts, mark)) \in Seq(S \cup {Separator(mark)})
<1> DEFINE pieces == Joint(parts, mark)
           T == S \cup {Separator(mark)}
<1>1. pieces \in Seq(Seq(T)) /\ Len(pieces) \in Nat
    BY JointType, LenProperties
<1> HIDE DEF pieces, T
<1>2. PICK G : Flattened(T, pieces, FlattenSeq(pieces), G)
    BY <1>1, FlattenSteps
<1>3. FlattenSeq(pieces) \in Seq(T)
    BY <1>1, <1>2 DEF Flattened
<1> QED
    BY <1>3 DEF pieces, T

LEMMA PairConcat == \A x, y : <<x, y>> = <<x>> \o <<y>>
<1> TAKE x, y
<1> DEFINE T == {x, y}
           u == <<x>>
           v == <<y>>
           c == u \o v
           d == <<x, y>>
<1>1. /\ u \in Seq(T) /\ Len(u) = 1 /\ u[1] = x
      /\ v \in Seq(T) /\ Len(v) = 1 /\ v[1] = y
    OBVIOUS
<1>2. d \in Seq(T) /\ Len(d) = 2 /\ d[1] = x /\ d[2] = y
    OBVIOUS
<1> HIDE DEF u, v, T, d
<1>3. MadeOf(T, u, v, c)
    BY <1>1, ConcatIs
<1> HIDE DEF c
<1>4. c \in Seq(T) /\ Len(c) = 2 /\ c[1] = x /\ c[2] = y
    <2>1. /\ c \in Seq(T) /\ Len(c) = Len(u) + Len(v)
          /\ \A i \in 1..Len(u) : c[i] = u[i]
          /\ \A i \in 1..Len(v) : c[Len(u) + i] = v[i]
        BY <1>3 DEF MadeOf
    <2>2. 1 \in 1..1 /\ 1 + 1 = 2
        OBVIOUS
    <2> QED
        BY <1>1, <2>1, <2>2
<1>5. d = c
    <2>1. \A i \in 1..2 : i = 1 \/ i = 2
        OBVIOUS
    <2>2. \A i \in 1..Len(d) : d[i] = c[i]
        BY <1>2, <1>4, <2>1
    <2> QED
        BY <1>2, <1>4, <2>2, SeqEqual
<1> QED
    BY <1>5 DEF c, d, u, v

\* The tokens of a link are its parameters with separators between them.
LEMMA TokensJoint ==
    ASSUME NEW S, NEW mark, NEW link \in Seq(S)
    PROVE  TokensOf(link, mark) = FlattenSeq(Joint(Singles(link), mark))
<1> DEFINE s == Singles(link)
<1>1. DOMAIN s = DOMAIN link /\ \A i \in DOMAIN link : s[i] = <<link[i]>>
    BY DEF Singles
<1> HIDE DEF s
<1>2. \A x, y : <<x, y>> = <<x>> \o <<y>>
    BY PairConcat
<1>3. [i \in DOMAIN link |-> IF i = 1 THEN <<link[i]>> ELSE <<Separator(mark), link[i]>>] = Joint(s, mark)
    <2>1. ASSUME NEW i \in DOMAIN link
          PROVE  (IF i = 1 THEN <<link[i]>> ELSE <<Separator(mark), link[i]>>)
                 = IF i = 1 THEN s[i] ELSE <<Separator(mark)>> \o s[i]
        <3>1. s[i] = <<link[i]>>
            BY <1>1
        <3>2. <<Separator(mark), link[i]>> = <<Separator(mark)>> \o <<link[i]>>
            BY <1>2, Zenon
        <3> QED
            BY <3>1, <3>2, Zenon
    <2> QED
        BY <1>1, <2>1, Zenon DEF Joint
<1> QED
    BY <1>3, Zenon DEF TokensOf, s

\* Split finds the parameters of a link.
LEMMA TokensSplit ==
    ASSUME NEW S, NEW mark, Separator(mark) \notin S, NEW link \in Seq(S), link # <<>>
    PROVE  Split(TokensOf(link, mark), mark) = Singles(link) /\ TokensOf(link, mark) \in Seq(S \cup {Separator(mark)})
<1> DEFINE s == Singles(link)
           t == TokensOf(link, mark)
<1>1. s \in Seq(Seq(S)) /\ s # <<>>
    <2>1. s \in Seq(Seq(S)) /\ Len(s) = Len(link)
        BY SinglesType
    <2>2. Len(link) # 0
        BY EmptySeq
    <2> HIDE DEF s
    <2> QED
        BY <2>1, <2>2, EmptySeq
<1>2. t = FlattenSeq(Joint(s, mark))
    BY TokensJoint
<1> HIDE DEF s, t
<1>3. Split(t, mark) = s
    BY <1>1, <1>2, SplitJoint
<1>4. t \in Seq(S \cup {Separator(mark)})
    BY <1>1, <1>2, JointFlat
<1> QED
    BY <1>3, <1>4 DEF s, t

\* A parameter is no separator.
ParametersWritten(Parameters) == Separator(",") \notin Parameters /\ Separator(";") \notin Parameters

\* The resources of a document are those its links describe, in their order.
ResourcesFor(host, links) == [i \in DOMAIN links |-> Described(host, links[i])]

\* One link is read as it was written.
LEMMA LineRead ==
    ASSUME NEW Parameters, ParametersWritten(Parameters), NEW host,
           NEW link \in Seq(Parameters), LinkWritten(link)
    PROVE  /\ ResourceOf(host, LinkTokens(link)) = Described(host, link)
           /\ LinkTokens(link) \in Seq(Parameters \cup {Separator(";")})
           /\ Described(host, link).path # ""
<1> DEFINE comma == Separator(",")
           semicolon == Separator(";")
           tokens == LinkTokens(link)
           mark == semicolon.name
<1>1. Marks(comma, semicolon) /\ semicolon \notin Parameters
    BY MarksDiffer, Zenon DEF ParametersWritten
<1> HIDE DEF comma, semicolon
<1>2. /\ tokens = TokensOf(link, mark) /\ PartsOf(tokens) = Split(tokens, mark)
      /\ Separator(mark) = semicolon
    BY <1>1, Zenon DEF Marks
<1>3. link # <<>>
    <2>1. PICK i \in DOMAIN link : link[i].name = "path"
        BY DEF LinkWritten
    <2>2. DOMAIN link = 1..Len(link) /\ Len(link) \in Nat
        BY LenProperties
    <2>3. Len(link) # 0
        BY <2>1, <2>2
    <2> QED
        BY <2>3, EmptySeq
<1> HIDE DEF tokens, mark
<1>4. Split(tokens, mark) = Singles(link) /\ tokens \in Seq(Parameters \cup {semicolon})
    BY <1>1, <1>2, <1>3, TokensSplit
<1>5. ResourceOf(host, tokens) = Described(host, link)
    <2>1. PartsOf(tokens) = Singles(link)
        BY <1>2, <1>4
    <2> QED
        BY <2>1, ResourceDescribed
<1>6. Described(host, link).path # ""
    BY DescribedFields DEF SaysOf
<1> QED
    BY <1>4, <1>5, <1>6, Zenon DEF tokens, semicolon

\* An empty document has no resources.
LEMMA NothingRead ==
    ASSUME NEW Parameters, NEW host
    PROVE  ResourcesFromCoreLinkList(host, Document(<<>>)) = <<>>
<1> DEFINE comma == Separator(",")
           semicolon == Separator(";")
           e == <<>>
           d == Document(e)
           parts == << e >>
           T == {e}
<1>1. Marks(comma, semicolon)
    BY MarksDiffer
<1> HIDE DEF comma, semicolon
<1>2. d = e
    <2> DEFINE p == Joint(LinesOf(e), comma.name)
    <2>1. p = <<>>
        BY DEF LinesOf, Joint
    <2>2. p \in Seq(Seq(T)) /\ Len(p) = 0
        BY <2>1, EmptySeq
    <2> HIDE DEF p, T
    <2>3. PICK G : Flattened(T, p, FlattenSeq(p), G)
        BY <2>2, FlattenSteps
    <2>4. FlattenSeq(p) = <<>>
        BY <2>2, <2>3 DEF Flattened
    <2> HIDE DEF e
    <2>5. d = FlattenSeq(p)
        BY <1>1, Zenon DEF Marks, DocumentOf, p
    <2> QED
        BY <2>4, <2>5, Zenon DEF e
<1>3. parts \in Seq(Seq(T)) /\ parts \in Seq(T) /\ Len(parts) = 1 /\ parts[1] = e /\ e \in Seq(T)
    <2>1. e \in Seq(T) /\ e \in T
        BY EmptySeq
    <2> HIDE DEF e
    <2> QED
        BY <2>1
<1>4. \A mark : Split(e, mark) = parts
    <2> TAKE mark
    <2>1. PICK F : Parted(Seq(Seq(T)) \ {<<>>}, e, mark, Split(e, mark), F)
        BY EmptySeq, SplitPasses
    <2>2. Len(e) = 0
        BY EmptySeq
    <2> QED
        BY <2>1, <2>2 DEF Parted
<1>5. PartsOf(e) = parts /\ LinksOf(e) = parts
    BY <1>1, <1>4, Zenon DEF Marks
<1>6. WithPart(NewResource(host), e) = NewResource(host)
    BY DEF WithPart
<1> HIDE DEF e, parts, d, T
<1>7. ResourceOf(host, e) = NewResource(host)
    <2> DEFINE V == {NewResource(host)}
    <2>1. \A v \in V, i \in 1..Len(parts) : WithPart(v, parts[i]) \in V
        BY <1>3, <1>6
    <2>2. NewResource(host) \in V
        OBVIOUS
    <2>3. ASSUME NEW v \in V PROVE v = NewResource(host)
        OBVIOUS
    <2> HIDE DEF V
    <2>4. PICK F : Set(V, host, parts, ResourceOf(host, e), F)
        BY <1>3, <1>5, <2>1, <2>2, ResourceSteps
    <2>5. F \in [0..Len(parts) -> V] /\ F[Len(parts)] = ResourceOf(host, e) /\ Len(parts) \in 0..Len(parts)
        BY <1>3, <2>4 DEF Set
    <2> QED
        BY <2>3, <2>5
<1>8. WithLink(<<>>, e, host) = <<>>
    <2>1. NewResource(host).path = ""
        BY DEF NewResource
    <2> QED
        BY <1>7, <2>1 DEF WithLink
<1>9. ResourcesFromCoreLinkList(host, e) = <<>>
    <2> DEFINE V == {<<>>}
    <2>1. \A v \in V, i \in 1..Len(parts) : WithLink(v, parts[i], host) \in V
        BY <1>3, <1>8
    <2>2. <<>> \in V
        OBVIOUS
    <2>3. ASSUME NEW v \in V PROVE v = <<>>
        OBVIOUS
    <2> HIDE DEF V
    <2>4. PICK F : Collected(V, host, parts, ResourcesFromCoreLinkList(host, e), F)
        BY <1>3, <1>5, <2>1, <2>2, LinkListSteps
    <2>5. /\ F \in [0..Len(parts) -> V] /\ F[Len(parts)] = ResourcesFromCoreLinkList(host, e)
          /\ Len(parts) \in 0..Len(parts)
        BY <1>3, <2>4 DEF Collected
    <2> QED
        BY <2>3, <2>5
<1> QED
    BY <1>2, <1>9, Zenon DEF d, e

\* A function on 1..n is a list.
LEMMA LinesType ==
    ASSUME NEW T, NEW n \in Nat, NEW s, DOMAIN s = 1..n, s = [i \in DOMAIN s |-> s[i]], \A i \in 1..n : s[i] \in T
    PROVE  s \in Seq(T) /\ Len(s) = n
<1>1. s \in [1..n -> T]
    OBVIOUS
<1>2. s \in Seq(T)
    BY <1>1, SeqDef
<1> QED
    BY <1>1, <1>2, LenProperties

\* resourcesFromCoreLinkList: of a document written of links it makes the resources these describe,
\* in their order, however many links and parameters there are.
THEOREM LinksReadBack ==
    ASSUME NEW Parameters, ParametersWritten(Parameters), NEW host,
           NEW links \in Seq(Seq(Parameters)), \A i \in 1..Len(links) : LinkWritten(links[i])
    PROVE  ResourcesFromCoreLinkList(host, Document(links)) = ResourcesFor(host, links)
<1> DEFINE comma == Separator(",")
           semicolon == Separator(";")
           mark == comma.name
           T == Parameters \cup {semicolon}
           N == Len(links)
           lines == LinesOf(links)
           D == ResourcesFor(host, links)
           A == {Described(host, links[i]) : i \in 1..N}
           V == Seq(A)
           data == Document(links)
<1>1. N \in Nat /\ DOMAIN links = 1..N /\ \A i \in 1..N : links[i] \in Seq(Parameters)
    BY LenProperties, ElementOfSeq
<1>2. Marks(comma, semicolon) /\ comma \notin Parameters
    BY MarksDiffer, Zenon DEF ParametersWritten
<1>3. ASSUME NEW i \in 1..N
      PROVE  /\ ResourceOf(host, LinkTokens(links[i])) = Described(host, links[i])
             /\ LinkTokens(links[i]) \in Seq(T)
             /\ Described(host, links[i]).path # ""
    <2> DEFINE link == links[i]
    <2>1. link \in Seq(Parameters) /\ LinkWritten(link)
        BY <1>1
    <2> HIDE DEF link
    <2>2. /\ ResourceOf(host, LinkTokens(link)) = Described(host, link)
          /\ LinkTokens(link) \in Seq(T)
          /\ Described(host, link).path # ""
        BY <2>1, LineRead, Zenon
    <2> QED
        BY <2>2, Zenon DEF link
<1>4. CASE links = <<>>
    <2>1. ResourcesFor(host, <<>>) = <<>>
        BY DEF ResourcesFor
    <2> QED
        BY <1>4, <2>1, NothingRead, Zenon
<1>5. CASE links # <<>>
    <2>1. N # 0
        BY <1>5, EmptySeq
    <2> HIDE DEF comma, semicolon
    <2>2. Separator(mark) = comma /\ comma \notin T /\ data = DocumentOf(links, mark)
          /\ LinksOf(data) = Split(data, mark)
        <3>1. comma # semicolon
            BY <1>2 DEF Marks
        <3>2. comma \notin T
            BY <1>2, <3>1
        <3> QED
            BY <1>2, <3>2, Zenon DEF Marks
    <2>3. lines \in Seq(Seq(T)) /\ Len(lines) = N /\ \A i \in 1..N : lines[i] = LinkTokens(links[i])
        <3>1. /\ DOMAIN lines = 1..N /\ lines = [i \in DOMAIN lines |-> lines[i]]
              /\ \A i \in 1..N : lines[i] = LinkTokens(links[i])
            BY <1>1 DEF LinesOf
        <3> HIDE DEF lines, N, T
        <3>2. \A i \in 1..N : lines[i] \in Seq(T)
            BY <1>3, <3>1
        <3> QED
            BY <1>1, <3>1, <3>2, LinesType
    <2> HIDE DEF T
    <2>4. lines = LinksOf(data)
        <3>1. data = FlattenSeq(Joint(lines, mark))
            BY <2>2, Zenon DEF DocumentOf
        <3>2. lines # <<>>
            <4> HIDE DEF lines
            <4> QED
                BY <2>1, <2>3, EmptySeq
        <3> HIDE DEF lines, data, mark
        <3>3. Split(FlattenSeq(Joint(lines, mark)), mark) = lines
            BY <2>2, <2>3, <3>2, SplitJoint
        <3> QED
            BY <2>2, <3>1, <3>3, Zenon
    <2>5. D \in Seq(A) /\ Len(D) = N /\ \A i \in 1..N : D[i] = Described(host, links[i])
        <3>1. /\ DOMAIN D = 1..N /\ D = [i \in DOMAIN D |-> D[i]]
              /\ \A i \in 1..N : D[i] = Described(host, links[i])
            BY <1>1 DEF ResourcesFor
        <3> HIDE DEF D, N
        <3>2. \A i \in 1..N : D[i] \in A
            BY <3>1
        <3> HIDE DEF A
        <3> QED
            BY <1>1, <3>1, <3>2, LinesType
    <2> HIDE DEF D, lines, data, N
    <2>6. \A i \in 1..N : \A v : WithLink(v, lines[i], host) = Append(v, D[i])
        <3> TAKE i \in 1..N
        <3> TAKE v
        <3>1. ResourceOf(host, lines[i]) = D[i] /\ D[i].path # ""
            BY <1>3, <2>3, <2>5
        <3> QED
            BY <3>1, Zenon DEF WithLink
    <2>7. \A i \in 1..N : D[i] \in A
        BY <2>5
    <2> HIDE DEF A
    <2>8. \A v \in V, i \in 1..Len(lines) : WithLink(v, lines[i], host) \in V
        <3> TAKE v \in V, i \in 1..Len(lines)
        <3> DEFINE x == D[i]
        <3>1. x \in A /\ WithLink(v, lines[i], host) = Append(v, x)
            BY <2>3, <2>6, <2>7
        <3> HIDE DEF x
        <3>2. Append(v, x) \in Seq(A)
            BY <3>1, AppendProperties
        <3> QED
            BY <3>1, <3>2, Zenon
    <2>9. <<>> \in V
        BY EmptySeq
    <2> HIDE DEF V
    <2>10. PICK F : Collected(V, host, lines, ResourcesFromCoreLinkList(host, data), F)
        BY <2>3, <2>4, <2>8, <2>9, LinkListSteps
    <2>11. /\ F[0] = <<>> /\ F[N] = ResourcesFromCoreLinkList(host, data)
           /\ \A k \in 1..N : F[k] = Append(F[k - 1], D[k])
        BY <2>3, <2>6, <2>10 DEF Collected
    <2> DEFINE R(k) == F[k] = Prefix(D, k)
               P == {k \in Nat : k <= N => R(k)}
    <2>12. Prefix(D, 0) = <<>> /\ Prefix(D, N) = D
           /\ \A k \in Nat : k + 1 <= N => Prefix(D, k + 1) = Append(Prefix(D, k), D[k + 1])
        BY <2>5, PrefixNext
    <2>13. 0 \in P
        BY <2>11, <2>12
    <2>14. ASSUME NEW k \in P PROVE k + 1 \in P
        <3> HIDE DEF R
        <3> SUFFICES ASSUME k + 1 <= N PROVE R(k + 1)
            OBVIOUS
        <3>1. k \in Nat /\ k + 1 \in 1..N /\ (k + 1) - 1 = k /\ R(k)
            BY <1>1
        <3>2. F[k + 1] = Append(F[k], D[k + 1])
            BY <2>11, <3>1
        <3>3. Prefix(D, k + 1) = Append(Prefix(D, k), D[k + 1])
            BY <2>12, <3>1
        <3> QED
            BY <3>1, <3>2, <3>3, Zenon DEF R
    <2> HIDE DEF P
    <2>15. N \in P
        <3>1. P \in SUBSET Nat
            BY DEF P
        <3> QED
            BY <1>1, <2>13, <2>14, <3>1, Induction
    <2>16. R(N)
        <3> HIDE DEF R
        <3> QED
            BY <1>1, <2>15 DEF P
    <2> QED
        BY <2>11, <2>12, <2>16, Zenon DEF D, data
<1> QED
    BY <1>4, <1>5

(***************************************************************************)
(* The resources of the answers to a reply.                                *)
(***************************************************************************)

\* The user's links: parameters are no separators, each link has a path and each attribute at
\* most once.
LinksWritten(Parameters) ==
    /\ ParametersWritten(Parameters)
    /\ \A p \in Payloads : /\ Links[p] \in Seq(Seq(Parameters))
                           /\ \A i \in 1..Len(Links[p]) : LinkWritten(Links[p][i])

\* What the replies take of the answers.
Heard == [sender : Addresses, code : Codes, payload : Payloads]

\* One list more in front of nothing.
GoesOn(seqs, s) == FlattenSeq(Append(seqs, s)) = FlattenSeq(seqs) \o s

LEMMA FlattenAppend ==
    ASSUME NEW S, NEW seqs \in Seq(Seq(S)), NEW s \in Seq(S)
    PROVE  GoesOn(seqs, s) /\ FlattenSeq(seqs) \in Seq(S)
<1> DEFINE c == Append(seqs, s)
           N == Len(seqs)
<1>1. /\ c \in Seq(Seq(S)) /\ Len(c) = N + 1 /\ N \in Nat
      /\ \A i \in 1..N : c[i] = seqs[i]
      /\ c[N + 1] = s
    BY AppendProperties, LenProperties
<1> HIDE DEF c
<1>2. PICK F : Flattened(S, seqs, FlattenSeq(seqs), F)
    BY FlattenSteps
<1>3. PICK G : Flattened(S, c, FlattenSeq(c), G)
    BY <1>1, FlattenSteps
<1>4. /\ F[0] = <<>> /\ F[N] = FlattenSeq(seqs) /\ F[N] \in Seq(S)
      /\ \A k \in 1..N : F[k] = F[k - 1] \o seqs[k]
    <2>1. /\ F \in [0..N -> Seq(S)] /\ F[0] = <<>> /\ F[N] = FlattenSeq(seqs)
          /\ \A k \in 1..N : F[k] = F[k - 1] \o seqs[k]
        BY <1>2, Zenon DEF Flattened
    <2>2. N \in 0..N
        BY <1>1
    <2>3. F[N] \in Seq(S)
        BY <2>1, <2>2, Zenon
    <2> QED
        BY <2>1, <2>3, Zenon
<1>5. /\ G[0] = <<>> /\ G[N + 1] = FlattenSeq(c)
      /\ \A k \in 1..(N + 1) : G[k] = G[k - 1] \o c[k]
    BY <1>1, <1>3 DEF Flattened
<1> HIDE DEF N
<1> DEFINE P == {k \in Nat : k <= N => F[k] = G[k]}
<1>6. 0 \in P
    BY <1>4, <1>5
<1>7. ASSUME NEW k \in P PROVE k + 1 \in P
    <2> SUFFICES ASSUME k + 1 <= N PROVE F[k + 1] = G[k + 1]
        OBVIOUS
    <2>1. /\ k + 1 \in 1..N /\ (k + 1) - 1 = k /\ k + 1 \in 1..(N + 1) /\ F[k] = G[k]
        <3>1. N \in Nat /\ k \in Nat /\ (k <= N => F[k] = G[k])
            BY <1>1
        <3> HIDE DEF P
        <3>2. k + 1 \in 1..N /\ (k + 1) - 1 = k /\ k + 1 \in 1..(N + 1) /\ k <= N
            BY <3>1
        <3> QED
            BY <3>1, <3>2
    <2>2. F[k + 1] = F[k] \o seqs[k + 1]
        BY <1>4, <2>1, Zenon
    <2>3. G[k + 1] = G[k] \o c[k + 1]
        BY <1>5, <2>1, Zenon
    <2>4. c[k + 1] = seqs[k + 1]
        BY <1>1, <2>1
    <2> QED
        BY <2>1, <2>2, <2>3, <2>4, Zenon
<1> HIDE DEF P
<1>8. N \in P
    <2>1. P \in SUBSET Nat
        BY DEF P
    <2> QED
        BY <1>1, <1>6, <1>7, <2>1, Induction
<1>9. F[N] = G[N]
    BY <1>1, <1>8 DEF P
<1>10. G[N + 1] = G[N] \o s
    <2>1. N + 1 \in 1..(N + 1) /\ (N + 1) - 1 = N
        BY <1>1
    <2> QED
        BY <1>1, <1>5, <2>1, Zenon
<1> QED
    BY <1>4, <1>5, <1>9, <1>10, Zenon DEF c, GoesOn

\* What documents of those links may name.
Resources(Parameters) == {Described(h, l) : h \in Addresses, l \in Seq(Parameters)}

LEMMA AnswerResources ==
    ASSUME NEW Parameters, LinksWritten(Parameters), NEW a \in Heard
    PROVE  /\ FromAnswer(a) \in Seq(Resources(Parameters))
           /\ IsError(a.code) => FromAnswer(a) = <<>>
           /\ ~IsError(a.code) =>
                 FromAnswer(a) = ResourcesFromCoreLinkList(a.sender, Document(Links[a.payload]))
<1> DEFINE h == a.sender
           links == Links[a.payload]
           N == Len(links)
           D == ResourcesFor(h, links)
<1>1. h \in Addresses /\ a.payload \in Payloads
    BY DEF Heard
<1>2. links \in Seq(Seq(Parameters)) /\ (\A i \in 1..N : LinkWritten(links[i])) /\ ParametersWritten(Parameters)
    BY <1>1 DEF LinksWritten
<1> HIDE DEF h, links
<1>3. DOMAIN links = 1..N /\ N \in Nat /\ \A i \in 1..N : links[i] \in Seq(Parameters)
    BY <1>2, LenProperties, ElementOfSeq
<1>4. D = ResourcesFromCoreLinkList(h, Document(links))
    BY <1>2, LinksReadBack
<1>5. D \in Seq(Resources(Parameters))
    <2>1. /\ DOMAIN D = 1..N /\ D = [i \in DOMAIN D |-> D[i]]
          /\ \A i \in 1..N : D[i] = Described(h, links[i])
        BY <1>3 DEF ResourcesFor
    <2> HIDE DEF D, N
    <2>2. \A i \in 1..N : D[i] \in Resources(Parameters)
        BY <1>1, <1>3, <2>1 DEF Resources
    <2> QED
        BY <1>3, <2>1, <2>2, LinesType
<1>6. FromAnswer(a) = IF IsError(a.code) THEN <<>> ELSE D
    BY Zenon DEF FromAnswer, ResourcesFor, h, links
<1> HIDE DEF D
<1>7. <<>> \in Seq(Resources(Parameters))
    BY EmptySeq
<1> QED
    BY <1>4, <1>5, <1>6, <1>7, Zenon DEF h, links

\* The resources of the first answers.
FirstGoesOn(k, answered) == First(k + 1, answered) = First(k, answered) \o FromAnswer(answered[k + 1])

\* The first k + 1 answers are the first k and one more.
LEMMA FirstNext ==
    ASSUME NEW Parameters, LinksWritten(Parameters), NEW answered \in Seq(Heard),
           NEW k \in Nat, k + 1 <= Len(answered)
    PROVE  FirstGoesOn(k, answered) /\ First(k, answered) \in Seq(Resources(Parameters))
<1> DEFINE R == Resources(Parameters)
           p == [i \in 1..k |-> FromAnswer(answered[i])]
           q == [i \in 1..(k + 1) |-> FromAnswer(answered[i])]
           s == FromAnswer(answered[k + 1])
<1>1. \A i \in 1..(k + 1) : FromAnswer(answered[i]) \in Seq(R)
    <2> TAKE i \in 1..(k + 1)
    <2> DEFINE a == answered[i]
    <2>1. i \in 1..Len(answered)
        BY LenProperties
    <2>2. a \in Heard
        BY <2>1, ElementOfSeq
    <2> HIDE DEF a, R
    <2>3. FromAnswer(a) \in Seq(R)
        BY <2>2, AnswerResources DEF R
    <2> QED
        BY <2>3 DEF a
<1> HIDE DEF R
<1>2. p \in Seq(Seq(R)) /\ Len(p) = k /\ \A i \in 1..k : p[i] = FromAnswer(answered[i])
    <2>1. /\ DOMAIN p = 1..k /\ p = [i \in DOMAIN p |-> p[i]]
          /\ \A i \in 1..k : i \in 1..(k + 1) /\ p[i] = FromAnswer(answered[i])
        OBVIOUS
    <2> HIDE DEF p
    <2>2. \A i \in 1..k : p[i] \in Seq(R)
        BY <1>1, <2>1
    <2> QED
        BY <2>1, <2>2, LinesType
<1>3. q \in Seq(Seq(R)) /\ Len(q) = k + 1 /\ \A i \in 1..(k + 1) : q[i] = FromAnswer(answered[i])
    <2>1. /\ DOMAIN q = 1..(k + 1) /\ q = [i \in DOMAIN q |-> q[i]]
          /\ \A i \in 1..(k + 1) : q[i] = FromAnswer(answered[i])
        OBVIOUS
    <2> HIDE DEF q
    <2>2. \A i \in 1..(k + 1) : q[i] \in Seq(R)
        BY <1>1, <2>1
    <2> QED
        BY <2>1, <2>2, LinesType
<1>4. s \in Seq(R) /\ q[k + 1] = s
    <2>1. k + 1 \in 1..(k + 1)
        OBVIOUS
    <2> QED
        BY <1>1, <2>1
<1> HIDE DEF p, q, s
<1>5. q = Append(p, s)
    <2> DEFINE c == Append(p, s)
    <2>1. /\ c \in Seq(Seq(R)) /\ Len(c) = k + 1
          /\ \A i \in 1..k : c[i] = p[i]
          /\ c[k + 1] = s
        BY <1>2, <1>4, AppendProperties
    <2> HIDE DEF c
    <2>2. \A i \in 1..Len(q) : q[i] = c[i]
        <3> TAKE i \in 1..Len(q)
        <3>1. i \in 1..k \/ i = k + 1
            BY <1>3
        <3>2. i \in 1..(k + 1)
            BY <1>3
        <3> QED
            BY <1>2, <1>3, <1>4, <2>1, <3>1, <3>2
    <2>3. q = c
        BY <1>3, <2>1, <2>2, SeqEqual
    <2> QED
        BY <2>3 DEF c
<1>6. GoesOn(p, s) /\ FlattenSeq(p) \in Seq(R)
    BY <1>2, <1>4, FlattenAppend
<1>7. First(k + 1, answered) = FlattenSeq(q) /\ First(k, answered) = FlattenSeq(p)
    BY Zenon DEF First, p, q
<1>8. FlattenSeq(q) = FlattenSeq(p) \o s
    BY <1>5, <1>6, Zenon DEF GoesOn
<1> QED
    BY <1>6, <1>7, <1>8, Zenon DEF FirstGoesOn, s, R

\* No answers have no resources.
LEMMA FirstNone == \A answered : First(0, answered) = <<>>
<1> TAKE answered
<1> DEFINE p == [i \in 1..0 |-> FromAnswer(answered[i])]
<1>1. p \in Seq(Seq({})) /\ Len(p) = 0
    <2>1. p = <<>>
        OBVIOUS
    <2> HIDE DEF p
    <2> QED
        BY <2>1, EmptySeq
<1> HIDE DEF p
<1>2. PICK G : Flattened({}, p, FlattenSeq(p), G)
    BY <1>1, FlattenSteps
<1>3. FlattenSeq(p) = <<>>
    BY <1>1, <1>2 DEF Flattened
<1> QED
    BY <1>3, Zenon DEF First, p

\* An answer that comes later does not change what the first ones had.
LEMMA FirstKept ==
    ASSUME NEW answered \in Seq(Heard), NEW a \in Heard, NEW k \in 0..Len(answered)
    PROVE  First(k, Append(answered, a)) = First(k, answered)
<1> DEFINE c == Append(answered, a)
<1>1. \A i \in 1..Len(answered) : c[i] = answered[i]
    BY AppendProperties
<1>2. Len(answered) \in Nat
    BY LenProperties
<1> HIDE DEF c
<1>3. \A i \in 1..k : c[i] = answered[i]
    BY <1>1, <1>2
<1>4. [i \in 1..k |-> FromAnswer(c[i])] = [i \in 1..k |-> FromAnswer(answered[i])]
    BY <1>3
<1> QED
    BY <1>4, Zenon DEF First, c

(***************************************************************************)
(* The calls that hand the answers to the replies.                         *)
(***************************************************************************)

\* A posted call that hands a content to a reply, and the answer it was made of.
ContentOf(e, n) == e.op = "setContent" /\ e.reply = n
IsFor(e, a) == e.sender = a.sender /\ e.answer.code = a.code /\ e.answer.payload = a.payload

\* The reply n has taken its first k answers; the others are posted, in their order: answer j
\* is the one in the call at place f[j].
Queued(n, r, calling, k, f) ==
    /\ \A i, j \in (k + 1)..Len(r.answered) : i < j => f[i] < f[j]
    /\ \A j \in (k + 1)..Len(r.answered) :
          ContentOf(calling[f[j]], n) /\ IsFor(calling[f[j]], r.answered[j])
    /\ \A p \in DOMAIN calling :
          ContentOf(calling[p], n) => \E j \in (k + 1)..Len(r.answered) : f[j] = p
    /\ r.discovery => r.resources = First(k, r.answered)

Waiting(n, r, calling) ==
    \E k \in 0..Len(r.answered) : \E f \in [(k + 1)..Len(r.answered) -> DOMAIN calling] :
       Queued(n, r, calling, k, f)

\* A reply that is finished by itself has taken every answer, one that is aborted some of them.
Ended(n, r, calling) ==
    /\ r.discovery => \E k \in 0..Len(r.answered) : r.resources = First(k, r.answered)
    /\ ~r.aborted => /\ r.discovery => r.resources = First(Len(r.answered), r.answered)
                     /\ \A p \in DOMAIN calling : calling[p].reply # n

Followed(n, r, calling) ==
    /\ r.answered \in Seq(Heard)
    /\ IF r.finished THEN Ended(n, r, calling) ELSE Waiting(n, r, calling) /\ ~r.aborted

\* No answer to the reply is to come.
Over(n) ==
    /\ \A i \in DOMAIN calls : calls[i] # n
    /\ \A t \in DOMAIN exchanges : exchanges[t].reply # n

\* Each reply is started once and has at most one exchange.
StartedOnce ==
    /\ \A i, j \in DOMAIN calls : calls[i] = calls[j] => i = j
    /\ \A t \in DOMAIN exchanges : exchanges[t].reply \in DOMAIN replies
    /\ \A t, u \in DOMAIN exchanges : exchanges[t].reply = exchanges[u].reply => t = u
    /\ \A i \in DOMAIN calls, t \in DOMAIN exchanges : calls[i] # exchanges[t].reply

\* The call that ends a reply is the last one posted to it.
EndsLast ==
    /\ \A p \in DOMAIN posted : posted[p].reply \in DOMAIN replies
    /\ \A p \in DOMAIN posted : posted[p].op # "setContent" =>
          /\ Over(posted[p].reply)
          /\ \A q \in DOMAIN posted : q > p => posted[q].reply # posted[p].reply

EndedOver == \A n \in DOMAIN replies : replies[n].finished /\ ~replies[n].aborted => Over(n)

AnswersFollowed == \A n \in DOMAIN replies : Followed(n, replies[n], posted)

\* The places of the calls when one more is posted, and when one is taken.
LEMMA QueuePlaces ==
    ASSUME NEW T, NEW calling \in Seq(T), NEW c \in T, NEW later, later = Append(calling, c)
    PROVE  /\ Len(calling) \in Nat /\ DOMAIN calling = 1..Len(calling)
           /\ later \in Seq(T) /\ DOMAIN later = 1..(Len(calling) + 1)
           /\ later[Len(calling) + 1] = c
           /\ \A p \in 1..Len(calling) : later[p] = calling[p]
<1>1. /\ later \in Seq(T) /\ Len(later) = Len(calling) + 1 /\ Len(calling) \in Nat
      /\ later[Len(calling) + 1] = c /\ \A p \in 1..Len(calling) : later[p] = calling[p]
    BY AppendProperties, LenProperties
<1> QED
    BY <1>1, LenProperties

LEMMA TailPlaces ==
    ASSUME NEW T, NEW calling \in Seq(T), calling # <<>>, NEW later, later = Tail(calling)
    PROVE  /\ Len(calling) \in Nat /\ Len(calling) >= 1 /\ DOMAIN calling = 1..Len(calling)
           /\ later \in Seq(T) /\ DOMAIN later = 1..(Len(calling) - 1)
           /\ \A p \in 1..(Len(calling) - 1) : later[p] = calling[p + 1]
<1>1. /\ later \in Seq(T) /\ Len(later) = Len(calling) - 1
      /\ \A p \in 1..Len(later) : later[p] = calling[p + 1]
    BY HeadTailProperties
<1>2. Len(calling) \in Nat /\ Len(calling) # 0
    BY LenProperties, EmptySeq
<1> QED
    BY <1>1, <1>2, LenProperties

\* A call that hands no content to the reply is posted.
LEMMA QueueOther ==
    ASSUME NEW T, NEW calling \in Seq(T), NEW c \in T, NEW n, NEW r, ~ContentOf(c, n),
           Waiting(n, r, calling), NEW later, later = Append(calling, c)
    PROVE  Waiting(n, r, later)
<1> DEFINE A == Len(r.answered)
<1>1. PICK k \in 0..A : \E f \in [(k + 1)..A -> DOMAIN calling] : Queued(n, r, calling, k, f)
    BY DEF Waiting
<1>2. PICK f \in [(k + 1)..A -> DOMAIN calling] : Queued(n, r, calling, k, f)
    BY <1>1
<1>3. /\ Len(calling) \in Nat /\ DOMAIN calling = 1..Len(calling)
      /\ DOMAIN later = 1..(Len(calling) + 1) /\ later[Len(calling) + 1] = c
      /\ \A p \in 1..Len(calling) : later[p] = calling[p]
    BY QueuePlaces
<1>4. f \in [(k + 1)..A -> DOMAIN later]
    BY <1>3
<1>5. \A j \in (k + 1)..A : later[f[j]] = calling[f[j]]
    BY <1>3
<1>6. ASSUME NEW p \in DOMAIN later, ContentOf(later[p], n)
      PROVE  \E j \in (k + 1)..A : f[j] = p
    <2>1. p \in 1..Len(calling) \/ p = Len(calling) + 1
        BY <1>3
    <2>2. p \in 1..Len(calling)
        BY <1>3, <1>6, <2>1
    <2>3. p \in DOMAIN calling /\ ContentOf(calling[p], n)
        BY <1>3, <1>6, <2>2
    <2> QED
        BY <1>2, <2>3 DEF Queued
<1>7. Queued(n, r, later, k, f)
    BY <1>2, <1>5, <1>6 DEF Queued
<1> QED
    BY <1>4, <1>7 DEF Waiting

\* The call is handled.
LEMMA TakeOther ==
    ASSUME NEW T, NEW calling \in Seq(T), calling # <<>>, NEW n, NEW r, ~ContentOf(calling[1], n),
           Waiting(n, r, calling), NEW later, later = Tail(calling)
    PROVE  Waiting(n, r, later)
<1> DEFINE A == Len(r.answered)
           N == Len(calling)
<1>1. PICK k \in 0..A : \E f \in [(k + 1)..A -> DOMAIN calling] : Queued(n, r, calling, k, f)
    BY DEF Waiting
<1>2. PICK f \in [(k + 1)..A -> DOMAIN calling] : Queued(n, r, calling, k, f)
    BY <1>1
<1>3. /\ N \in Nat /\ N >= 1 /\ DOMAIN calling = 1..N /\ DOMAIN later = 1..(N - 1)
      /\ \A p \in 1..(N - 1) : later[p] = calling[p + 1]
    BY TailPlaces
<1> HIDE DEF N
<1> DEFINE g == [j \in (k + 1)..A |-> f[j] - 1]
<1>4. ASSUME NEW j \in (k + 1)..A
      PROVE  /\ g[j] = f[j] - 1 /\ f[j] \in 1..N /\ g[j] \in 1..(N - 1)
             /\ later[g[j]] = calling[f[j]]
    <2>1. ContentOf(calling[f[j]], n) /\ f[j] \in 1..N
        BY <1>2, <1>3 DEF Queued
    <2>2. f[j] # 1
        BY <2>1
    <2>3. g[j] = f[j] - 1
        OBVIOUS
    <2>4. f[j] - 1 \in 1..(N - 1) /\ (f[j] - 1) + 1 = f[j]
        BY <1>3, <2>1, <2>2
    <2> QED
        BY <1>3, <2>1, <2>3, <2>4
<1>5. g \in [(k + 1)..A -> DOMAIN later]
    BY <1>3, <1>4
<1> HIDE DEF g
<1>6. ASSUME NEW p \in DOMAIN later, ContentOf(later[p], n)
      PROVE  \E j \in (k + 1)..A : g[j] = p
    <2>1. p \in 1..(N - 1) /\ p + 1 \in 1..N /\ later[p] = calling[p + 1]
        BY <1>3
    <2>2. PICK j \in (k + 1)..A : f[j] = p + 1
        BY <1>2, <1>3, <1>6, <2>1 DEF Queued
    <2>3. g[j] = p
        BY <1>4, <2>1, <2>2
    <2> QED
        BY <2>3
<1>7. \A i, j \in (k + 1)..A : i < j => g[i] < g[j]
    <2> TAKE i, j \in (k + 1)..A
    <2>1. i < j => f[i] < f[j]
        BY <1>2 DEF Queued
    <2>2. g[i] = f[i] - 1 /\ g[j] = f[j] - 1 /\ f[i] \in 1..N /\ f[j] \in 1..N
        BY <1>4
    <2> QED
        BY <1>3, <2>1, <2>2
<1>8. \A j \in (k + 1)..A : ContentOf(later[g[j]], n) /\ IsFor(later[g[j]], r.answered[j])
    BY <1>2, <1>4 DEF Queued
<1>9. Queued(n, r, later, k, g)
    BY <1>2, <1>6, <1>7, <1>8 DEF Queued
<1> QED
    BY <1>5, <1>9 DEF Waiting

\* A content of an answer is posted and the answer remembered.
LEMMA QueueContent ==
    ASSUME NEW T, NEW calling \in Seq(T), NEW c \in T, NEW n, NEW r, r.answered \in Seq(Heard),
           NEW a \in Heard, ContentOf(c, n), IsFor(c, a), Waiting(n, r, calling),
           NEW later, later = Append(calling, c),
           NEW s, s.answered = Append(r.answered, a), s.discovery = r.discovery, s.resources = r.resources
    PROVE  Waiting(n, s, later)
<1> DEFINE A == Len(r.answered)
           N == Len(calling)
           old == r.answered
           new == s.answered
<1>1. PICK k \in 0..A : \E f \in [(k + 1)..A -> DOMAIN calling] : Queued(n, r, calling, k, f)
    BY DEF Waiting
<1>2. PICK f \in [(k + 1)..A -> DOMAIN calling] : Queued(n, r, calling, k, f)
    BY <1>1
<1>3. /\ N \in Nat /\ DOMAIN calling = 1..N
      /\ DOMAIN later = 1..(N + 1) /\ later[N + 1] = c
      /\ \A p \in 1..N : later[p] = calling[p]
    BY QueuePlaces
<1>4. /\ A \in Nat /\ Len(new) = A + 1 /\ new[A + 1] = a
      /\ \A j \in 1..A : new[j] = old[j]
    <2> DEFINE d == Append(old, a)
    <2>1. old \in Seq(Heard)
        OBVIOUS
    <2>2. /\ Len(old) \in Nat /\ Len(d) = Len(old) + 1 /\ d[Len(old) + 1] = a
          /\ \A j \in 1..Len(old) : d[j] = old[j]
        <3> HIDE DEF old
        <3> QED
            BY <2>1, AppendProperties, LenProperties
    <2>3. new = d
        OBVIOUS
    <2> HIDE DEF new, d, old
    <2> QED
        BY <2>2, <2>3 DEF old
<1>5. s.discovery => s.resources = First(k, new)
    <2>1. First(k, Append(old, a)) = First(k, old)
        BY FirstKept
    <2>2. r.discovery => r.resources = First(k, old)
        BY <1>2 DEF Queued
    <2> QED
        BY <2>1, <2>2
<1>6. /\ \A i, j \in (k + 1)..A : i < j => f[i] < f[j]
      /\ \A j \in (k + 1)..A : /\ f[j] \in 1..N /\ ContentOf(calling[f[j]], n)
                               /\ IsFor(calling[f[j]], old[j])
      /\ \A p \in 1..N : ContentOf(calling[p], n) => \E j \in (k + 1)..A : f[j] = p
    BY <1>2, <1>3 DEF Queued
<1> HIDE DEF A, N, new, old
<1> DEFINE g == [j \in (k + 1)..(A + 1) |-> IF j = A + 1 THEN N + 1 ELSE f[j]]
<1>7. \A j \in (k + 1)..(A + 1) : j = A + 1 \/ (j \in (k + 1)..A /\ j \in 1..A)
    BY <1>1, <1>4
<1>8. A + 1 \in (k + 1)..(A + 1) /\ \A j \in (k + 1)..A : j \in (k + 1)..(A + 1) /\ j # A + 1
    BY <1>1, <1>4
<1>9. g[A + 1] = N + 1 /\ \A j \in (k + 1)..A : g[j] = f[j]
    BY <1>8
<1>10. g \in [(k + 1)..(A + 1) -> DOMAIN later]
    BY <1>3, <1>6, <1>7
<1> HIDE DEF g
<1>11. \A i, j \in (k + 1)..(A + 1) : i < j => g[i] < g[j]
    <2> SUFFICES ASSUME NEW i \in (k + 1)..(A + 1), NEW j \in (k + 1)..(A + 1), i < j PROVE g[i] < g[j]
        OBVIOUS
    <2>1. i \in (k + 1)..A
        BY <1>4, <1>7
    <2>2. CASE j = A + 1
        BY <1>3, <1>6, <1>9, <2>1, <2>2
    <2>3. CASE j \in (k + 1)..A
        BY <1>6, <1>9, <2>1, <2>3
    <2> QED
        BY <1>7, <2>2, <2>3
<1>12. \A j \in (k + 1)..(A + 1) : ContentOf(later[g[j]], n) /\ IsFor(later[g[j]], new[j])
    <2> TAKE j \in (k + 1)..(A + 1)
    <2>1. CASE j = A + 1
        BY <1>3, <1>4, <1>9, <2>1
    <2>2. CASE j \in (k + 1)..A /\ j \in 1..A
        <3>1. g[j] = f[j] /\ f[j] \in 1..N /\ new[j] = old[j]
            BY <1>4, <1>6, <1>9, <2>2
        <3>2. later[g[j]] = calling[f[j]]
            BY <1>3, <3>1
        <3> QED
            BY <1>6, <2>2, <3>1, <3>2
    <2> QED
        BY <1>7, <2>1, <2>2
<1>13. \A p \in DOMAIN later : ContentOf(later[p], n) => \E j \in (k + 1)..(A + 1) : g[j] = p
    <2> SUFFICES ASSUME NEW p \in DOMAIN later, ContentOf(later[p], n)
                 PROVE  \E j \in (k + 1)..(A + 1) : g[j] = p
        OBVIOUS
    <2>1. CASE p = N + 1
        BY <1>8, <1>9, <2>1
    <2>2. CASE p \in 1..N
        <3>1. PICK j \in (k + 1)..A : f[j] = p
            BY <1>3, <1>6, <2>2
        <3> QED
            BY <1>8, <1>9, <3>1
    <2> QED
        BY <1>3, <2>1, <2>2
<1>14. Queued(n, s, later, k, g)
    BY <1>4, <1>5, <1>11, <1>12, <1>13 DEF Queued, new
<1>15. k \in 0..Len(s.answered) /\ g \in [(k + 1)..Len(s.answered) -> DOMAIN later]
    BY <1>1, <1>4, <1>10 DEF new
<1> QED
    BY <1>14, <1>15 DEF Waiting

\* The reply takes the content.
LEMMA TakeContent ==
    ASSUME NEW Parameters, LinksWritten(Parameters),
           NEW T, NEW calling \in Seq(T), calling # <<>>, NEW n, NEW r, r.answered \in Seq(Heard),
           ContentOf(calling[1], n), Waiting(n, r, calling), NEW later, later = Tail(calling),
           NEW s, s.answered = r.answered, s.discovery = r.discovery,
           \A a \in Heard : IsFor(calling[1], a) /\ r.discovery => s.resources = r.resources \o FromAnswer(a)
    PROVE  Waiting(n, s, later)
<1> DEFINE A == Len(r.answered)
           N == Len(calling)
           answered == r.answered
<1>1. PICK k \in 0..A : \E f \in [(k + 1)..A -> DOMAIN calling] : Queued(n, r, calling, k, f)
    BY DEF Waiting
<1>2. PICK f \in [(k + 1)..A -> DOMAIN calling] : Queued(n, r, calling, k, f)
    BY <1>1
<1>3. /\ N \in Nat /\ N >= 1 /\ DOMAIN calling = 1..N /\ DOMAIN later = 1..(N - 1)
      /\ \A p \in 1..(N - 1) : later[p] = calling[p + 1]
    BY TailPlaces
<1>4. /\ \A i, j \in (k + 1)..A : i < j => f[i] < f[j]
      /\ \A j \in (k + 1)..A : /\ f[j] \in 1..N /\ ContentOf(calling[f[j]], n)
                               /\ IsFor(calling[f[j]], answered[j])
      /\ \A p \in 1..N : ContentOf(calling[p], n) => \E j \in (k + 1)..A : f[j] = p
      /\ r.discovery => r.resources = First(k, answered)
    BY <1>2, <1>3 DEF Queued
<1>5. A \in Nat /\ answered \in Seq(Heard) /\ A = Len(answered)
    BY LenProperties
<1>6. s.answered = answered
    OBVIOUS
<1> HIDE DEF A, N, answered
\* It is the first one that waits.
<1>7. k + 1 \in (k + 1)..A /\ f[k + 1] = 1 /\ k + 1 <= A
    <2>1. PICK j \in (k + 1)..A : f[j] = 1
        BY <1>3, <1>4
    <2>2. k + 1 \in (k + 1)..A
        BY <1>1, <1>5, <2>1
    <2>3. ~ (k + 1 < j)
        <3>1. k + 1 < j => f[k + 1] < 1
            BY <1>4, <2>1, <2>2
        <3>2. f[k + 1] \in 1..N
            BY <1>4, <2>2
        <3> QED
            BY <1>3, <3>1, <3>2
    <2>4. j = k + 1
        BY <1>1, <1>5, <2>1, <2>3
    <2> QED
        BY <1>1, <1>5, <2>1, <2>2, <2>4
<1>8. s.discovery => s.resources = First(k + 1, answered)
    <2> DEFINE a == answered[k + 1]
    <2>1. k + 1 \in 1..A
        BY <1>1, <1>5, <1>7
    <2>2. a \in Heard /\ IsFor(calling[1], a)
        <3>1. a \in Heard
            BY <1>5, <2>1, ElementOfSeq
        <3>2. IsFor(calling[f[k + 1]], answered[k + 1])
            BY <1>4, <1>7
        <3> QED
            BY <1>7, <3>1, <3>2
    <2>3. FirstGoesOn(k, answered)
        <3>1. k \in Nat
            BY <1>1, <1>5
        <3> QED
            BY <1>5, <1>7, <3>1, FirstNext
    <2>4. s.discovery => s.resources = First(k, answered) \o FromAnswer(a)
        <3>1. r.discovery => s.resources = r.resources \o FromAnswer(a)
            BY <2>2
        <3> HIDE DEF a
        <3> QED
            BY <1>4, <3>1
    <2> QED
        BY <2>3, <2>4, Zenon DEF FirstGoesOn
<1> DEFINE m == k + 1
           g == [j \in (m + 1)..A |-> f[j] - 1]
<1>9. m \in 0..A /\ \A j \in (m + 1)..A : j \in (k + 1)..A /\ k + 1 < j
    BY <1>1, <1>5, <1>7
<1>10. ASSUME NEW j \in (m + 1)..A
      PROVE  /\ g[j] = f[j] - 1 /\ f[j] \in 1..N /\ g[j] \in 1..(N - 1)
             /\ later[g[j]] = calling[f[j]]
    <2>1. f[j] \in 1..N /\ 1 < f[j]
        BY <1>4, <1>7, <1>9
    <2>2. g[j] = f[j] - 1
        OBVIOUS
    <2>3. f[j] - 1 \in 1..(N - 1) /\ (f[j] - 1) + 1 = f[j]
        BY <1>3, <2>1
    <2> QED
        BY <1>3, <2>1, <2>2, <2>3
<1>11. g \in [(m + 1)..A -> DOMAIN later]
    BY <1>3, <1>10
<1> HIDE DEF g
<1>12. ASSUME NEW p \in DOMAIN later, ContentOf(later[p], n)
      PROVE  \E j \in (m + 1)..A : g[j] = p
    <2>1. p \in 1..(N - 1) /\ p + 1 \in 1..N /\ p + 1 # 1 /\ later[p] = calling[p + 1]
        BY <1>3
    <2>2. PICK j \in (k + 1)..A : f[j] = p + 1
        BY <1>4, <1>12, <2>1
    <2>3. j # k + 1
        BY <1>7, <2>1, <2>2
    <2>4. j \in (m + 1)..A
        BY <1>1, <1>5, <2>3
    <2>5. g[j] = p
        BY <1>10, <2>1, <2>2, <2>4
    <2> QED
        BY <2>4, <2>5
<1>13. \A i, j \in (m + 1)..A : i < j => g[i] < g[j]
    <2> TAKE i, j \in (m + 1)..A
    <2>1. i < j => f[i] < f[j]
        BY <1>4, <1>9
    <2>2. g[i] = f[i] - 1 /\ g[j] = f[j] - 1 /\ f[i] \in 1..N /\ f[j] \in 1..N
        BY <1>10
    <2> QED
        BY <1>3, <2>1, <2>2
<1>14. \A j \in (m + 1)..A : ContentOf(later[g[j]], n) /\ IsFor(later[g[j]], answered[j])
    BY <1>4, <1>9, <1>10
<1> HIDE DEF m
<1>15. Queued(n, s, later, m, g)
    BY <1>5, <1>6, <1>8, <1>12, <1>13, <1>14 DEF Queued, m
<1> QED
    BY <1>5, <1>6, <1>9, <1>11, <1>15 DEF Waiting

\* Nothing is posted to the reply any more.
LEMMA WaitingNone ==
    ASSUME NEW n, NEW r, r.answered \in Seq(Heard), NEW calling, Waiting(n, r, calling),
           \A p \in DOMAIN calling : ~ContentOf(calling[p], n)
    PROVE  r.discovery => r.resources = First(Len(r.answered), r.answered)
<1> DEFINE A == Len(r.answered)
<1>1. PICK k \in 0..A : \E f \in [(k + 1)..A -> DOMAIN calling] : Queued(n, r, calling, k, f)
    BY DEF Waiting
<1>2. PICK f \in [(k + 1)..A -> DOMAIN calling] : Queued(n, r, calling, k, f)
    BY <1>1
<1>3. A \in Nat
    BY LenProperties
<1>4. A \notin (k + 1)..A
    <2> SUFFICES ASSUME A \in (k + 1)..A PROVE FALSE
        OBVIOUS
    <2>1. f[A] \in DOMAIN calling /\ ContentOf(calling[f[A]], n)
        BY <1>2 DEF Queued
    <2> QED
        BY <2>1
<1>5. k = A
    BY <1>1, <1>3, <1>4
<1> QED
    BY <1>2, <1>5 DEF Queued

\* A reply has taken some of its answers, from the first one on.
LEMMA WaitingSome ==
    ASSUME NEW n, NEW r, NEW calling, Waiting(n, r, calling)
    PROVE  r.discovery => \E k \in 0..Len(r.answered) : r.resources = First(k, r.answered)
BY DEF Waiting, Queued

\* A reply that is new has taken everything.
LEMMA WaitingStart ==
    ASSUME NEW n, NEW r, r.answered = <<>>, r.resources = <<>>, NEW calling,
           \A p \in DOMAIN calling : calling[p].reply # n
    PROVE  r.answered \in Seq(Heard) /\ Waiting(n, r, calling)
<1>1. r.answered \in Seq(Heard) /\ Len(r.answered) = 0
    BY EmptySeq
<1> DEFINE k == 0
           f == [j \in (k + 1)..Len(r.answered) |-> CHOOSE p \in DOMAIN calling : TRUE]
<1>2. f \in [(k + 1)..Len(r.answered) -> DOMAIN calling] /\ k \in 0..Len(r.answered)
    BY <1>1
<1> HIDE DEF f
<1>3. r.resources = First(k, r.answered)
    BY FirstNone
<1>4. Queued(n, r, calling, k, f)
    BY <1>1, <1>3 DEF Queued, ContentOf
<1> HIDE DEF k
<1> QED
    BY <1>1, <1>2, <1>4 DEF Waiting

(***************************************************************************)
(* What a step does to one reply and the calls posted.                     *)
(***************************************************************************)

\* A call that hands no content to the reply is posted.
LEMMA FollowedOther ==
    ASSUME NEW T, NEW calling \in Seq(T), NEW c \in T, NEW n, NEW r, Followed(n, r, calling),
           ~ContentOf(c, n), r.finished /\ ~r.aborted => c.reply # n,
           NEW later, later = Append(calling, c)
    PROVE  Followed(n, r, later)
<1>1. CASE ~r.finished
    <2>1. Waiting(n, r, later)
        BY <1>1, QueueOther DEF Followed
    <2> QED
        BY <1>1, <2>1 DEF Followed
<1>2. CASE r.finished
    <2>1. /\ DOMAIN calling = 1..Len(calling) /\ DOMAIN later = 1..(Len(calling) + 1) /\ Len(calling) \in Nat
          /\ later[Len(calling) + 1] = c /\ \A p \in 1..Len(calling) : later[p] = calling[p]
        BY QueuePlaces
    <2>2. \A p \in DOMAIN later : p = Len(calling) + 1 \/ (p \in DOMAIN calling /\ later[p] = calling[p])
        BY <2>1
    <2>3. Ended(n, r, calling)
        BY <1>2 DEF Followed
    <2>4. Ended(n, r, later)
        BY <1>2, <2>1, <2>2, <2>3 DEF Ended
    <2> QED
        BY <1>2, <2>4 DEF Followed
<1> QED
    BY <1>1, <1>2

\* The content of a new answer to the reply is posted.
LEMMA FollowedContent ==
    ASSUME NEW T, NEW calling \in Seq(T), NEW c \in T, NEW n, NEW r, Followed(n, r, calling),
           NEW a \in Heard, ContentOf(c, n), IsFor(c, a), r.finished => r.aborted,
           NEW later, later = Append(calling, c),
           NEW s, s.answered = Append(r.answered, a), s.discovery = r.discovery, s.resources = r.resources,
           s.finished = r.finished, s.aborted = r.aborted
    PROVE  Followed(n, s, later)
<1>1. r.answered \in Seq(Heard)
    BY DEF Followed
<1>2. s.answered \in Seq(Heard) /\ Len(s.answered) = Len(r.answered) + 1 /\ Len(r.answered) \in Nat
    <2> DEFINE old == r.answered
               new == Append(old, a)
    <2>1. old \in Seq(Heard) /\ s.answered = new
        BY <1>1
    <2> HIDE DEF old
    <2>2. new \in Seq(Heard) /\ Len(new) = Len(old) + 1 /\ Len(old) \in Nat
        BY <2>1, AppendProperties, LenProperties
    <2> HIDE DEF new
    <2> QED
        BY <2>1, <2>2 DEF old
<1>3. CASE ~r.finished
    <2>1. Waiting(n, s, later)
        BY <1>1, <1>3, QueueContent DEF Followed
    <2> QED
        BY <1>2, <1>3, <2>1 DEF Followed
<1>4. CASE r.finished
    <2>1. r.discovery => \E k \in 0..Len(r.answered) : r.resources = First(k, r.answered)
        BY <1>4 DEF Followed, Ended
    <2>2. ASSUME NEW k \in 0..Len(r.answered)
          PROVE  k \in 0..Len(s.answered) /\ First(k, s.answered) = First(k, r.answered)
        <3>1. First(k, Append(r.answered, a)) = First(k, r.answered)
            BY <1>1, FirstKept
        <3> QED
            BY <1>2, <3>1
    <2>3. s.discovery => \E k \in 0..Len(s.answered) : s.resources = First(k, s.answered)
        BY <2>1, <2>2
    <2>4. Ended(n, s, later)
        BY <1>4, <2>3 DEF Ended
    <2> QED
        BY <1>2, <1>4, <2>4 DEF Followed
<1> QED
    BY <1>3, <1>4

\* A call of no concern to the reply is handled.
LEMMA FollowedTail ==
    ASSUME NEW T, NEW calling \in Seq(T), calling # <<>>, NEW n, NEW r, Followed(n, r, calling),
           ~ContentOf(calling[1], n) \/ r.finished, NEW later, later = Tail(calling)
    PROVE  Followed(n, r, later)
<1>1. CASE ~r.finished
    <2>1. Waiting(n, r, later)
        BY <1>1, TakeOther DEF Followed
    <2> QED
        BY <1>1, <2>1 DEF Followed
<1>2. CASE r.finished
    <2>1. /\ DOMAIN calling = 1..Len(calling) /\ DOMAIN later = 1..(Len(calling) - 1) /\ Len(calling) \in Nat
          /\ \A p \in 1..(Len(calling) - 1) : later[p] = calling[p + 1]
        BY TailPlaces
    <2>2. \A p \in DOMAIN later : p + 1 \in DOMAIN calling /\ later[p] = calling[p + 1]
        BY <2>1
    <2>3. Ended(n, r, calling)
        BY <1>2 DEF Followed
    <2>4. Ended(n, r, later)
        BY <2>2, <2>3 DEF Ended
    <2> QED
        BY <1>2, <2>4 DEF Followed
<1> QED
    BY <1>1, <1>2

\* The reply takes the content of the first call.
LEMMA FollowedTaken ==
    ASSUME NEW Parameters, LinksWritten(Parameters),
           NEW T, NEW calling \in Seq(T), calling # <<>>, NEW n, NEW r, Followed(n, r, calling),
           ContentOf(calling[1], n), ~r.finished, NEW later, later = Tail(calling),
           NEW s, s.answered = r.answered, s.discovery = r.discovery,
           s.finished = r.finished, s.aborted = r.aborted,
           \A a \in Heard : IsFor(calling[1], a) /\ r.discovery => s.resources = r.resources \o FromAnswer(a)
    PROVE  Followed(n, s, later)
<1>1. Waiting(n, r, calling) /\ ~r.aborted /\ r.answered \in Seq(Heard)
    BY DEF Followed
<1>2. Waiting(n, s, later)
    BY <1>1, TakeContent
<1> QED
    BY <1>1, <1>2 DEF Followed

\* The last call to a reply ends it.
LEMMA FollowedEnd ==
    ASSUME NEW T, NEW calling \in Seq(T), calling # <<>>, NEW n, NEW r, Followed(n, r, calling),
           ~ContentOf(calling[1], n), \A q \in DOMAIN calling : q > 1 => calling[q].reply # n,
           NEW later, later = Tail(calling),
           NEW s, s.answered = r.answered, s.discovery = r.discovery, s.resources = r.resources,
           s.finished = TRUE, s.aborted = r.aborted
    PROVE  Followed(n, s, later)
<1>1. /\ DOMAIN calling = 1..Len(calling) /\ DOMAIN later = 1..(Len(calling) - 1) /\ Len(calling) \in Nat
      /\ \A p \in 1..(Len(calling) - 1) : later[p] = calling[p + 1]
    BY TailPlaces
<1>2. \A p \in DOMAIN later : p + 1 \in DOMAIN calling /\ p + 1 > 1 /\ later[p] = calling[p + 1]
    BY <1>1
<1>3. \A p \in DOMAIN later : later[p].reply # n
    BY <1>2
<1>4. r.answered \in Seq(Heard)
    BY DEF Followed
<1>5. CASE r.finished
    <2>1. Ended(n, s, later)
        BY <1>3, <1>5 DEF Followed, Ended
    <2> QED
        BY <1>4, <2>1 DEF Followed
<1>6. CASE ~r.finished
    <2>1. Waiting(n, r, calling) /\ ~r.aborted
        BY <1>6 DEF Followed
    <2>2. ASSUME NEW p \in DOMAIN calling PROVE ~ContentOf(calling[p], n)
        <3>1. p = 1 \/ p > 1
            BY <1>1
        <3> QED
            BY <3>1 DEF ContentOf
    <2>3. r.discovery => r.resources = First(Len(r.answered), r.answered)
        BY <1>4, <2>1, <2>2, WaitingNone
    <2>4. Len(r.answered) \in 0..Len(r.answered)
        BY <1>4, LenProperties
    <2>5. Ended(n, s, later)
        BY <1>3, <2>3, <2>4 DEF Ended
    <2> QED
        BY <1>4, <2>5 DEF Followed
<1> QED
    BY <1>5, <1>6

\* The user aborts.
LEMMA FollowedAbort ==
    ASSUME NEW n, NEW r, NEW calling, Followed(n, r, calling), ~r.finished,
           NEW s, s.answered = r.answered, s.discovery = r.discovery, s.resources = r.resources,
           s.finished = TRUE, s.aborted = TRUE
    PROVE  Followed(n, s, calling)
<1>1. r.discovery => \E k \in 0..Len(r.answered) : r.resources = First(k, r.answered)
    BY WaitingSome DEF Followed
<1>2. Ended(n, s, calling)
    BY <1>1 DEF Ended
<1> QED
    BY <1>2 DEF Followed

(***************************************************************************)
(* The invariant, and the steps that hand no answer over.                  *)
(***************************************************************************)

\* Every answer to a reply is taken, in its order, or is on its way.
DiscInv == FrameInv /\ StartedOnce /\ EndsLast /\ EndedOver /\ AnswersFollowed

\* Edits of the user's request.
LEMMA NothingHeard ==
    ASSUME DiscInv, FrameInv', UNCHANGED <<replies, calls, exchanges, posted>>
    PROVE  DiscInv'
BY DEF DiscInv, StartedOnce, EndsLast, EndedOver, AnswersFollowed, Over

\* A new reply has no answers, and its start is the only call for it.
LEMMA SendAnswers ==
    ASSUME DiscInv, FrameInv', NEW r, NEW discovery, NEW asked, Send(r, discovery, asked)
    PROVE  DiscInv'
<1> DEFINE N == Len(replies)
           new == replies'[N + 1]
<1>0. RequestInv
    BY DEF DiscInv, FrameInv
<1>1. /\ N \in Nat /\ DOMAIN replies = 1..N /\ DOMAIN replies' = 1..(N + 1)
      /\ \A i \in 1..N : replies'[i] = replies[i]
      /\ calls' = Append(calls, N + 1)
      /\ UNCHANGED <<exchanges, posted>>
    BY <1>0, SendAppends
<1>2. new.answered = <<>> /\ new.resources = <<>> /\ new.finished = FALSE /\ new.aborted = FALSE
    <2>1. new = [request |-> r, discovery |-> discovery, asked |-> asked,
                 message |-> EmptyMessage("NonConfirmable", 0),
                 finished |-> FALSE, aborted |-> FALSE, error |-> FALSE,
                 resources |-> <<>>, answered |-> <<>>]
        BY <1>0, SendAppends
    <2> HIDE DEF new
    <2> QED
        BY <2>1
<1>3. calls \in Seq(1..N) /\ calls \in Seq(1..(N + 1))
    <2>1. calls \in Seq(1..N)
        BY <1>0, <1>1, InvParts
    <2>2. 1..N \subseteq 1..(N + 1)
        BY <1>1
    <2> HIDE DEF N
    <2> QED
        BY <2>1, <2>2, SeqMonotonic
<1> HIDE DEF N, new
<1> DEFINE K == Len(calls)
<1>4. /\ K \in Nat /\ DOMAIN calls = 1..K /\ DOMAIN calls' = 1..(K + 1)
      /\ calls'[K + 1] = N + 1 /\ \A i \in 1..K : calls'[i] = calls[i] /\ calls[i] \in 1..N
    <2>1. N + 1 \in 1..(N + 1)
        BY <1>1
    <2>2. /\ K \in Nat /\ DOMAIN calls = 1..K /\ DOMAIN calls' = 1..(K + 1)
          /\ calls'[K + 1] = N + 1 /\ \A i \in 1..K : calls'[i] = calls[i]
        BY <1>1, <1>3, <2>1, QueuePlaces
    <2>3. \A i \in 1..K : calls[i] \in 1..N
        BY <1>3, ElementOfSeq
    <2> QED
        BY <2>2, <2>3
<1> HIDE DEF K
<1>5. \A i \in DOMAIN calls' : (i = K + 1 /\ calls'[i] = N + 1) \/ (i \in DOMAIN calls /\ calls'[i] = calls[i])
    BY <1>4
<1>6. \A m \in DOMAIN replies : m # N + 1 /\ m \in DOMAIN replies' /\ replies'[m] = replies[m]
    BY <1>1
<1>7. \A i \in DOMAIN calls : calls[i] \in DOMAIN replies
    BY <1>1, <1>4
<1>8. \A m \in DOMAIN replies : Over(m) => Over(m)'
    BY <1>1, <1>5, <1>6 DEF Over
<1>9. StartedOnce'
    BY <1>1, <1>5, <1>6, <1>7 DEF DiscInv, StartedOnce
<1>10. EndsLast'
    BY <1>1, <1>6, <1>8 DEF DiscInv, EndsLast
<1>11. \A m \in DOMAIN replies' : m = N + 1 \/ m \in DOMAIN replies
    BY <1>1
<1>12. EndedOver'
    BY <1>2, <1>6, <1>8, <1>11 DEF DiscInv, EndedOver, new
<1>13. AnswersFollowed'
    <2>1. \A m \in DOMAIN replies : Followed(m, replies'[m], posted')
        BY <1>1, <1>6 DEF DiscInv, AnswersFollowed
    <2>2. Followed(N + 1, new, posted)
        <3>1. \A p \in DOMAIN posted : posted[p].reply # N + 1
            BY <1>6 DEF DiscInv, EndsLast
        <3>2. new.answered \in Seq(Heard) /\ Waiting(N + 1, new, posted)
            BY <1>2, <3>1, WaitingStart
        <3> QED
            BY <1>2, <3>2 DEF Followed
    <2> QED
        BY <1>1, <1>11, <2>1, <2>2 DEF AnswersFollowed, new
<1> QED
    BY <1>9, <1>10, <1>12, <1>13 DEF DiscInv

\* The one start of a reply gives it its one exchange, or none.
LEMMA StartRequestAnswers ==
    ASSUME DiscInv, FrameInv', StartRequest
    PROVE  DiscInv'
<1> DEFINE n == Head(calls)
           K == Len(calls)
<1>1. calls # <<>> /\ calls' = Tail(calls) /\ UNCHANGED <<replies, posted>>
    BY DEF StartRequest
<1>2. calls \in Seq(DOMAIN replies)
    BY InvParts DEF DiscInv, FrameInv
<1>3. /\ K \in Nat /\ K >= 1 /\ DOMAIN calls = 1..K /\ DOMAIN calls' = 1..(K - 1)
      /\ \A i \in 1..(K - 1) : calls'[i] = calls[i + 1]
    BY <1>1, <1>2, TailPlaces
<1>4. n = calls[1] /\ 1 \in DOMAIN calls /\ n \in DOMAIN replies
    <2>1. n = calls[1]
        BY <1>1, <1>2
    <2>2. 1 \in 1..K
        BY <1>3
    <2> QED
        BY <1>2, <1>3, <2>1, <2>2, ElementOfSeq
<1>5. \A i \in DOMAIN calls' : i + 1 \in DOMAIN calls /\ calls'[i] = calls[i + 1] /\ i + 1 # 1
    BY <1>3
<1>6. /\ \A t \in DOMAIN exchanges' : exchanges'[t].reply = n \/ (t \in DOMAIN exchanges /\ exchanges'[t] = exchanges[t])
      /\ \A t, u \in DOMAIN exchanges' : exchanges'[t].reply = n /\ exchanges'[u].reply = n
            => t = u \/ \E v \in DOMAIN exchanges : exchanges[v].reply = n
    <2>1. CASE UNCHANGED exchanges
        BY <2>1
    <2>2. CASE \E token, x : /\ x.reply = n
                             /\ exchanges' = [t \in DOMAIN exchanges \cup {token} |->
                                                IF t = token THEN x ELSE exchanges[t]]
        <3>1. PICK token, x : /\ x.reply = n
                              /\ exchanges' = [t \in DOMAIN exchanges \cup {token} |->
                                                IF t = token THEN x ELSE exchanges[t]]
            BY <2>2
        <3>2. /\ DOMAIN exchanges' = DOMAIN exchanges \cup {token}
              /\ \A t \in DOMAIN exchanges' : exchanges'[t] = IF t = token THEN x ELSE exchanges[t]
            BY <3>1
        <3>3. \A t \in DOMAIN exchanges' : t = token \/ (t \in DOMAIN exchanges /\ exchanges'[t] = exchanges[t])
            BY <3>2
        <3> HIDE DEF n
        <3> QED
            BY <3>1, <3>2, <3>3
    <2>3. UNCHANGED exchanges \/ \E token, x : /\ x.reply = n
                             /\ exchanges' = [t \in DOMAIN exchanges \cup {token} |->
                                                IF t = token THEN x ELSE exchanges[t]]
        <3> DEFINE r == replies[n].request
                   uri == AddUriOptions(r.options, r.url, r.proxyUrl)
        <3> SUFFICES ASSUME ~UNCHANGED exchanges
                     PROVE  \E token, x : /\ x.reply = n
                                          /\ exchanges' = [t \in DOMAIN exchanges \cup {token} |->
                                                             IF t = token THEN x ELSE exchanges[t]]
            OBVIOUS
        <3>0. ~UNCHANGED exchanges
            OBVIOUS
        <3>1. PICK id \in FreeIds, token \in TokensFor(r) :
                exchanges' = [t \in DOMAIN exchanges \cup {token} |->
                                 IF t = token
                                 THEN [reply |-> n, targetUri |-> uri.targetUri,
                                       message |-> [version |-> r.version, type |-> r.type, code |-> r.code,
                                                    messageId |-> id, token |-> token,
                                                    options |-> uri.options, payload |-> r.payload]]
                                 ELSE exchanges[t]]
            BY <3>0 DEF StartRequest
        <3> DEFINE x == [reply |-> n, targetUri |-> uri.targetUri,
                         message |-> [version |-> r.version, type |-> r.type, code |-> r.code,
                                      messageId |-> id, token |-> token,
                                      options |-> uri.options, payload |-> r.payload]]
        <3>2. x.reply = n
            OBVIOUS
        <3>3. exchanges' = [t \in DOMAIN exchanges \cup {token} |-> IF t = token THEN x ELSE exchanges[t]]
            BY <3>1, Zenon
        <3> HIDE DEF x
        <3> QED
            BY <3>2, <3>3, Zenon
    <2> QED
        BY <2>1, <2>2, <2>3
<1> HIDE DEF n, K
<1>7. \A v \in DOMAIN exchanges : exchanges[v].reply # n
    BY <1>4 DEF DiscInv, StartedOnce
<1>8. \A i \in DOMAIN calls' : calls'[i] # n
    BY <1>4, <1>5 DEF DiscInv, StartedOnce
<1>9. \A m \in DOMAIN replies : Over(m) => Over(m)'
    BY <1>4, <1>5, <1>6 DEF Over
<1>10. StartedOnce'
    <2>1. \A i, j \in DOMAIN calls' : calls'[i] = calls'[j] => i = j
        <3> TAKE i, j \in DOMAIN calls'
        <3>1. i \in Nat /\ j \in Nat
            BY <1>3
        <3>2. calls'[i] = calls'[j] => i + 1 = j + 1
            BY <1>5 DEF DiscInv, StartedOnce
        <3> QED
            BY <3>1, <3>2
    <2>2. \A t \in DOMAIN exchanges' : exchanges'[t].reply \in DOMAIN replies'
        BY <1>1, <1>4, <1>6 DEF DiscInv, StartedOnce
    <2>3. \A t, u \in DOMAIN exchanges' : exchanges'[t].reply = exchanges'[u].reply => t = u
        BY <1>6, <1>7 DEF DiscInv, StartedOnce
    <2>4. \A i \in DOMAIN calls', t \in DOMAIN exchanges' : calls'[i] # exchanges'[t].reply
        BY <1>5, <1>6, <1>8 DEF DiscInv, StartedOnce
    <2> QED
        BY <2>1, <2>2, <2>3, <2>4 DEF StartedOnce
<1>11. EndsLast' /\ EndedOver' /\ AnswersFollowed'
    BY <1>1, <1>9 DEF DiscInv, EndsLast, EndedOver, AnswersFollowed
<1> QED
    BY <1>10, <1>11 DEF DiscInv

(***************************************************************************)
(* What is posted by the worker.                                           *)
(***************************************************************************)

\* New calls for the reply of an exchange; one that ends it is the last one and ends the exchange.
NewCalls(token) ==
    \A p \in DOMAIN posted' :
       \/ p \in DOMAIN posted /\ posted'[p] = posted[p]
       \/ /\ posted'[p].reply = exchanges[token].reply
          /\ posted'[p].op # "setContent" => Forget(token) /\ \A q \in DOMAIN posted' : ~ (q > p)

\* After the call that ends a reply comes no other, and its exchange is forgotten.
LEMMA PostedTo ==
    ASSUME DiscInv, NEW token \in DOMAIN exchanges, Forget(token) \/ UNCHANGED exchanges,
           UNCHANGED calls, DOMAIN replies' = DOMAIN replies, NewCalls(token)
    PROVE  StartedOnce' /\ EndsLast' /\ \A m : Over(m) => Over(m)'
<1>0. PICK n : n = exchanges[token].reply
    OBVIOUS
<1>1. \A t \in DOMAIN exchanges' : t \in DOMAIN exchanges /\ exchanges'[t] = exchanges[t]
    BY DEF Forget
<1>2. Forget(token) => token \notin DOMAIN exchanges'
    BY DEF Forget
<1>3. StartedOnce'
    BY <1>1 DEF DiscInv, StartedOnce
<1>4. \A m : Over(m) => Over(m)'
    BY <1>1 DEF Over
<1>5. Forget(token) => Over(n)'
    BY <1>0, <1>1, <1>2 DEF DiscInv, StartedOnce, Over
<1>6. n \in DOMAIN replies /\ ~Over(n)
    BY <1>0 DEF DiscInv, StartedOnce, Over
<1>7. \A p \in DOMAIN posted : posted[p].op # "setContent" => posted[p].reply # n
    BY <1>6 DEF DiscInv, EndsLast
<1>8. \A p \in DOMAIN posted' :
         \/ p \in DOMAIN posted /\ posted'[p] = posted[p]
         \/ /\ posted'[p].reply = n
            /\ posted'[p].op # "setContent" => Forget(token) /\ \A q \in DOMAIN posted' : ~ (q > p)
    BY <1>0 DEF NewCalls
<1>9. \A p \in DOMAIN posted' : posted'[p].reply \in DOMAIN replies'
    BY <1>6, <1>8 DEF DiscInv, EndsLast
<1>10. ASSUME NEW p \in DOMAIN posted', posted'[p].op # "setContent"
       PROVE  /\ Over(posted[p].reply)'
              /\ \A q \in DOMAIN posted' : q > p => posted'[q].reply # posted'[p].reply
    <2>1. CASE p \in DOMAIN posted /\ posted'[p] = posted[p]
        <3>1. /\ Over(posted[p].reply) /\ posted[p].reply # n
              /\ \A q \in DOMAIN posted : q > p => posted[q].reply # posted[p].reply
            BY <1>7, <1>10, <2>1 DEF DiscInv, EndsLast
        <3>2. Over(posted[p].reply)'
            <4>1. PICK m : m = posted[p].reply
                OBVIOUS
            <4>2. Over(m)' /\ posted'[p].reply = m
                BY <1>4, <2>1, <3>1, <4>1
            <4> QED
                BY <4>2 DEF Over
        <3> QED
            BY <1>8, <2>1, <3>1, <3>2
    <2>2. CASE posted'[p].reply = n /\ Forget(token) /\ \A q \in DOMAIN posted' : ~ (q > p)
        BY <1>5, <2>2 DEF Over
    <2> QED
        BY <1>8, <1>10, <2>1, <2>2
<1>11. EndsLast'
    BY <1>9, <1>10 DEF EndsLast
<1> QED
    BY <1>3, <1>4, <1>11

\* No call goes to a reply that has ended by itself.
LEMMA NotEnded ==
    ASSUME DiscInv, NEW token \in DOMAIN exchanges
    PROVE  LET n == exchanges[token].reply
           IN n \in DOMAIN replies /\ (replies[n].finished => replies[n].aborted)
BY DEF DiscInv, StartedOnce, EndedOver, Over

LEMMA OnMulticastRequestExpiredAnswers ==
    ASSUME DiscInv, FrameInv', OnMulticastRequestExpired
    PROVE  DiscInv'
<1>1. PICK token \in DOMAIN exchanges :
         /\ posted' = Append(posted, [op |-> "setFinished", reply |-> exchanges[token].reply])
         /\ Forget(token) /\ UNCHANGED <<replies, calls>>
    BY DEF OnMulticastRequestExpired
<1> DEFINE n == exchanges[token].reply
           e == [op |-> "setFinished", reply |-> n]
<1>2. e.op # "setContent" /\ e.reply = n
    OBVIOUS
<1>3. posted' = Append(posted, e)
    BY <1>1
<1> HIDE DEF e
<1>4. PICK S : posted \in Seq(S)
    BY DEF DiscInv, FrameInv, HistoriesListed
<1> DEFINE T == S \cup {e}
<1>5. posted \in Seq(T) /\ e \in T
    BY <1>4, SeqMonotonic
<1> HIDE DEF T
<1> DEFINE N == Len(posted)
<1>6. /\ N \in Nat /\ DOMAIN posted = 1..N /\ DOMAIN posted' = 1..(N + 1)
      /\ posted'[N + 1] = e /\ \A p \in 1..N : posted'[p] = posted[p]
    BY <1>3, <1>5, QueuePlaces
<1> HIDE DEF N
<1>7. NewCalls(token)
    <2>1. \A p \in DOMAIN posted' : p \in DOMAIN posted \/ (p = N + 1 /\ \A q \in DOMAIN posted' : ~ (q > p))
        BY <1>6
    <2> QED
        BY <1>1, <1>2, <1>6, <2>1 DEF NewCalls
<1>8. StartedOnce' /\ EndsLast' /\ \A m : Over(m) => Over(m)'
    BY <1>1, <1>7, PostedTo
<1>9. EndedOver'
    BY <1>1, <1>8 DEF DiscInv, EndedOver
<1>10. n \in DOMAIN replies /\ (replies[n].finished => replies[n].aborted)
    BY NotEnded
<1> HIDE DEF n
<1>11. ASSUME NEW m \in DOMAIN replies
       PROVE  Followed(m, replies[m], posted')
    <2> DEFINE r == replies[m]
               calling == posted
               later == posted'
    <2>1. Followed(m, r, calling) /\ calling \in Seq(T) /\ later = Append(calling, e)
        BY <1>3, <1>5 DEF DiscInv, AnswersFollowed
    <2>2. ~ContentOf(e, m) /\ (r.finished /\ ~r.aborted => e.reply # m)
        BY <1>2, <1>10 DEF ContentOf
    <2> HIDE DEF r, calling, later
    <2>3. Followed(m, r, later)
        BY <1>5, <2>1, <2>2, FollowedOther
    <2> QED
        BY <2>3 DEF r, later
<1>12. AnswersFollowed'
    BY <1>1, <1>11 DEF AnswersFollowed
<1> QED
    BY <1>8, <1>9, <1>12 DEF DiscInv

\* One and two calls posted, as calls posted one after the other.
LEMMA Posted12 ==
    ASSUME NEW T, NEW s \in Seq(T), NEW a \in T, NEW b \in T, NEW later
    PROVE  /\ later = s \o <<a>> => later = Append(s, a)
           /\ later = s \o <<a, b>> => \E c : c = Append(s, a) /\ later = Append(c, b)
<1>1. s \o <<a>> = Append(s, a)
    OBVIOUS
<1>2. <<a, b>> \in Seq(T) /\ Len(<<a, b>>) = 2 /\ <<a, b>>[1] = a /\ <<a, b>>[2] = b
    OBVIOUS
<1> DEFINE c == Append(s, a)
           d == Append(c, b)
           pair == <<a, b>>
           u == s \o pair
           N == Len(s)
<1>3. c \in Seq(T) /\ Len(c) = N + 1 /\ N \in Nat /\ c[N + 1] = a /\ \A p \in 1..N : c[p] = s[p]
    BY AppendProperties, LenProperties
<1> HIDE DEF c
<1>4. d \in Seq(T) /\ Len(d) = N + 2 /\ d[N + 2] = b /\ \A p \in 1..(N + 1) : d[p] = c[p]
    <2>1. /\ d \in Seq(T) /\ Len(d) = Len(c) + 1 /\ d[Len(c) + 1] = b
          /\ \A p \in 1..Len(c) : d[p] = c[p]
        BY <1>3, AppendProperties
    <2>2. Len(c) + 1 = N + 2
        BY <1>3
    <2> QED
        BY <1>3, <2>1, <2>2
<1> HIDE DEF d, pair
<1>5. u \in Seq(T) /\ Len(u) = N + 2 /\ u[N + 1] = a /\ u[N + 2] = b /\ \A p \in 1..N : u[p] = s[p]
    <2>1. pair \in Seq(T) /\ Len(pair) = 2 /\ pair[1] = a /\ pair[2] = b
        BY <1>2 DEF pair
    <2>2. /\ u \in Seq(T) /\ Len(u) = Len(s) + Len(pair)
          /\ \A p \in 1..(Len(s) + Len(pair)) : u[p] = IF p <= Len(s) THEN s[p] ELSE pair[p - Len(s)]
        BY <2>1, ConcatProperties
    <2>3. Len(s) + Len(pair) = N + 2
        BY <2>1
    <2> HIDE DEF u, N
    <2>4. N + 1 \in 1..(N + 2) /\ N + 2 \in 1..(N + 2) /\ ~(N + 1 <= N) /\ ~(N + 2 <= N)
          /\ N + 1 - N = 1 /\ N + 2 - N = 2 /\ \A p \in 1..N : p \in 1..(N + 2) /\ p <= N
        BY <1>3
    <2>5. \A p \in 1..(N + 2) : u[p] = IF p <= N THEN s[p] ELSE pair[p - N]
        BY <2>2, <2>3 DEF N
    <2>6. u[N + 1] = a
        <3> DEFINE p == N + 1
                   q == p - N
        <3>1. p \in 1..(N + 2) /\ ~(p <= N) /\ q = 1
            BY <1>3, <2>4
        <3>2. u[p] = IF p <= N THEN s[p] ELSE pair[q]
            BY <2>5, <3>1
        <3> HIDE DEF p, q
        <3>3. u[p] = a
            BY <2>1, <3>1, <3>2
        <3> QED
            BY <3>3 DEF p
    <2>7. u[N + 2] = b
        <3> DEFINE p == N + 2
                   q == p - N
        <3>1. p \in 1..(N + 2) /\ ~(p <= N) /\ q = 2
            BY <1>3, <2>4
        <3>2. u[p] = IF p <= N THEN s[p] ELSE pair[q]
            BY <2>5, <3>1
        <3> HIDE DEF p, q
        <3>3. u[p] = b
            BY <2>1, <3>1, <3>2
        <3> QED
            BY <3>3 DEF p
    <2>8. \A p \in 1..N : u[p] = s[p]
        BY <2>4, <2>5
    <2> QED
        BY <2>2, <2>3, <2>6, <2>7, <2>8
<1> HIDE DEF u, N
<1>6. u = d
    <2>1. \A p \in 1..Len(u) : u[p] = d[p]
        <3> TAKE p \in 1..Len(u)
        <3>1. (p \in 1..N /\ p \in 1..(N + 1)) \/ (p = N + 1 /\ p \in 1..(N + 1)) \/ p = N + 2
            BY <1>3, <1>5
        <3> QED
            BY <1>3, <1>4, <1>5, <3>1
    <2> QED
        BY <1>4, <1>5, <2>1, SeqEqual
<1>7. later = s \o <<a, b>> => later = Append(c, b)
    BY <1>6, Zenon DEF u, d, pair
<1> QED
    BY <1>1, <1>7, Zenon DEF c

\* An answer reaches the list of the answers to a reply.
LEMMA AnsweredChanged ==
    ASSUME RequestInv, NEW n \in DOMAIN replies, NEW a,
           replies' = [replies EXCEPT ![n].answered = Append(@, a)]
    PROVE  /\ DOMAIN replies' = DOMAIN replies
           /\ \A m \in DOMAIN replies : m # n => replies'[m] = replies[m]
           /\ replies'[n].answered = Append(replies[n].answered, a)
           /\ replies'[n].discovery = replies[n].discovery
           /\ replies'[n].resources = replies[n].resources
           /\ replies'[n].finished = replies[n].finished
           /\ replies'[n].aborted = replies[n].aborted
<1>1. DOMAIN replies[n] = ReplyFields
    BY DEF RequestInv, RepliesListed
<1>2. {"answered", "discovery", "resources", "finished", "aborted"} \subseteq ReplyFields
    BY DEF ReplyFields
<1> DEFINE r == replies[n]
           v == Append(r.answered, a)
           s == [r EXCEPT !.answered = v]
<1>3. replies' = [replies EXCEPT ![n] = s]
    OBVIOUS
<1> HIDE DEF v
<1>4. /\ s.answered = v /\ s.discovery = r.discovery /\ s.resources = r.resources
      /\ s.finished = r.finished /\ s.aborted = r.aborted
    BY <1>1, <1>2
<1> HIDE DEF s
<1>5. /\ DOMAIN replies' = DOMAIN replies /\ replies'[n] = s
      /\ \A m \in DOMAIN replies : m # n => replies'[m] = replies[m]
    BY <1>3
<1> QED
    BY <1>4, <1>5 DEF v

LEMMA OnFrameReceivedAnswers ==
    ASSUME DiscInv, FrameInv', OnFrameReceived
    PROVE  DiscInv'
<1>0. FrameInv /\ RequestInv
    BY DEF DiscInv, FrameInv
<1>1. PICK token \in DOMAIN exchanges, sender \in Addresses \ Groups, type \in 0..2, id \in Ids,
           code \in Codes, payload \in Payloads, options \in AnswerOptions :
         Receive(token, sender,
                 [version |-> 1, type |-> type, code |-> code, messageId |-> id, token |-> token,
                  options |-> options, payload |-> payload])
    BY DEF OnFrameReceived
<1> DEFINE answer == [version |-> 1, type |-> type, code |-> code, messageId |-> id, token |-> token,
                      options |-> options, payload |-> payload]
           a == [sender |-> sender, code |-> code, payload |-> payload]
<1>2. answer.code = code /\ answer.payload = payload /\ Receive(token, sender, answer)
    BY <1>1
<1>3. UNCHANGED calls
    BY DEF OnFrameReceived
<1> HIDE DEF answer
<1>4. a \in Heard /\ a.sender = sender /\ a.code = code /\ a.payload = payload
    BY DEF Heard
<1>5. PICK n : n = exchanges[token].reply
    OBVIOUS
<1>6. PICK message :
         LET content == [op |-> "setContent", reply |-> n, sender |-> sender,
                         message |-> message, answer |-> answer]
             end == [op |-> "setFinished", reply |-> n]
         IN \/ posted' = posted \o <<content, end>> /\ Forget(token)
            \/ posted' = posted \o <<content>> /\ UNCHANGED exchanges
    BY <1>2, <1>5 DEF Receive
<1>7. replies' = [replies EXCEPT ![n].answered = Append(@, a)]
    <2>1. replies' = [replies EXCEPT ![n].answered =
                         Append(@, [sender |-> sender, code |-> answer.code, payload |-> answer.payload])]
        BY <1>2, <1>5 DEF Receive
    <2> QED
        BY <1>2, <2>1
<1> DEFINE c == [op |-> "setContent", reply |-> n, sender |-> sender, message |-> message, answer |-> answer]
           end == [op |-> "setFinished", reply |-> n]
<1>8. /\ ContentOf(c, n) /\ IsFor(c, a) /\ c.reply = n /\ c.op = "setContent"
      /\ end.op # "setContent" /\ end.reply = n /\ \A m : ~ContentOf(end, m)
      /\ \A m : ContentOf(c, m) => m = n
    <2>1. c.op = "setContent" /\ c.reply = n /\ c.sender = sender /\ c.answer = answer
        OBVIOUS
    <2> HIDE DEF c
    <2>2. ContentOf(c, n) /\ \A m : ContentOf(c, m) => m = n
        BY <2>1 DEF ContentOf
    <2>3. IsFor(c, a)
        BY <1>2, <1>4, <2>1 DEF IsFor
    <2>4. end.op # "setContent" /\ end.reply = n /\ \A m : ~ContentOf(end, m)
        BY DEF ContentOf
    <2> QED
        BY <2>1, <2>2, <2>3, <2>4
<1> HIDE DEF a, c, end
<1>9. PICK S : posted \in Seq(S)
    BY <1>0 DEF FrameInv, HistoriesListed
<1> DEFINE T == S \cup {c, end}
<1>10. posted \in Seq(T) /\ c \in T /\ end \in T
    BY <1>9, SeqMonotonic
<1> HIDE DEF T
<1>11. PICK middle : middle = Append(posted, c)
    OBVIOUS
<1>12. \/ posted' = Append(middle, end) /\ Forget(token)
       \/ posted' = middle /\ UNCHANGED exchanges
    <2>1. \/ posted' = posted \o <<c, end>> /\ Forget(token)
          \/ posted' = posted \o <<c>> /\ UNCHANGED exchanges
        BY <1>6 DEF c, end
    <2>2. posted' = posted \o <<c, end>> => posted' = Append(middle, end)
        BY <1>10, <1>11, Posted12
    <2>3. posted' = posted \o <<c>> => posted' = middle
        BY <1>10, <1>11, Posted12
    <2> QED
        BY <2>1, <2>2, <2>3
<1> DEFINE N == Len(posted)
<1>13. /\ N \in Nat /\ DOMAIN posted = 1..N /\ DOMAIN middle = 1..(N + 1) /\ middle \in Seq(T)
       /\ middle[N + 1] = c /\ \A p \in 1..N : middle[p] = posted[p]
    BY <1>10, <1>11, QueuePlaces
<1>14. Len(middle) = N + 1
    BY <1>13, LenProperties
<1> HIDE DEF N
<1>15. NewCalls(token)
    <2>1. CASE posted' = middle
        <3>1. \A p \in DOMAIN middle : (p \in DOMAIN posted /\ middle[p] = posted[p]) \/ middle[p] = c
            BY <1>13
        <3> QED
            BY <1>5, <1>8, <2>1, <3>1 DEF NewCalls
    <2>2. CASE posted' = Append(middle, end) /\ Forget(token)
        <3> DEFINE M == N + 1
        <3>1. /\ DOMAIN posted' = 1..(M + 1) /\ posted'[M + 1] = end /\ M \in Nat
              /\ \A p \in 1..M : posted'[p] = middle[p]
            BY <1>10, <1>13, <1>14, <2>2, QueuePlaces
        <3>2. ASSUME NEW p \in DOMAIN posted'
              PROVE  \/ p \in DOMAIN posted /\ posted'[p] = posted[p]
                     \/ posted'[p] = c
                     \/ posted'[p] = end /\ \A q \in DOMAIN posted' : ~ (q > p)
            <4>1. (p \in 1..N /\ p \in 1..M) \/ (p = N + 1 /\ p \in 1..M) \/ p = M + 1
                BY <1>13, <3>1
            <4>2. CASE p = M + 1
                BY <3>1, <4>2
            <4> QED
                BY <1>13, <3>1, <4>1, <4>2
        <3> QED
            BY <1>5, <1>8, <2>2, <3>2 DEF NewCalls
    <2> QED
        BY <1>12, <2>1, <2>2
<1>16. n \in DOMAIN replies /\ (replies[n].finished => replies[n].aborted)
    BY <1>5, NotEnded
<1>17. /\ DOMAIN replies' = DOMAIN replies
       /\ \A m \in DOMAIN replies : m # n => replies'[m] = replies[m]
       /\ replies'[n].answered = Append(replies[n].answered, a)
       /\ replies'[n].discovery = replies[n].discovery /\ replies'[n].resources = replies[n].resources
       /\ replies'[n].finished = replies[n].finished /\ replies'[n].aborted = replies[n].aborted
    BY <1>0, <1>7, <1>16, AnsweredChanged
<1>18. StartedOnce' /\ EndsLast' /\ \A m : Over(m) => Over(m)'
    <2>1. Forget(token) \/ UNCHANGED exchanges
        BY <1>12
    <2> QED
        BY <1>3, <1>15, <1>17, <2>1, PostedTo
<1>19. EndedOver'
    <2>1. \A m \in DOMAIN replies : replies'[m].finished = replies[m].finished
                                    /\ replies'[m].aborted = replies[m].aborted
        BY <1>17
    <2> QED
        BY <1>17, <1>18, <2>1 DEF DiscInv, EndedOver
<1>20. ASSUME NEW m \in DOMAIN replies
       PROVE  Followed(m, replies'[m], middle)
    <2> DEFINE r == replies[m]
               s == replies'[m]
               calling == posted
    <2>1. Followed(m, r, calling) /\ calling \in Seq(T) /\ middle = Append(calling, c)
        BY <1>10, <1>11 DEF DiscInv, AnswersFollowed
    <2>2. CASE m = n
        <3>1. /\ s.answered = Append(r.answered, a) /\ s.discovery = r.discovery /\ s.resources = r.resources
              /\ s.finished = r.finished /\ s.aborted = r.aborted /\ (r.finished => r.aborted)
            BY <1>16, <1>17, <2>2
        <3> HIDE DEF r, s, calling
        <3>2. ContentOf(c, m) /\ IsFor(c, a)
            BY <1>8, <2>2
        <3>3. Followed(m, s, middle)
            BY <1>4, <1>10, <2>1, <3>1, <3>2, FollowedContent
        <3> QED
            BY <3>3 DEF s
    <2>3. CASE m # n
        <3>1. s = r
            BY <1>17, <2>3
        <3>2. ~ContentOf(c, m) /\ c.reply # m
            BY <1>8, <2>3
        <3> HIDE DEF r, s, calling
        <3>3. Followed(m, r, middle)
            BY <1>10, <2>1, <3>2, FollowedOther
        <3> QED
            BY <3>1, <3>3 DEF s
    <2> QED
        BY <2>2, <2>3
<1>21. ASSUME NEW m \in DOMAIN replies
       PROVE  Followed(m, replies'[m], posted')
    <2> DEFINE s == replies'[m]
               later == posted'
    <2>1. Followed(m, s, middle) /\ (s.finished /\ ~s.aborted => end.reply # m)
        BY <1>8, <1>16, <1>17, <1>20
    <2>2. later = middle \/ later = Append(middle, end)
        BY <1>12
    <2> HIDE DEF s, later
    <2>3. Followed(m, s, later)
        BY <1>8, <1>10, <1>13, <2>1, <2>2, FollowedOther
    <2> QED
        BY <2>3 DEF s, later
<1>22. AnswersFollowed'
    BY <1>17, <1>21 DEF AnswersFollowed
<1> QED
    BY <1>18, <1>19, <1>22 DEF DiscInv

(***************************************************************************)
(* What the replies take.                                                  *)
(***************************************************************************)

\* The resources of the first answers are a list.
LEMMA FirstType ==
    ASSUME NEW Parameters, LinksWritten(Parameters), NEW answered \in Seq(Heard),
           NEW k \in 0..Len(answered)
    PROVE  First(k, answered) \in Seq(Resources(Parameters))
<1> DEFINE R == Resources(Parameters)
<1>1. Len(answered) \in Nat
    BY LenProperties
<1>2. CASE k = 0
    <2>1. <<>> \in Seq(R)
        BY EmptySeq
    <2> HIDE DEF R
    <2> QED
        BY <1>2, <2>1, FirstNone DEF R
<1>3. CASE k # 0
    <2> DEFINE j == k - 1
               a == answered[k]
    <2>1. j \in Nat /\ j + 1 = k /\ j + 1 <= Len(answered) /\ k \in 1..Len(answered)
        BY <1>1, <1>3
    <2>2. a \in Heard
        BY <2>1, ElementOfSeq
    <2> HIDE DEF j, a, R
    <2>3. FirstGoesOn(j, answered) /\ First(j, answered) \in Seq(R)
        BY <2>1, FirstNext DEF R
    <2>4. FromAnswer(a) \in Seq(R)
        BY <2>2, AnswerResources DEF R
    <2>5. First(k, answered) = First(j, answered) \o FromAnswer(a)
        BY <2>1, <2>3 DEF FirstGoesOn, a
    <2>6. First(j, answered) \o FromAnswer(a) \in Seq(R)
        <3> DEFINE f == First(j, answered)
                   g == FromAnswer(a)
        <3>1. f \in Seq(R) /\ g \in Seq(R)
            BY <2>3, <2>4
        <3> HIDE DEF f, g
        <3>2. f \o g \in Seq(R)
            BY <3>1, ConcatProperties
        <3> QED
            BY <3>2 DEF f, g
    <2> QED
        BY <2>5, <2>6 DEF R
<1> QED
    BY <1>2, <1>3

\* The fields of a reply that takes a content.
LEMMA ContentFields ==
    ASSUME NEW r, DOMAIN r = ReplyFields, NEW e, ~r.finished
    PROVE  LET s == SetContent(r, e)
               more == ResourcesFromCoreLinkList(e.sender, Document(Links[e.message.payload]))
           IN /\ s.answered = r.answered /\ s.discovery = r.discovery
              /\ s.finished = r.finished /\ s.aborted = r.aborted
              /\ IsError(e.message.code) \/ ~r.discovery => s.resources = r.resources
              /\ ~IsError(e.message.code) /\ r.discovery => s.resources = r.resources \o more
<1>1. {"answered", "discovery", "resources", "finished", "aborted", "message", "error"} \subseteq ReplyFields
    BY DEF ReplyFields
<1> DEFINE more == ResourcesFromCoreLinkList(e.sender, Document(Links[e.message.payload]))
           all == r.resources \o more
           s == SetContent(r, e)
<1> HIDE DEF more, all
<1>2. CASE IsError(e.message.code)
    <2>1. s = [r EXCEPT !.message = e.message, !.error = TRUE]
        BY <1>2 DEF SetContent
    <2> HIDE DEF s
    <2>2. /\ s.answered = r.answered /\ s.discovery = r.discovery /\ s.resources = r.resources
          /\ s.finished = r.finished /\ s.aborted = r.aborted
        BY <1>1, <2>1
    <2> QED
        BY <1>2, <2>2 DEF s
<1>3. CASE ~IsError(e.message.code) /\ ~r.discovery
    <2>1. s = [r EXCEPT !.message = e.message]
        BY <1>3 DEF SetContent
    <2> HIDE DEF s
    <2>2. /\ s.answered = r.answered /\ s.discovery = r.discovery /\ s.resources = r.resources
          /\ s.finished = r.finished /\ s.aborted = r.aborted
        BY <1>1, <2>1
    <2> QED
        BY <1>3, <2>2 DEF s
<1>4. CASE ~IsError(e.message.code) /\ r.discovery
    <2>1. s = [r EXCEPT !.message = e.message, !.resources = all]
        BY <1>4 DEF SetContent, all, more
    <2> HIDE DEF s
    <2>2. /\ s.answered = r.answered /\ s.discovery = r.discovery /\ s.resources = all
          /\ s.finished = r.finished /\ s.aborted = r.aborted
        BY <1>1, <2>1
    <2> QED
        BY <1>4, <2>2 DEF s, all, more
<1> QED
    BY <1>2, <1>3, <1>4

\* A content adds the resources of the answer it was made of.
LEMMA ContentTaken ==
    ASSUME NEW Parameters, LinksWritten(Parameters), NEW n, NEW calling, NEW r, DOMAIN r = ReplyFields,
           NEW e, e.message = e.answer, ~r.finished, Followed(n, r, calling), NEW a \in Heard, IsFor(e, a), r.discovery
    PROVE  SetContent(r, e).resources = r.resources \o FromAnswer(a)
<1>1. e.sender = a.sender /\ e.message.code = a.code /\ e.message.payload = a.payload
    BY DEF IsFor
<1> DEFINE s == SetContent(r, e)
           more == ResourcesFromCoreLinkList(e.sender, Document(Links[e.message.payload]))
           from == FromAnswer(a)
           R == Resources(Parameters)
<1>2. /\ IsError(e.message.code) => s.resources = r.resources
      /\ ~IsError(e.message.code) => s.resources = r.resources \o more
    BY ContentFields
<1> HIDE DEF s
<1>3. CASE ~IsError(a.code)
    <2>1. from = more
        BY <1>1, <1>3, AnswerResources
    <2> HIDE DEF more, from
    <2> QED
        BY <1>1, <1>2, <1>3, <2>1 DEF s, from
<1>4. CASE IsError(a.code)
    <2>1. from = <<>>
        BY <1>4, AnswerResources
    <2>2. r.answered \in Seq(Heard) /\ \E k \in 0..Len(r.answered) : r.resources = First(k, r.answered)
        BY WaitingSome DEF Followed
    <2>3. PICK k \in 0..Len(r.answered) : r.resources = First(k, r.answered)
        BY <2>2
    <2> DEFINE old == r.resources
               answered == r.answered
    <2>4. old \in Seq(R)
        <3>1. answered \in Seq(Heard) /\ k \in 0..Len(answered) /\ old = First(k, answered)
            BY <2>2, <2>3
        <3> HIDE DEF answered, old
        <3>2. First(k, answered) \in Seq(R)
            BY <3>1, FirstType
        <3> QED
            BY <3>1, <3>2
    <2> HIDE DEF old, from, R
    <2>5. old \o from = old
        BY <2>1, <2>4, ConcatEmptySeq
    <2> QED
        BY <1>1, <1>2, <1>4, <2>5 DEF s, old, from
<1> QED
    BY <1>3, <1>4

\* What the first call makes of its reply.
LEMMA CallHandled ==
    ASSUME RequestInv, HandlePosted, NEW e, e = Head(posted), NEW n \in DOMAIN replies, n = e.reply
    PROVE  /\ DOMAIN replies' = DOMAIN replies
           /\ \A m \in DOMAIN replies : m # n => replies'[m] = replies[m]
           /\ e.op = "setContent" => replies'[n] = SetContent(replies[n], e)
           /\ e.op # "setContent" =>
                 /\ replies'[n].answered = replies[n].answered
                 /\ replies'[n].discovery = replies[n].discovery
                 /\ replies'[n].resources = replies[n].resources
                 /\ replies'[n].finished = TRUE
                 /\ replies'[n].aborted = replies[n].aborted
<1> DEFINE r == replies[n]
           end == [r EXCEPT !.finished = TRUE]
           x == IF e.op = "setContent" THEN SetContent(r, e) ELSE end
<1>1. replies' = [replies EXCEPT ![n] = x]
    BY DEF HandlePosted
<1>2. DOMAIN r = ReplyFields
    BY DEF RequestInv, RepliesListed
<1>3. {"answered", "discovery", "resources", "finished", "aborted"} \subseteq ReplyFields
    BY DEF ReplyFields
<1>4. /\ end.answered = r.answered /\ end.discovery = r.discovery /\ end.resources = r.resources
      /\ end.finished = TRUE /\ end.aborted = r.aborted
    BY <1>2, <1>3
<1> HIDE DEF end
<1>5. /\ e.op = "setContent" => x = SetContent(r, e)
      /\ e.op # "setContent" => x = end
    OBVIOUS
<1> HIDE DEF x
<1>6. /\ DOMAIN replies' = DOMAIN replies /\ replies'[n] = x
      /\ \A m \in DOMAIN replies : m # n => replies'[m] = replies[m]
    BY <1>1
<1> QED
    BY <1>4, <1>5, <1>6

LEMMA HandlePostedAnswers ==
    ASSUME NEW Parameters, LinksWritten(Parameters), DiscInv, FrameInv', HandlePosted
    PROVE  DiscInv'
<1>0. RequestInv /\ FrameInv
    BY DEF DiscInv, FrameInv
<1>1. posted # <<>> /\ posted' = Tail(posted) /\ UNCHANGED <<calls, exchanges>>
    BY DEF HandlePosted
<1>2. PICK e : e = Head(posted)
    OBVIOUS
<1>3. PICK n : n = e.reply
    OBVIOUS
<1>4. PICK T : posted \in Seq(T)
    BY <1>0 DEF FrameInv, HistoriesListed
<1> DEFINE N == Len(posted)
<1>5. /\ N \in Nat /\ N >= 1 /\ DOMAIN posted = 1..N /\ DOMAIN posted' = 1..(N - 1)
      /\ \A p \in 1..(N - 1) : posted'[p] = posted[p + 1]
    BY <1>1, <1>4, TailPlaces
<1> HIDE DEF N
<1>6. posted[1] = e /\ 1 \in DOMAIN posted
    <2>1. e = posted[1]
        BY <1>1, <1>2, <1>4
    <2> QED
        BY <1>5, <2>1
<1>7. \A p \in DOMAIN posted' : /\ p \in Int /\ p + 1 \in DOMAIN posted /\ posted'[p] = posted[p + 1]
    BY <1>5
<1>8. /\ n \in DOMAIN replies
      /\ e.op # "setContent" => Over(n) /\ \A q \in DOMAIN posted : q > 1 => posted[q].reply # n
      /\ e.op = "setContent" => e.message = e.answer
    BY <1>0, <1>3, <1>6 DEF DiscInv, EndsLast, FrameInv, AnswersReadable
<1>9. /\ DOMAIN replies' = DOMAIN replies
      /\ \A m \in DOMAIN replies : m # n => replies'[m] = replies[m]
      /\ e.op = "setContent" => replies'[n] = SetContent(replies[n], e)
      /\ e.op # "setContent" =>
            /\ replies'[n].answered = replies[n].answered
            /\ replies'[n].discovery = replies[n].discovery
            /\ replies'[n].resources = replies[n].resources
            /\ replies'[n].finished = TRUE
            /\ replies'[n].aborted = replies[n].aborted
    BY <1>0, <1>2, <1>3, <1>8, CallHandled
<1>10. DOMAIN replies[n] = ReplyFields
    BY <1>0, <1>8 DEF RequestInv, RepliesListed
<1>11. \A m : Over(m) => Over(m)'
    BY <1>1 DEF Over
<1>12. StartedOnce'
    BY <1>1, <1>9 DEF DiscInv, StartedOnce
<1>13. EndsLast'
    <2>1. \A p \in DOMAIN posted' : posted'[p].reply \in DOMAIN replies'
        BY <1>7, <1>9 DEF DiscInv, EndsLast
    <2>2. ASSUME NEW p \in DOMAIN posted', posted'[p].op # "setContent"
          PROVE  /\ Over(posted[p].reply)'
                 /\ \A q \in DOMAIN posted' : q > p => posted'[q].reply # posted'[p].reply
        <3>1. PICK m : m = posted'[p].reply
            OBVIOUS
        <3>2. /\ p + 1 \in DOMAIN posted /\ posted[p + 1].reply = m /\ posted[p + 1].op # "setContent"
            BY <1>7, <2>2, <3>1
        <3>3. Over(m) /\ \A q \in DOMAIN posted : q > p + 1 => posted[q].reply # m
            BY <3>2 DEF DiscInv, EndsLast
        <3>4. \A q \in DOMAIN posted' : q > p => q + 1 > p + 1 /\ q + 1 \in DOMAIN posted
            BY <1>7
        <3>5. \A q \in DOMAIN posted' : q > p => posted'[q].reply # m
            BY <1>7, <3>3, <3>4
        <3>6. Over(m)'
            BY <1>11, <3>3
        <3> QED
            BY <3>1, <3>5, <3>6 DEF Over
    <2> QED
        BY <2>1, <2>2 DEF EndsLast
<1>14. e.op = "setContent" => /\ replies'[n].finished = replies[n].finished
                              /\ replies'[n].aborted = replies[n].aborted
    <2> SUFFICES ASSUME e.op = "setContent"
                 PROVE  /\ replies'[n].finished = replies[n].finished
                        /\ replies'[n].aborted = replies[n].aborted
        OBVIOUS
    <2> DEFINE r == replies[n]
    <2>1. CASE r.finished
        BY <1>9, <2>1 DEF SetContent
    <2>2. CASE ~r.finished
        <3> HIDE DEF r
        <3>1. SetContent(r, e).finished = r.finished /\ SetContent(r, e).aborted = r.aborted
            BY <1>10, <2>2, ContentFields DEF r
        <3> QED
            BY <1>9, <3>1 DEF r
    <2> QED
        BY <2>1, <2>2
<1>15. EndedOver'
    <2> SUFFICES ASSUME NEW m \in DOMAIN replies, replies'[m].finished, ~replies'[m].aborted
                 PROVE  Over(m)
        BY <1>9, <1>11 DEF EndedOver
    <2>1. CASE replies'[m].finished = replies[m].finished /\ replies'[m].aborted = replies[m].aborted
        BY <2>1 DEF DiscInv, EndedOver
    <2>2. CASE m = n /\ e.op # "setContent"
        BY <1>8, <2>2
    <2> QED
        BY <1>9, <1>14, <2>1, <2>2
<1>16. ASSUME NEW m \in DOMAIN replies
       PROVE  Followed(m, replies'[m], posted')
    <2> DEFINE r == replies[m]
               s == replies'[m]
               calling == posted
               later == posted'
    <2>1. /\ Followed(m, r, calling) /\ calling \in Seq(T) /\ later = Tail(calling) /\ calling # <<>>
          /\ calling[1] = e
        BY <1>1, <1>4, <1>6 DEF DiscInv, AnswersFollowed
    <2>2. CASE m # n \/ (e.op = "setContent" /\ r.finished)
        <3>1. s = r
            BY <1>9, <2>2 DEF SetContent
        <3>2. ~ContentOf(e, m) \/ r.finished
            BY <1>3, <2>2 DEF ContentOf
        <3> HIDE DEF r, s, calling, later
        <3>3. Followed(m, r, later)
            BY <2>1, <3>2, FollowedTail
        <3> QED
            BY <3>1, <3>3 DEF s, later
    <2>3. CASE m = n /\ e.op = "setContent" /\ ~r.finished
        <3>1. DOMAIN r = ReplyFields /\ s = SetContent(r, e) /\ e.message = e.answer
            BY <1>8, <1>9, <1>10, <2>3
        <3>2. ContentOf(e, m)
            BY <1>3, <2>3 DEF ContentOf
        <3> HIDE DEF r, s, calling, later
        <3>3. /\ s.answered = r.answered /\ s.discovery = r.discovery
              /\ s.finished = r.finished /\ s.aborted = r.aborted
            BY <2>3, <3>1, ContentFields
        <3>4. ASSUME NEW a \in Heard, IsFor(e, a), r.discovery
              PROVE  s.resources = r.resources \o FromAnswer(a)
            BY <2>1, <2>3, <3>1, <3>4, ContentTaken
        <3>5. \A a \in Heard : IsFor(calling[1], a) /\ r.discovery => s.resources = r.resources \o FromAnswer(a)
            BY <2>1, <3>4
        <3>6. Followed(m, s, later)
            BY <2>1, <2>3, <3>2, <3>3, <3>5, FollowedTaken
        <3> QED
            BY <3>6 DEF s, later
    <2>4. CASE m = n /\ e.op # "setContent"
        <3>1. /\ s.answered = r.answered /\ s.discovery = r.discovery /\ s.resources = r.resources
              /\ s.finished = TRUE /\ s.aborted = r.aborted
            BY <1>9, <2>4
        <3>2. ~ContentOf(e, m) /\ \A q \in DOMAIN calling : q > 1 => calling[q].reply # m
            BY <1>8, <2>4 DEF ContentOf
        <3> HIDE DEF r, s, calling, later
        <3>3. Followed(m, s, later)
            BY <2>1, <3>1, <3>2, FollowedEnd
        <3> QED
            BY <3>3 DEF s, later
    <2> QED
        BY <2>2, <2>3, <2>4
<1>17. AnswersFollowed'
    BY <1>9, <1>16 DEF AnswersFollowed
<1> QED
    BY <1>12, <1>13, <1>15, <1>17 DEF DiscInv

(***************************************************************************)
(* The resources of a discovery.                                           *)
(***************************************************************************)

LEMMA AbortRequestAnswers == ASSUME DiscInv, FrameInv', AbortRequest PROVE DiscInv'
<1>0. RequestInv
    BY DEF DiscInv, FrameInv
<1>1. UNCHANGED <<calls, exchanges, posted>>
    BY DEF AbortRequest
<1>2. PICK n \in DOMAIN replies :
         ~replies[n].finished /\ replies' = [replies EXCEPT ![n].finished = TRUE, ![n].aborted = TRUE]
    BY DEF AbortRequest
<1> DEFINE r == replies[n]
           s == [r EXCEPT !.finished = TRUE, !.aborted = TRUE]
<1>3. replies' = [replies EXCEPT ![n] = s]
    BY <1>2
<1>4. DOMAIN r = ReplyFields
    BY <1>0 DEF RequestInv, RepliesListed
<1>5. {"answered", "discovery", "resources", "finished", "aborted"} \subseteq ReplyFields
    BY DEF ReplyFields
<1>6. /\ s.answered = r.answered /\ s.discovery = r.discovery /\ s.resources = r.resources
      /\ s.finished = TRUE /\ s.aborted = TRUE
    BY <1>4, <1>5
<1> HIDE DEF s
<1>7. /\ DOMAIN replies' = DOMAIN replies /\ replies'[n] = s
      /\ \A m \in DOMAIN replies : m # n => replies'[m] = replies[m]
    BY <1>3
<1>8. \A m : Over(m) => Over(m)'
    BY <1>1 DEF Over
<1>9. StartedOnce' /\ EndsLast'
    BY <1>1, <1>7 DEF DiscInv, StartedOnce, EndsLast, Over
<1>10. EndedOver'
    BY <1>6, <1>7, <1>8 DEF DiscInv, EndedOver
<1>11. Followed(n, s, posted)
    <2>1. Followed(n, r, posted) /\ ~r.finished
        BY <1>2 DEF DiscInv, AnswersFollowed
    <2> HIDE DEF r
    <2> QED
        BY <1>6, <2>1, FollowedAbort
<1>12. AnswersFollowed'
    BY <1>1, <1>7, <1>11 DEF DiscInv, AnswersFollowed
<1> QED
    BY <1>9, <1>10, <1>12 DEF DiscInv

LEMMA OperationAnswers == ASSUME DiscInv, FrameInv', Operation PROVE DiscInv'
<1>1. CASE Get
    BY <1>1, SendAnswers DEF Get
<1>2. CASE Put
    BY <1>2, SendAnswers DEF Put
<1>3. CASE Post
    BY <1>3, SendAnswers DEF Post
<1>4. CASE DeleteResource
    BY <1>4, SendAnswers DEF DeleteResource
<1>5. CASE Observe
    BY <1>5, SendAnswers DEF Observe
<1>6. CASE Discover
    BY <1>6, SendAnswers DEF Discover
<1> QED
    BY <1>1, <1>2, <1>3, <1>4, <1>5, <1>6 DEF Operation

LEMMA InitAnswers == ASSUME Init PROVE DiscInv
<1>1. FrameInv
    BY InitFrames
<1>2. DOMAIN replies = {} /\ DOMAIN calls = {} /\ DOMAIN exchanges = {} /\ DOMAIN posted = {}
    BY DEF Init
<1> QED
    BY <1>1, <1>2 DEF DiscInv, StartedOnce, EndsLast, EndedOver, AnswersFollowed

LEMMA StepAnswers ==
    ASSUME InputsFit, NEW Parameters, LinksWritten(Parameters), DiscInv, [Next]_vars
    PROVE  DiscInv'
<1>0. FrameInv'
    BY StepFrames DEF DiscInv
<1>1. CASE EditUrl \/ EditOptions \/ EditMessage
    BY <1>0, <1>1, NothingHeard DEF EditUrl, EditOptions, EditMessage, Edit
<1>2. CASE Operation
    BY <1>0, <1>2, OperationAnswers
<1>3. CASE StartRequest
    BY <1>0, <1>3, StartRequestAnswers
<1>4. CASE OnFrameReceived
    BY <1>0, <1>4, OnFrameReceivedAnswers
<1>5. CASE OnMulticastRequestExpired
    BY <1>0, <1>5, OnMulticastRequestExpiredAnswers
<1>6. CASE HandlePosted
    BY <1>0, <1>6, HandlePostedAnswers
<1>7. CASE AbortRequest
    BY <1>0, <1>7, AbortRequestAnswers
<1>8. CASE UNCHANGED vars
    BY <1>0, <1>8, NothingHeard DEF vars
<1> QED
    BY <1>1, <1>2, <1>3, <1>4, <1>5, <1>6, <1>7, <1>8 DEF Next

\* A reply that waits for nothing has taken every answer.
LEMMA AnswersTaken == ASSUME DiscInv PROVE DiscoveredInOrder
<1> SUFFICES ASSUME NEW n \in DOMAIN replies, replies[n].discovery
             PROVE  LET reply == replies[n]
                    IN /\ \E k \in 0..Len(reply.answered) : reply.resources = First(k, reply.answered)
                       /\ posted = <<>> /\ ~reply.aborted =>
                             reply.resources = First(Len(reply.answered), reply.answered)
    BY Zenon DEF DiscoveredInOrder
<1> DEFINE r == replies[n]
<1>1. Followed(n, r, posted) /\ r.discovery
    BY DEF DiscInv, AnswersFollowed
<1> HIDE DEF r
<1>2. CASE r.finished
    <2>1. Ended(n, r, posted)
        BY <1>1, <1>2 DEF Followed
    <2> QED
        BY <1>1, <2>1, Zenon DEF Ended, r
<1>3. CASE ~r.finished
    <2>1. Waiting(n, r, posted) /\ r.answered \in Seq(Heard)
        BY <1>1, <1>3 DEF Followed
    <2>2. \E k \in 0..Len(r.answered) : r.resources = First(k, r.answered)
        BY <1>1, <2>1, WaitingSome
    <2>3. ASSUME posted = <<>>
          PROVE  r.resources = First(Len(r.answered), r.answered)
        <3>1. DOMAIN posted = {}
            BY <2>3
        <3>2. \A p \in DOMAIN posted : ~ContentOf(posted[p], n)
            BY <3>1
        <3> QED
            BY <1>1, <2>1, <3>2, WaitingNone
    <2> QED
        BY <2>2, <2>3 DEF r
<1> QED
    BY <1>2, <1>3

\* onReplyDelivered, _q_setContent and _q_setFinished over the two threads: whatever answers come
\* from whom, and whenever the user aborts, a discovery reply has the resources of the answers it
\* took, in their order, and all of them when it ended by itself.
THEOREM DiscoveriesInOrder ==
    ASSUME InputsFit, NEW CONSTANT Parameters, LinksWritten(Parameters)
    PROVE  Spec => []DiscoveredInOrder
<1>1. Init => DiscInv
    BY InitAnswers
<1>2. DiscInv /\ [Next]_vars => DiscInv'
    BY StepAnswers
<1>3. DiscInv => DiscoveredInOrder
    BY AnswersTaken
<1> QED
    BY <1>1, <1>2, <1>3, PTL DEF Spec
=============================================================================
