------------------------------- MODULE CoapUrl -------------------------------
(***************************************************************************)
(* The URL of a request: QCoapRequest::setUrl, adjustedUrl and isUrlValid, *)
(* and the options and the target that QCoapInternalRequest::addUriOptions *)
(* makes of it.                                                            *)
(*                                                                         *)
(* A URL is a record.  Its path is what '/' separates (an absolute path    *)
(* starts with an empty segment), its query what '&' separates; texts are  *)
(* decoded and the host is in lower case, as QUrl has them.                *)
(***************************************************************************)
EXTENDS Integers, CoapOption

CONSTANTS
    Utf8,       \* the bytes of each text
    NonAscii,   \* the texts that are not ASCII
    Addresses,  \* the hosts that are IP addresses
    Groups      \* those of them that are multicast addresses

Texts == DOMAIN Utf8
NoPort == -1
DefaultPort == 5683
DefaultSecurePort == 5684

ASSUME TextAssumption ==
    /\ Utf8 \in [Texts -> Seq(Byte)]
    /\ \A s, t \in Texts : Utf8[s] = Utf8[t] => s = t
    /\ {"", "coap", "coaps"} \subseteq Texts /\ Utf8[""] = <<>>
    /\ NonAscii \subseteq Texts
    /\ Groups \subseteq Addresses /\ Addresses \subseteq Texts

URLs == [valid : BOOLEAN, scheme : {"", "coap", "coaps", "http"}, host : Texts,
         port : UInt16 \cup {NoPort}, path : Seq(Texts), query : Seq(Texts), fragment : BOOLEAN]

\* QUrl()
NoUrl == [valid |-> FALSE, scheme |-> "", host |-> "", port |-> NoPort,
          path |-> <<>>, query |-> <<>>, fragment |-> FALSE]

IsEmpty(url) == url = NoUrl
IsMulticast(host) == host \in Groups

\* Fault: the port of coap stands in for that of coaps.
FaultySetUrl(old, url) ==
    IF IsEmpty(url) THEN url
    ELSE IF ~url.valid \/ url.scheme = "http" THEN old
    ELSE IF url.port = NoPort /\ url.scheme # "" THEN [url EXCEPT !.port = DefaultPort] ELSE url

\* QCoapRequestPrivate::setUrl: a URL that is invalid or has another scheme is not taken.
SetUrl(old, url) ==
    IF IsEmpty(url) THEN url
    ELSE IF ~url.valid \/ url.scheme = "http" THEN old
    ELSE CASE url.port = NoPort /\ url.scheme = "coap" -> [url EXCEPT !.port = DefaultPort]
           [] url.port = NoPort /\ url.scheme = "coaps" -> [url EXCEPT !.port = DefaultSecurePort]
           [] OTHER -> url

IsUrlValid(url) == url.valid /\ url.scheme \in {"coap", "coaps"} /\ ~url.fragment

\* scheme + "://" before a URL without a host: its first segment becomes the host.
FirstAsHost(url, scheme) ==
    [url EXCEPT !.scheme = scheme,
                !.host = IF url.path = <<>> THEN "" ELSE Head(url.path),
                !.path = IF Len(url.path) < 2 THEN <<>> ELSE <<"">> \o Tail(url.path)]

AdjustedUrl(url, secure) ==
    LET scheme == IF secure THEN "coaps" ELSE "coap"
        complete == IF url.host = "" /\ url.scheme = "" THEN FirstAsHost(url, scheme)
                    ELSE IF url.scheme = "" THEN [url EXCEPT !.scheme = scheme] ELSE url
    IN IF IsEmpty(url) \/ ~url.valid \/ complete.host = "" THEN NoUrl
       ELSE IF url.port # NoPort THEN complete
       ELSE [complete EXCEPT !.port = IF secure THEN DefaultSecurePort ELSE DefaultPort]

\* QUrl::NormalizePathSegments: "." and ".." are resolved, empty segments stay.
NormalizedPath(path) ==
    FoldLeft(LAMBDA done, s : IF s = "." THEN done
                              ELSE IF s # ".." THEN Append(done, s)
                              ELSE IF Len(done) > 1 THEN Front(done) ELSE done,
             <<>>, path)

Normalized(url) == [url EXCEPT !.path = NormalizedPath(url.path)]

IsAscii(url) == ({url.host} \cup {url.path[i] : i \in DOMAIN url.path}
                            \cup {url.query[i] : i \in DOMAIN url.query}) \cap NonAscii = {}

\* The options added one by one to those that are there.
AddOptions(options, more) == FoldLeft(AddOption, options, more)

TextOptions(name, texts) ==
    FoldLeft(LAMBDA options, t : IF t = "" THEN options ELSE Append(options, Option(name, Utf8[t])),
             <<>>, texts)

\* uriHostOption: an IP address needs none.
UriHostOption(url) == IF url.host \in Addresses THEN <<>> ELSE <<Option("UriHost", Utf8[url.host])>>

UriOptions(url) ==
    UriHostOption(url)
    \o (IF url.port \in {DefaultPort, DefaultSecurePort} THEN <<>>
        ELSE <<Option("UriPort", UintBytes(url.port))>>)
    \o TextOptions("UriPath", url.path)
    \o TextOptions("UriQuery", url.query)

\* The text of a URL, for the Proxy-Uri option.
UrlText(url) ==
    LET Joined(texts) == FlattenSeq([i \in DOMAIN texts |-> <<47>> \o Utf8[texts[i]]])
    IN Utf8[url.scheme] \o <<58>> \o Utf8[url.host] \o Joined(url.path) \o Joined(url.query)

\* addUriOptions: the options, and the target, which is empty on failure.
AddUriOptions(options, url, proxy) ==
    IF ~IsEmpty(proxy)
    THEN IF IsUrlValid(proxy)
         THEN [options |-> AddOption(options, Option("ProxyUri", UrlText(proxy))), targetUri |-> proxy]
         ELSE [options |-> options, targetUri |-> NoUrl]
    ELSE LET uri == Normalized(url) IN
         IF IsUrlValid(uri) /\ IsAscii(uri)
         THEN [options |-> AddOptions(options, UriOptions(uri)), targetUri |-> uri]
         ELSE [options |-> options, targetUri |-> NoUrl]
=============================================================================
