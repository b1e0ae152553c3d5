SPECIFICATION Spec
CONSTANTS
    Utf8 <- MCUtf8
    NonAscii = {"n"}
    Addresses = {"ip", "ip2", "group"}
    Groups = {"group"}
    Urls <- MCUrls
    Proxies <- MCProxies
    UserOptions <- MCUserOptions
    OptionLists <- MCOptionLists
    Versions = {2}
    UserTokens <- MCUserTokens
    Payloads <- MCPayloads
    Links <- MCLinks
    DiscoveryPath <- MCDiscoveryPath
    DiscoveryPorts = {5683}
    Tokens <- MCTokens
    Ids = {515}
    Codes = {69, 132}
    MaxEdits = 2
    MaxRequests = 1
    MaxAnswers = 2
    MaxInputs = 2
    AnswerOptions <- MCAnswerOptions
INVARIANTS TypeOK OptionsSorted FramesReadable AnswersReadable ServerSeesUrl
INVARIANTS ObservationFoundByUrl DiscoveredInOrder
\* The program rests when the requests are over.
CHECK_DEADLOCK FALSE
