SPECIFICATION FairSpec
CONSTANTS
    r1 = r1  r2 = r2  t1 = t1  t2 = t2  h1 = h1  h2 = h2
    EmptyToken = EmptyToken  Group = Group  NoExchange = NoExchange
    Replies = {r1}
    Tokens = {t1}
    MessageIds <- TwoIds
    Hosts = {h1}
    UserTokens <- NoToken
    Targets = {h1, Group}
    Confirmables <- MayConfirm
    Observes <- MayObserve
    ServerIds <- OnlyOne
    Codes <- AllCodes
    Nexts <- NoUpload
    MaxRetransmit = 1
    ReuseTokens = FALSE
    MaxQueue = 1
    MaxCancels = 1
INVARIANTS TypeOK FinishedOnce EndIsForgotten CancelledIsTold ClientFollowsReply ClientIsTold ConfirmableAnswered
PROPERTIES RequestsEnd
\* The user may stop sending requests.
CHECK_DEADLOCK FALSE
