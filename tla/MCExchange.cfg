CONSTANTS
    Methods = {"GET", "HEAD", "POST", "TRACE"}
    Protos = {"IOT/1.0", "IOT/1.1", "IOT/2.0"}
    Connections = {"none", "close", "keep-alive", "list"}
    Statuses = {200, 204}
SPECIFICATION Spec
INVARIANTS TypeOK CloseKept BodyWhereAllowed BodySentOn
PROPERTY EndsAgree
CHECK_DEADLOCK FALSE
