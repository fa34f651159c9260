\* Three requests, prepared at the same time or one after the other; every kind
\* of response.
CONSTANTS
    get = get
    head = head
    upload = upload
    plain = plain
    fresh = fresh
    short = short
    long = long
    user = user
    nobody = nobody
    Requests = {get, head, upload}
    Own <- MCOwn
    Default <- MCDefault
    MethodOf <- MCMethodOf
    UploadForms = {}
\* Every request is made once.
CHECK_DEADLOCK FALSE
SPECIFICATION Spec
INVARIANTS
    TypeOK
    SettingsAreMixedOnlyByOverlap
    OnlyParsedAnswersSucceed
PROPERTIES
    RequestsAreAnswered
