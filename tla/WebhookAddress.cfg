\* Two visitors submit one after the other; the webhook of the first is posted
\* when its context already carries the second.
SPECIFICATION Spec
CONSTANTS
    r1 = r1
    r2 = r2
    f1 = f1
    v1 = v1
    v2 = v2
    Requests <- MCOneRequest
    Forms <- MCForms
    ReplyForms <- MCNone
    HookForms <- MCForms
    Visitors <- MCVisitors
    Writers <- MCNone
    Addresses <- MCOneAddress
    NumChannels = 1
    Own <- MCOwnOne
    MaxRows = 2
    MaxFaults = 0
    MaxEdits = 0
INVARIANT WebhookNamesSubmitter
CHECK_DEADLOCK FALSE
