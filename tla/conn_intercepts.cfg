SPECIFICATION Spec
CONSTANTS
    Own = Own
    None = None
    Typed = {who}
    TypedWheres = {}
    EventsMax = 2
    MaxSaid = 1
    MaxLines = 1
INVARIANT OnlyOwnReplyIntercepted
CHECK_DEADLOCK FALSE
