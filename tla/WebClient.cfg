SPECIFICATION ClientSpec
CONSTANTS
    r1 = r1
    r2 = r2
    Page = {r1, r2}
    Account = account
    Boot = boot
    BrowserSession = {s1, s2, s3, s4, s5}
    Nil = Nil
    MaxLosses = 1
INVARIANT OneSharedRefresh
PROPERTIES
    StaysSignedIn
    EveryCallEnds
