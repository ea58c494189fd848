SPECIFICATION FairSpec
CONSTANTS
    dotted = dotted
    under = under
    ann = ann
    bob = bob
    NoMail = NoMail
    Placeholder = Placeholder
    Nobody = Nobody
    Subjects = {ann, bob}
    Names = {dotted, under}
    Preferred <- DottedAndUnder
    LocalName <- BothUnder
    Mailboxes = {ann, bob}
    Mailbox <- OwnMailbox
    MaxAccounts = 3
    Logins = {w1, w2}
    Refreshers = {f1}
    Mortal = {w2}
    Visitors = {ann, bob}
    Members = {bob}
INVARIANTS
    TypeOK
    AccountIsOwn
    CephNameExplained
PROPERTIES
    PersistentUsersGetIn
