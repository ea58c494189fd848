SPECIFICATION FairSpec
CONSTANTS
    dotted = dotted
    under = under
    ann = ann
    bob = bob
    NoMail = NoMail
    Placeholder = Placeholder
    Nobody = Nobody
    Subjects = {ann, bob}
    Names = {dotted, under}
    Preferred <- DottedAndUnder
    LocalName <- BothUnder
    Mailboxes = {ann}
    Mailbox <- SameMailbox
    MaxAccounts = 4
    Logins = {w1, w2}
    Refreshers = {}
    Mortal = {}
    Visitors = {}
    Members = {}
PROPERTY CollisionsResolved
