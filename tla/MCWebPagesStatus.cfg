CONSTANTS
    k1 = k1
    k2 = k2
    ann = ann
    adm = adm
    a = a
    b = b
    s1 = s1
    s2 = s2
    None = None
    Tokens = {k1, k2}
    Who <- MCWho
    Admins = {adm}
    Ids = {a, b}
    LastPage = 2
    Slots = {s1, s2}
    MaxVersion = 1
SYMMETRY Symmetry
SPECIFICATION PagesSpec
PROPERTIES
    AnswersMindTheirUser
