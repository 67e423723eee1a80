\* Two connections of an account to one source, one to another and one to none,
\* every failure, a credential that the source may reject and accept again, and
\* migrations up and down.
SPECIFICATION COSpec
CONSTANTS
    c1 = c1  c2 = c2  c3 = c3  c4 = c4
    f1 = f1  f2 = f2  f3 = f3
    k1 = k1  k2 = k2
    t1 = t1  t2 = t2
    NoCredential = NoCredential
    Connection = {c1, c2, c3, c4}
    SecretRef = {f1, f2, f3}
    RefOf <- MCRefOf
    SourceOf <- MCSourceOf
    Credential = {k1, k2}
    FieldsOf <- MCFieldsOf
    Environment = {"subdomain"}
    Request = {t1, t2}
    Unstable = {k2}
    Failing = TRUE
SYMMETRY RequestSymmetry
INVARIANTS
    COTypeOK
    NoDanglingRef
    StatusTellsOfSecret
    TestedIsListed
    HeadIsModels
    MigrationsApply
