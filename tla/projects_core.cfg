\* Four invocations of the client on one slug.
SPECIFICATION Spec
CONSTANTS
    c1 = c1
    c2 = c2
    c3 = c3
    c4 = c4
    s1 = s1
    f1 = f1
    f2 = f2
    Cmd = {c1, c2, c3, c4}
    Id = {p1, p2}
    File = {f1, f2}
    Slug = {s1}
    First = first
    None = none
    Scripts <- mcScripts
    MaxFailures = 1
INVARIANTS
    GivenWhatWasThere
PROPERTIES
    EditsKept
