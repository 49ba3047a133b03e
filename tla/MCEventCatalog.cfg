\* One event, two slugs, two overlapping writes and a reader.
SPECIFICATION Spec

CONSTANTS
    s1 = s1
    s2 = s2
    w1 = w1
    w2 = w2
    Absent = Absent
    Events = {e1}
    Slugs <- TwoSlugs
    Readers = {r1}
    Editors <- TwoEditors

SYMMETRY Alike

INVARIANT TypeOK
INVARIANT StaleExplained
