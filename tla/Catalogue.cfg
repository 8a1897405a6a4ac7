CONSTANTS
    q1 = q1
    q2 = q2
    i1 = i1
    i2 = i2
    Desks <- SomeDesks
    Suppliers = {"s"}
    Images = {i1, i2}
    Categories = {"c1", "c2", "c3"}
    NoCategory = "none"
    Absent = "absent"
    OdooProducts <- SomeOdooProducts
    Edits <- SomeEdits
    Sessions = {q1, q2}
SYMMETRY Symmetry
CHECK_DEADLOCK FALSE
SPECIFICATION CatalogueSpec
CONSTRAINT PlainProducts
INVARIANTS SourcedWhileOnSale OnePrimaryImage FilesFollowImages CategoriesFormATree ValuesMatchTheirDefinition SearchAgrees
